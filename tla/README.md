# Gitduppy: TLA+ models, checks and proofs

Gitduppy mirrors Git repositories. A Go server keeps their metadata in a
database (GORM), clones and fetches them on a schedule with a pool of worker
goroutines, archives branches that vanish upstream, keeps deleted repositories
in a paperbin, shares the objects of mirrors of one URL, delivers and receives
webhooks, and serves a web UI and an API behind sessions, API keys and OAuth.
This directory models the parts of it in which order, failure or concurrency
matter. `PROJECT.json` maps every definition to the lines it stands for, and
lists components, runs, mutants, hazards, findings and theorems.

Run a model with `tlc -config X.cfg M`, the proofs of a module with `tlapm M.tla`.

## 1. Inventory

State lives in three places: rows of the database, the directories under the
storage root, and the memory of one process. Only the first two outlive it.

| component | state | operations | what is hard | what makes it correct |
|---|---|---|---|---|
| Clone worker pool (`gitops/worker.go`) | `clone_jobs.status`, path locks, `inflight`, `stopping`, contexts | `worker`, `admit`, `processJob`, `failJob`, `handleFailure`, `enqueueAfter`, `Start`, `Stop` | workers, timers, API, cancellation and shutdown interleave; a crash loses all memory | one git process per directory; no row lost, doubled or left running; a finished row is final; `Stop` ends |
| Job queue and dispatcher (`worker.go`) | backlog slice, one-slot notify channel, bounded `jobQueue` | `Enqueue`, `dispatch`, a worker's receive | lost wake-ups, a full channel, shutdown while blocked | FIFO, nothing dropped or repeated, dispatcher always leaves |
| Scheduler and recovery (`gitops/scheduler.go`) | ticker, `last_clone_at`, `next_retry_at` | `scheduleCloneJobs`, `reapOrphanedJobs` | decides on three reads made at different times; `Stop` does not wait for a tick | recovery neither strands nor duplicates work |
| Clone jobs API (`services/clone_service.go`) | rows | `CreateCloneJob`, `CancelCloneJob` | check and insert are two statements | as above |
| Path locks (`gitops/keyedmutex.go`) | map of reference-counted mutexes | `Lock`, `TryLock`, unlock | eviction against acquisition | one mutex per path in use, no leak, no starvation |
| Inbound webhooks (`handlers/webhook_handler.go`) | webhook rows, jobs | receive, match, ask for a job | a lost or repeated notification, a job that already read upstream, is cancelled or dies with the process | a push gets into the mirror |
| Server start and stop (`cmd/server/main.go`) | schema, defaults, services | migrate, defaults, starts, deferred stops | order of the stops, which of them wait, a start cut off | who still works finds what it needs |
| Auth cache (`middleware/authcache.go`, `auth.go`) | map of validated users, `gen` | `begin`, `store`, `get`, `Evict*` | validation reads, revocation writes, neither locks the other | what was revoked is not served from the cache |
| Users, API keys (`services/*`) | rows | revoke, disable, delete, update | read-modify-`Save` of whole rows | a decision to disable stays |
| Log hub, WebSocket re-authentication (`worker.go`, `ws_auth.go`, `repository_handler.go`) | lists of channels, connections | subscribe, publish, watch, close | lossy sends, close races, a peer that is gone or stalled | no send on a closed channel; a revoked stream ends |
| Clone on disk (`worker.go`, `gitops.go`) | temp clone, final directory | clone to temp, rename, copy fallback | crash between steps, removals that fail | what passes for a repository is one and stays one; leftovers do not pile up; a repository comes about |
| Repository CRUD, GitHub import (`repository_service.go`, `oauth_service.go`) | the row | create, update, status, import; the worker's backoff | whole-row `Save`s that cross the worker and each other | credentials fit the remote; an active mirror is tried |
| Tags (`tag_service.go`, `postclone.go`) | tags, assignments | assign, remove, set, sync of topics | sync reads, then replaces; updates save what they loaded | a manual tag stays |
| GitHub metadata archive (`github_fetcher.go`) | JSON files, media, a budget | pages, downloads, atomic replacement | lists change under the reader, any request fails | no file is replaced by a part; links resolve |
| Storage path migration (`database.go`) | directories, pointer rows | move, repoint | crash or failure between moves | a start finds every part |
| Branch archive (`worker.go`, `cleanup_worker.go`, `repository_handler.go`) | refs under the paperbin namespace, `DeletedBranch` rows | archive, restore, delete, expire | refs and rows change in separate steps | a row's ref exists; a ref has a row; nothing pruned is lost |
| Paperbin of repositories (`repository_service.go`, `cleanup_worker.go`) | tree, archive file, soft-deleted row | delete, restore, purge | three places, rollbacks in steps, crashes, a running clone, a stale purge list | the data of a repository that is not purged exists somewhere; expiry happens |
| Dedupe pools (`gitops.go`, `cleanup_worker.go`) | shared object stores, alternates | open, fetch, clone by reference, gc | gc takes no lock and knows only the pool's refs | borrowed objects stay |
| Webhook delivery (`webhook_service.go`) | bounded channel, delivery rows | `SendEvent`, worker, attempts, `Stop` | full queue, deadline, shutdown | at most one terminal record and count per event; switched off means no retry |
| Sign-in, sessions, login throttle (`auth_service.go`, `login_throttle.go`) | password, sessions, map of failures | login, logout, refresh, change of password | bcrypt between read and write; a full map | failures count; what ended stays out |
| OAuth login and state store (`oauth_handler.go`, `oauth_state.go`, `oauth_service.go`) | pending flows, links | begin, callback, link, unlink | two tabs, two users, repeated callbacks, an edit that saves the whole user | a state is used once; a link is asked for |
| Rate limiter (`middleware/ratelimit.go`) | buckets in a `sync.Map` | take, drop idle buckets | first requests race; a drop races a request | no more than burst and refill |
| OAuth settings (`config_handler.go`, `config_service.go`) | id and secret rows | two writes with compensation | a failure between them, two admins | id and secret belong together |
| Dashboard, metrics (`dashboard_service.go`, `dedupe_savings.go`) | cached figures, marks of a walk | poll, walk in the background, tick | many pollers, one walk; caches fed by caches | figures advance, and settle |
| Search (`repository_handler.go`) | results, semaphore, a context | a goroutine per repository, cancel | who cancels whom; slots after failures | answers; leaves out nothing without cause |
| Health; egress proxy; audit, e-mail, backup; crypto, validators; UI | - | reads, single statements, pure functions, I/O | little | out of scope, see section 8 |

Interactions: API, scheduler and inbound webhooks insert rows and call
`Enqueue`; the dispatcher feeds the workers; a worker takes the path lock, runs
git, publishes to the log hub, writes the row and the repository row, emits an
event for the webhook service, and may start a timer that calls `Enqueue` again;
`Start` re-enqueues pending rows of the last process; `Stop` closes `softStop`,
sets `stopping`, waits for `inflight`, cancels the context and waits for all
goroutines. Handlers that revoke write the database and then call the cache.
Delete, restore and purge work on a repository's directory without its path lock,
and so does the gc of the pools.

## 2. Modules

    KeyedLock      one lock per key                      (abstract)
      ^ implemented by
    KeyedMutex     keyedmutex.go, with mutex identities  MCKeyedMutex, KeyedMutexProofs
    FifoQueue      a FIFO of jobs                        (abstract)
      ^ implemented by
    DispatchQueue  Enqueue / dispatch / receive         \
    InboundWebhook a push and its notification           > MCDispatchQueue, DispatchQueueProofs
    ServerLife     main: starts and deferred stops      /
    JobLifecycle   the legal life of a row               (abstract)
      ^ implemented by
    CloneWorker    pool, scheduler, API, start and stop  MCCloneWorker, CloneWorkerProofs
    DeliveryLifecycle  the legal life of a delivery      (abstract)
      ^ implemented by
    WebhookDelivery  queue, workers, attempts, Stop      MCWebhookDelivery, WebhookDeliveryProofs
    AuthCache      cache, validators, revokers          \
    LogStream      the hub and its WebSocket streams     \ MCAccess, AuthCacheProofs
    Dashboard      figures measured and kept             / (MCAuthCache: one finding)
    GlobalSearch   a search and its goroutines          /
    AtomicClone    a repository's directory on disk     \
    RepositoryRows a repository's row and its writers    \
    RepositoryTags its tags and the sync of topics        > MCMirror, AtomicCloneProofs
    StoragePathMigration  the move of its directory      /
    GitHubMetadata the archive of its issues            /
    Paperbin       deletion, restoration, purge         \
    BranchArchive  pruned branches: refs and rows        > MCRepositoryData, RepositoryDataProofs
    SharedPool     objects shared by mirrors of a URL   /
    SignIn         password, sessions, throttle         \
    OAuthFlow      state store, callbacks, links         \ MCSignIn, SignInProofs
    OAuthSettings  id and secret of a provider          /
    RateLimiter    the buckets of one client in a tier /
      | implements
    TokenBucket    one bucket that stays                 (abstract)

`CloneWorker` uses the queue and the locks in their abstract form: its `queue`
is the variable of `FifoQueue` (enqueue appends, a worker takes the head), its
`lock` the `owner` of `KeyedLock`. The two refinements proved for
`DispatchQueue` and `KeyedMutex` are what justifies that. Actions carry the
names of the functions they stand for. Where a function does several things
that others can observe in between, it is several actions, named after the
function and the step (`tryLock`, `markRunning`, `gitSucceeds` ... are the
stages of `processJob`).

An MC module with several parts checks them in one run. They have no variable in
common, so interleaving them would only multiply states: `part` picks initially
the one that runs, and the others keep an initial state. Each part then has
the behaviours it would have alone, and a property of a part is one of the run.
A property that joins several promises of the modules is defined in the MC module
from theirs, and every conjunct is one of the module's. Such a module has the constants
of its parts, to which the cfg gives values; so the proof module extends it and proves
what the run checks, for every value.

**KeyedMutex.** `locks` is the map, `refs` the reference counts, `locked` the
state of each mutex object, and `pc`/`key`/`obj` where each goroutine is. The
identity of the object is the point: a key evicted too early would get a second
mutex. `acquire` and `release` run under the map's mutex and are atomic;
taking and unlocking the object are separate steps. A `TryLock` may also fail
while the mutex is unlocked but a waiter is queued, as `sync.Mutex` does.

**DispatchQueue.** The append to the backlog and the poke of `notify` are two
steps, and so are the dispatcher's look and its wait. `hand` is the job it has
popped and not yet sent.

**InboundWebhook.** `sent` are notifications under way, which may be lost, repeated
and overtaken. `ReceiveWebhook` takes the webhook created last among those that match
the repository's URL (a catch-all matches too, and starts nothing); looking for
an unfinished job and inserting one are two further steps. The repository's rows are `waiting`
(how many are pending), `run` (the job a worker has in hand, and whether its row still says
running) and `leftover` (running rows of an ended process). A job reads upstream at a moment
of its own (`fetch`), or git fails, with a retry or without. `CancelCloneJob` ends any
unfinished row, though not the git of a running one; `restart` is an orderly end or a crash,
and the reaping and recovering of the next start. `carried` and `late` are history: what a
request was answered success for, and what met only a job that had read or had nobody to
run it, or lost its last pending job.

**ServerLife.** `stage` is the line of `main`; `deferred` the stack of its deferred
calls. The services are what they ask of each other: a job ends by writing a row and
emitting an event, a delivery writes its row. The scheduler and the cleanup
worker are told to stop and not waited for, so a pass may outlive the database; the
clone worker and the webhook service are waited for. A shutdown that takes
longer than its 30 seconds ends the process without the deferred calls.

**CloneWorker.** Rows (`status`, `repoOf`), what the scheduler reads of a
repository (`due`, `backoff`, `retries`), the process (`phase`, `toRecover`,
`queue`, `timers`, `lock`, `pc`, `job`) and callers (`tick`, `picked`,
`asked`). `UpdateUnlessCancelled` is the conditional UPDATE every status write
uses. `phase` walks through recovering, up, softStop, stopping, cancelled, down;
a crash goes to down from anywhere and keeps only rows. A tick is three steps:
load repositories, load busy set, one insert each. `CreateCloneJob` is two:
the dedupe query and the insert.

**AuthCache.** A validator is `begin`, `readCredential`, `readUser`, `store`. A
revoker is a database write and an eviction; `UpdateUser` (and the OAuth unlink)
is a read, a `Save` of the whole copy, and an eviction.

**LogStream.** `subscribers` and `globalSubs` are the hub's lists, `queue` the lines in a
channel, `open` the channels not closed. A handler captures its credential,
upgrades, subscribes and then selects between lines, its context and the ping;
a second goroutine reads (and fails when the peer goes), a third (`watch`)
re-checks the credential, sends a close frame and cancels. A peer that stops
reading stalls the writer, which has no deadline.

**Dashboard.** `world` is the version of rows and trees, every figure the version it
knows. `figure` is what `storageMu` (or the mutex of the savings) guards: value, age, and
the mark that a walk is under way; `walks` are the goroutines. `GetStats` looks at
its cache, lets go of the mutex, computes (`scan`, `sumSizes` or `totalStorageBytes`) and
stores, so a slow request may put an older snapshot over a newer one. The savings' walk
publishes and takes back its mark in two sections, the second deferred.

**GlobalSearch.** The loop checks (`take`), waits for a slot (`start`) and spawns;
a goroutine greps, adds its lines one by one under the mutex, and ends, or finds the results
full and cancels the shared context. `excused` is history: what was missing, failed or cut off.

**WebhookDelivery.** A job is one event for one webhook; `at` follows it through
sender, queue and worker, `row` and `outcome` are its delivery row and what it
added to the metric. A worker is `receive`, `admit`, `createDelivery` and then,
per attempt, `reloadWebhook`, `sendRequest`, `response`, `recordAttempt` and the
`select` of the backoff (`nextAttempt`, `abortRetry`, both possible when timer and
context are ready). `updateDelivery` may lose its row update, which the code logs
and ignores. Webhooks are edited (read, then `Save` of the copy), deleted and
purged meanwhile. `late` is a history variable: requests sent since the webhook
was switched off. `DeliveryLifecycle` is what the deliveries page and the metric may tell of a
delivery: it waits, is `open` while it has its row and makes attempts, and is `over` for good,
and the step that ends it writes the final status, if there is a row and the database takes
it, and counts. A delivery is open while a worker is past `createDelivery` with it
(`opened`), and over when it is done or `Stop` has counted it in the queue.
`Stop` comes after the clone worker and the HTTP server, the
only senders, have stopped, as the order of `main`'s deferred calls has it
(`ServerLife` checks that order).

**AtomicClone.** What `processJob` does to `repoPath` while its row is running, a
step for each point a crash can fall behind. `final` is what is at `repoPath`:
nothing, junk, a shell that `IsRepositoryCloned` takes for a repository, or a
whole one; `temp[j]` is `repoPath.tmp-j`. `begin` decides between `fetch` and
`clear`, `sweep`, clone, `place`, `rename`; `rename` may go on to the copy
fallback, which grows the final path in place. Every `RemoveAll` may fail (the
code logs that and goes on). That only one job does this at a time is
`GitExclusion` of `CloneWorker`. `torn` is a history variable: half a copy was left.

**RepositoryRows.** A row is its host, the host its stored credentials were entered
for, whether it is active, and its backoff. `UpdateRepository` reads, `save` writes
the whole copy back (which also brings back a backoff the worker has cleared);
the worker and the import write single columns. `rebound` is history: the import
wrote a token for a URL the row had left meanwhile.

**RepositoryTags.** The sync is a transaction that reads the tags to keep when it begins
and, when it ends, makes the topics tags (for an admin) and replaces all tags of the
repository. An update of the repository saves the tags it was loaded with. `manual` is history: what people
assigned; `crossed`: assigned while a sync that does not know was open.

**StoragePathMigration.** `at` says which directories hold the archive, the folder, the
wiki and the tree; the moves and the repointing are a step each, repeated at every start.

**GitHubMetadata.** GitHub's list is the set of its items, numbered as they are opened; it
is listed newest first and changes while its pages are read. An item's page is told by how
many are newer. `got` collects the items, `archiveMedia` ensures the assets they name
(present, downloaded or left as they are) under a budget of downloads and bytes,
and `writeFileReplacing` replaces the JSON file at once.

**Paperbin.** Tree and folder are none, a part or whole; the archive may also be cut off
(no reader takes it), empty, or well-formed and half: `tarGzCompress` closes its writers after
a failing walk, so `tarGzDecompress` accepts what was written until then. The row is live,
binned or gone; `linked` are the tags and webhooks that refer to it, `audited` its audit
entries, which every deletion, restoration and update writes (`log`) and the cleanup worker
deletes when they are old. Every actor is a program counter: requests that delete, restore,
delete for good or update, the cleaner, a git job. Compression and unpacking write in
place, so they are two steps, and so are the rollbacks: a delete whose row could not be
written unpacks (`unarchiveEnds`) and then removes the archive (`discard`), a restore packs
again (`repackEnds`, after `os.Create` has cut the archive off) and then removes the tree
(`dropTree`). Any step may fail, and the process may crash between any two. `mishap` is
history: what no code path defends against has happened (two actors in the directory, two
failing steps of one request, an archive put back whose links are refused, a crash within a
rollback, a removal cut off before the delete of the row).

**BranchArchive.** `tracked`, `heads`, `refs` and `shared` are refs by namespace, `rows` the
`DeletedBranch` rows. A fetch prunes, compares, creates one ref per pruned branch and
then the rows; if the insert fails the refs are dropped again. Releases (restore,
delete, expire) count the other rows that share a legacy ref, delete the ref,
delete the row: three steps. `owed` is history: tips nobody decided to give up.

**SharedPool.** The pool's refs and commits against what each mirror has refs on, keeps
under archival refs and stores itself. The directory lock of the pool covers its making
and its update, not the clone that follows, and not the gc.

**SignIn.** A login is: the throttle and the row are read (`Login`), bcrypt runs, the
failure is recorded (`refuse`) or forgotten (`welcome`), a session is inserted. `entries`
is the throttle's map; its sweep happens in `recordFailure` when the map is full.
`UpdateUser` is an admin's edit that saves a row it read.

**OAuthFlow.** A flow is begun in a browser (`LoginWithProvider`, `LinkAccount`), stored
under a state, and taken by a callback (`takeOAuthState`), which then is a goroutine
with one statement a step: find by identity, by e-mail, link, create, start the session.
A lookup that fails passes for one that finds nothing, and a link that cannot be written lets
a sign-in go on without it. `UnlinkAccount` and an administrator's `UpdateUser` read a row
and `save` all of it; `SetUserStatus` writes the status alone.

**RateLimiter.** Buckets are objects: `limiters` is the one in the map, a request may hold
another. Tokens are counted in shares that a tick of the clock adds whole. `admitted[t]` is
history: how many were let through by time t, so that a stretch of time is a difference.
`level` is what the next request would draw on: the bucket of the map, refilled, or a full one
if there is none or it is about to go. Seen so, the objects are `TokenBucket`.

**OAuthSettings.** `UpdateOAuthSettings` writes the id, then the secret, and restores the
id when the second write fails; `SaveGitHubCredentials` is one transaction.

## 3. Runs

| run | question | bounds |
|---|---|---|
| keyed_mutex | is the map one lock per path, without leak or starvation? | 3 goroutines, 2 keys, 3 objects |
| dispatch_queue | FIFO, no lost wake-up, all jobs taken, dispatcher ends; a push is mirrored; work finds its services | 4 jobs, 2 enqueuers, 1 worker, channel of 1; 2 hooks, 2 pushes, 2 cancelled jobs or restarts; 1 request, 2 jobs, 3 starts |
| clone_worker | locks, custody, ownership, lifecycle, admission, ends | 1 repository, 2 workers, 2 rows, 1 client, 1 stop, 1 crash, 2 attempts |
| webhook_delivery | one final record and one count, no retry after switching off, ends | an event and a test of 1 webhook, 2 workers, queue of 1, 2 attempts, 2 edits, 1 lost update |
| access | can a revoked identity stay in or get back into the cache, or keep its stream? do figures settle and searches answer in full? | 2 validators, 2 revokers, 1 user with a session and a key, 2 roles, 2 evictions; 1 stream of either kind, channel of 1, 3 lines; 2 requests, 1 change, 1 failing query; 3 repositories, 1 match each, 2 slots, 2 results |
| mirror | is a mirror whole, where its row says, with credentials, tags and issues that fit? | 3 jobs, 2 crashes, 2 failing removals; row: 2 requests, 2 hosts, 1 retry; tags: 2, one a topic, 1 request; move: 3 faults, 4 starts; archive: 3 items, one a page, 3 downloads, 4 units, 2 a medium |
| repository_data | is what is deleted kept until it expires, and what is shared there? | 1 request, 2 faults, 1 crash; 1 branch, 2 events, 2 commits, 1 request, 2 faults; 2 mirrors, 1 branch, 2 commits, 2 pushes, 1 fault |
| sign_in | do failures count, sessions end, states, links, budgets and settings hold? | 2 addresses, 1 token, 2 logins or 1 and an edit, 2 failures lock, locks of 1 to 2, room for 1, time to 3, 1 change of password, 3 failures; 2 browsers, 2 users, 1 identity, 2 e-mails, 2 states, 2 callbacks, room for 1 flow, 3 sessions, or 1 user at first, 1 flow and an administrator; 3 buckets, 2 requests, time to 3; 2 registrations and a configured one, 2 updates, 2 faults |
| disabled_user_returns (violation) | does a disabled user stay out? | as access |
| zombie_running (violation) | does a running row always end? | 1 row, 1 crash |
| archived_commit_lost (violation) | can an archived branch be restored? | 2 mirrors, 1 branch, 2 commits, 2 pushes, no fault |
| identity_twice (violation) | does an identity have one user? | as sign_in, and no lookup fails |

What the passing runs say:

- `NoLeakedEntry`, `ImplementsKeyedLock`, `LockIsGranted`: the reference-counted
  map is one lock per path.
- `NoLostWakeup`, `ImplementsFifoQueue`: the queue. `WorkArrives` joins
  `EnqueuedIsTaken` and `DispatcherStops` with `PushIsMirrored` of `InboundWebhook`: a push
  gets into the mirror whatever happens to its notification.
- `CarriedIsOnItsWay`: an answered push is in the mirror or a job will read it. Excepted, as
  `late`: the job it met had read already or is an ended process's, or its last pending job
  was given up, cancelled, reaped or lost. Such a push waits for the schedule (`PushIsMirrored`).
- `WorkFindsItsServices`: no request, job or delivery meets a closed database, no job's
  event a stopped webhook service, and nobody is served before an admin exists.
- `GitExclusion`: git, failure bookkeeping and housekeeping of one repository
  never overlap, although two of its jobs can be in flight.
- `Custody`: no job is held in two places among queue, workers, timers and
  recovery list, and in a process that is not stopping each pending row is held.
- `RunningIsOwned`: without a crash a running row has a worker at git.
- `ImplementsJobLifecycle`: a cancelled, failed or successful row is final.
- `Settles` of clone_worker: `NoAdmissionAfterStop` (no `inflight.Add` races
  `inflight.Wait`), `PendingEnds`, `StopEnds`.
- `CountedOnce`: no retry, abort, drop or `Stop` counts a delivery
  twice. `NothingPendingAfterStop`: `Stop` leaves no row
  pending but one whose update the database refused. `NoLateRetry`: once a webhook
  is off or gone, at most the request already past `reloadWebhook` goes out.
  `Settles` of webhook_delivery: `ImplementsLifecycle` (nothing but the life above),
  `RowsAreFinal`, and `DeliveryEnds`, `StopEnds`: neither backoff nor request keeps a worker.
- `NoStaleEntry`: an entry is out of date only while the request that made it so
  is between its write and its eviction. `RevokedIsGone`: that ends without the TTL
  (`StaleEntryGoes`), and the streams the credential opened end (`StreamEnds`), unless
  a peer has stopped reading and stays. `NoPanic`: no send on a closed channel.
- `SearchIsComplete`: fewer results than the limit are all there are, and never more.
  `ReadersAreServed`: `FiguresAdvance` (one walk at a time, so that no older one lands last),
  `FiguresSettle` (when nothing changes any more, size, savings, statistics and gauges all come
  to agree with it, though a snapshot may go back before) and `SearchAnswers`.
- `StaysWhole`: no job damages a whole repository. `CloneHeals`: `FinalIsWhole`
  (`IsRepositoryCloned` is right unless a copy is under way or was torn),
  `NoAccumulation` (at most one temporary clone and those whose removal failed), and
  whatever crashes, aborts and failed removals left, a whole repository follows
  unless a copy was torn.
- `CredentialsFitRemote`: crossing updates never send a credential to another host, but for
  an import that crosses a move. `ActiveIsTried`: no stale `Save` parks a mirror for good.
- `ManualTagsStay`: a sync takes away no tag but one assigned while it was open.
- `DataFollowsRow`: `PointerReachesData` and `NothingLeftBehind` of the migration.
- `MetadataHolds`: a list's file is replaced by a whole one only (`MetadataIsWhole`), links
  resolve (`LinksResolve`) and a sync reads no more than its budget (`SpendsItsBudget`).
- `DataSurvives`, `RestoreIsWhole`: mirrored data is kept until the purge and comes back whole,
  whatever order of requests, whichever single step of a request fails and wherever else a
  crash falls, as long as no `mishap` happened. A mishap does lose data: a crash
  within a rollback needs one fault and one crash. `BinEmpties`: expired repositories go when their
  audit entries have (`ExpiredIsPurged`), wanted ones return (`MirroredComesBack`, without mishaps).
- `BranchesAreKept`: `RowHasRef`, `RefHasRow`, and `PrunedIsKept`: a pruned tip stays
  reachable until someone decides otherwise or a step fails.
- `PoolHolds`: `SharesUnlessFaulty` (racing first clones end up on one pool) and
  `OnlyGcLoses` (nothing but gc takes objects a mirror names).
- `FailuresCount`: however many addresses fill the map, failures that follow each other count
  and lock. `SessionsEnd`: `EndedStaysOut` and `OldPasswordIsOut`. `StatesHold`:
  `StateIsUsedOnce` and `PendingBounded`. `AccountsHold`: `LockHolds`, `ApprovedOnly`,
  `LinkIsAskedFor` (but for an identity an edit writes back), and `ServesAsOneBucket` of
  `RateLimiter`: requests that race for a first bucket, and the worker that drops it, open no
  second one.
- `BudgetHolds`: in no stretch of time more than burst and refill. `PairFits`: id and
  secret are of one registration when no request is between its two writes.

Properties that are joined have in them the type invariants of the run's modules
too, so that a run reports each question once. The exceptions they state (a `mishap`, `torn`,
`late`, `mixed`, `rebound`, `crossed`, `stray`, `shifted`) are cases in which the
code does not keep the promise: each is listed in section 5.

Why the bounds are enough. The lock needs two contenders for one key and a
third goroutine that comes or goes meanwhile; every caller can have its own
object, so `Mutexes` never runs out. The cache needs one validation between
another's read and store with two revocations around it; owner, role and
credential kind matter, more users do not interact. The queue needs backlog,
hand and channel occupied together (three jobs) and one more. The pipeline
needs two jobs of a repository in two workers, of which either may be a retry, a
recovered row or the scheduler's; after one stop and one crash the state is again
one that a start recovers. Retries stop at `RetryMaxAttempts = 2`, so that both
the retry row and the exhausted budget occur. A third row or a second repository
adds no shared variable but the queue; the proofs of section 6 cover any number.
A delivery needs two jobs so that a queue of
one is full and two workers are busy, and two attempts for a backoff with a retry;
a third would repeat the second. A clone needs two jobs to meet each other's
temporary directories and a third to see what two crashes left; two failing
removals let both the leftover and the destination survive. Two edits switch a
webhook off and on again. Two pushes let a job read between them, and two mishaps a restart leave
a row that a user cancels. A row needs two
requests for crossing `Save`s and two hosts for a move. Three faults let
each of the migration's moves fail and a start be cut off. The archive needs a page that
moves under the reader and an asset two items share. In the paperbin a request, a
job and the cleaner are the three kinds of actors that meet in one directory; two requests
are a `mishap` like a request and the cleaner. Two faults are a failing step and a failing
rollback; the crash may fall into either. Two events of one branch are needed to share
a legacy ref; two mirrors to share a pool; two commits to let its branch move on.
A dashboard needs two requests for one to overwrite the other's snapshot, and one change
that only the later saw. A search needs more repositories than slots and more matches than room.
The throttle needs two addresses and room for one to be swept; two logins let one be let in
before the other's failure locks. Two browsers and two users with one identity are
what a link can confuse; an edit meets the unlinking of one user's identity, a failing lookup
the sign-in of one. Three buckets let one be dropped while it is held and
made again. Two overlapping updates of the settings leave every mix of pairs.

No run uses symmetry. Only keyed_mutex, clone_worker and
zombie_running check for deadlock. In the others the system really may stop: after `Stop`
the goroutines have ended and the jobs, pushes, starts, crashes or edits of the
bounds are used up, clocks have reached their bound, and a user may sign out for good.

Each passing property has a mutant in `PROJECT.json`: a plausible bug, written
next to the definition it replaces, that makes the run fail.

## 4. Fairness

- A goroutine that can run does (weak fairness of workers, the dispatcher, a
  begun `Enqueue`, an eviction after its write, start and stop). Git ends
  because every operation runs under `CloneTimeout`.
- `SF(takeMutex)`: `sync.Mutex` hands over to a waiter that starved for a
  millisecond.
- `SF(dispatchExits)`, and in `LogStream` `SF(stop)`: `select` picks at random among
  ready cases, so a closed channel that is offered again and again is picked.
- In `InboundWebhook` the scheduler ticks and a job ends; `SF(fetch)` says that a fetch that is
  tried again and again works once. Nothing is assumed of notifications, cancellations and
  restarts, whose number is bounded; `PushIsMirrored` supposes that no row a crash left running
  stays for ever (`zombie_running` shows that one may).
- In `WebhookDelivery` workers run: requests have a timeout, a backoff a timer.
  Nothing is assumed of senders, editors, the deadline and `Stop`.
- In `AtomicClone` jobs begin again and again (the schedule), and strong fairness
  of `cloneStarts`, `cloneSucceeds` and `rename \/ copySucceeds` says that upstream
  answers and the file system takes the result often enough. Crashes and failing
  removals are bounded, so they end.
- In `RepositoryRows` the scheduler ticks, a git operation ends, a backoff passes.
- In `Paperbin` a begun request ends, owners keep asking for what they deleted, the
  cleanup worker ticks and a job ends. `SF(expireAudits)`: between its other work the worker
  deletes old audit entries, with any audit retention but 0 (the default is 90 days). Faults
  and crashes are bounded.
- In `Dashboard` walks and requests end, TTLs pass, the ticker ticks, and a dashboard that stays
  open polls. In `GlobalSearch` git ends or is killed at its deadline, and goroutines run.
- In `CloneWorker` the grace period, timers and recovery elapse. Nothing is
  assumed of ticks, clients, cancellations, stops and crashes.

## 5. Findings

1. `disabled_user_returns` - `UpdateUser` reads a row, and `Save`s all of it;
   a `SetUserStatus(false)` in between is undone. `SetUserStatus`'s comment says a
   disabled user stops being authenticated immediately; `ChangePassword`'s
   comment names the same hazard and avoids it. The `Save` writes the old password
   hash back as well (`undone` in `SignIn`).
2. `zombie_running` - `reapOrphanedJobs` fails a running row only when it is
   older than the clone timeout plus a minute, and runs only at start. A crash
   followed by a quick restart leaves the row running, and its repository busy
   for the scheduler, until some later restart; `Start` promises no zombie rows.
3. `archived_commit_lost` - a mirror borrows objects from the pool of its URL; a pruned
   branch is archived by a ref in the mirror only. When the pool's branch has moved on,
   its gc may take the commit the archival ref is there "to keep alive".
4. `identity_twice` - `LinkOAuthAccount` checks that an identity is free and links it by
   another statement, and no unique index covers it: two callbacks link it to two users.

What the code does besides, found while modelling; the models show it as an exception of a
property, or it is outside of them:

- Jobs: the scheduler's busy set and `CreateCloneJob`'s query are read before an insert, so two
  unfinished jobs of a repository come about (`scheduler.go:153`); what the changelog (line 48)
  says this prevents, two clones into one directory, is prevented by the path lock. A crash in the
  copy fallback tears the final path (`worker.go:812`), and nothing clones again. A push whose
  request met a job that had read upstream, or whose pending job was cancelled or reaped, waits
  for the next sync, and a newer catch-all webhook swallows the notifications meant for
  older specific ones.
- Rows: an `UpdateRepository` that crosses a delete brings the row back, and one that
  crosses a tag's removal its tag. Two imports create twins. An import that crosses a
  change of URL binds its token to the other host. Tags assigned while a sync is open are lost.
- Paperbin: two actors in the directory at once lose data (a double delete archives a tree half
  removed, a stale purge list purges a restored repository, a job meets a delete). A crash
  inside the removal of the tree followed by a second delete archives a part. The rollbacks are
  not crash-safe: a restore whose row cannot be written packs the tree again, and a crash
  meanwhile leaves an archive cut off next to the whole tree, which the next restore removes
  before it fails to unpack (`repository_service.go:595`); a delete's leaves half a tree, or a
  part of one next to the archive (line 548). Both go on when a step of theirs fails: the
  archive is removed even when unpacking it failed, the tree even when packing it failed.
  `tarGzCompress` closes its archive after a failing walk (line 764), so half a tree may look
  like a good archive. The audit entry of a deletion keeps its repository from being purged
  until it is deleted itself, for 90 days by default, and for ever if the audit retention is 0.
  A tree with absolute or escaping symbolic links is never restored
  (`repository_service.go:854`). A purge during a job leaves an orphan tree.
- Branches: a fetch that prunes and then fails before the rows loses the branch. A row deleted
  while its repository is in the paperbin leaves its ref. Two concurrent releases of the last two
  legacy rows leave their shared ref. Restoring a second event of one branch moves the branch the
  first one made.
- Pools: a mirror that is paused loses what only it names; a pool left without its
  remote by a crash is refused for ever; gc may take a commit an update is about
  to name again.
- Sign-in: a login that read the old password before a change makes a session after it. An
  administrator's edit that read a user writes an identity back that the user unlinked meanwhile
  (`user_service.go:202`). A lookup that fails passes for "nobody" (`oauth_service.go:415`, 442,
  456), so an identity that is linked may be linked again. The throttle's map grows beyond its
  bound when all its entries are locked (`login_throttle.go:59`, while line 10 says bounded).
  `RememberMe` is read and ignored (`auth_handler.go:128`). A bucket dropped between `inspect`
  and `delete` grants up to a second burst. An e-mail address that changed at the provider may
  meet the unique index of another user.
- Settings: a crash between id and secret, overlapping requests, or a failed read of the previous id
  (which counts as no row) leave a mixed pair.
- Streams: a client that stops reading holds its handler without deadline (`repository_handler.go:639`).
- Server: a forced shutdown skips the deferred `Stop`s; the cleanup worker, the scheduler and
  the metrics collector are not waited for before the database closes; a crash between the
  default admin and the default tags leaves no default tags for good.
- Dashboard: statistics are not computed by one request at a time, so a slow one stores an older
  snapshot over a newer, for another five seconds (`dashboard_service.go:303`).
- Metadata: an item deleted upstream while pages are read hides its neighbour from that archive.
- Migration: whatever lies at the new path already keeps the old from being moved, and the
  row is repointed all the same.

## 6. Proofs

All are for any values of the constants under the named assumptions, which TLC
evaluates in the runs. They ask for

- natural numbers where the code has them (`ArchiveAssumption`, `QueueCapAssumption`,
  `MaxJobsAssumption`, `RetryAssumption`, `LimitsAssumption`, `BoundsAssumption`,
  `DurationAssumption` and `ConstantsAssumption`, `StoreAssumption`, `SettingsAssumption`);
- null values outside the sets they stand next to (`NoJobAssumption`, `NoneAssumption`,
  `NullAssumption`, `MutexesAssumption`, `HostsAssumption`, ...);
- finite sets where something is counted (`CallersAssumption`, `JobsAssumption`,
  `StoreAssumption`, `ReposAssumption`, `AccountsAssumption`);
- what the code's data are: a credential has an owner (`OwnerAssumption`), topics are tags
  (`TopicsAssumption`), GitHub is a host (`HostsAssumption`), requests are neither the job
  nor the cleaner (`RequestsAssumption`), the tiers are the four of the code
  (`TiersAssumption`), and the bound on sessions has room for those there
  initially (`AccountsAssumption`);
- of the limiter, that a bucket is only dropped when it would be full again
  (`RefillAssumption`). `TenMinutesRefill` proves that of every configuration the code
  accepts (at least one request a minute, `config.go:431`) as long as it waits for ten minutes.

- **KeyedMutexProofs.** `NoEvictionInUse` is not inductive: an eviction is safe
  only if the count is exact, the count is meaningful only if one object serves
  one key, and exclusion per key needs exclusion per object. `IInv` adds
  `CountsExact`, `EntriesInUse`, `OneKeyPerObject`, `LockedByHolder`. From it:
  `Exclusion`, `EvictionSafe`, `LeakFree`, and `Refinement` (the map implements
  `KeyedLock`).
- **AuthCacheProofs.** `NoStaleEntry` needs to know what a validator in flight has in hand.
  `ReadCurrent`: what was read under the current generation is still so, or the eviction that
  will change the generation is pending. A revoker's write makes the eviction pending, `Evict`
  moves `gen`, `store` compares. `DashboardAdvances`: `WalksAreAlone` says that a figure is
  marked as long as its only walk runs, and knows no more than that walk will say; so a walk
  never lands on the figure of a later one. `HubNeverPanics`: `LogInv` says that the open
  channels are those in the hub's lists, from a stream's subscription until its handler leaves;
  it is proved for any streams of both kinds (`Firehoses`). `SearchesAreComplete`: `SearchInv`
  counts the goroutines that hold a slot, and says of each repository whether it is still to be
  started and how its matches divide into found and left, unless it is excused.
- **DispatchQueueProofs.** `NoLostWakeup` with types and `HandMatches` is
  inductive; `FifoOrder` shows every step a `Put`, a `Get` or a stutter of the
  concatenation channel, hand, backlog. `AnnouncedIsOnItsWay`: `WebhookInv` adds
  that nothing is ahead of upstream. `ServicesOutliveTheirWork`: `ServerInv` says
  how deep the stack `deferred` is at each line of `main`, and how deep it still is while
  somebody needs a service: so a deferred call closes only what nobody needs.
- **CloneWorkerProofs.** `IInv` is types, `StatusMatches` (what each holder of a
  job knows of its row: queued rows are pending or cancelled, a row at git is
  running or cancelled), `LockMatches` (a worker in the critical section holds
  the lock of its repository), `DownIsEmpty`, `Custody` and `RunningIsOwned`.
  Each conjunct has a lemma with one step per action. `Custody` is why
  `StatusMatches` is inductive: a row changes under its holder only by a
  cancellation, because nobody else holds it. From `IInv`: `Exclusion`,
  `CustodyKept`, `RunningOwned`, `Refinement` (to `JobLifecycle`) and
  `NoLateAdmission`.

- **WebhookDeliveryProofs.** `CountedOnce` is not inductive: it needs that a job is
  in one place (`PlacesMatch`: with its sender, once in the queue, with one worker
  or done) and what its row and count are there (`RowsMatch`: not counted before
  its end, and a pending row has a worker past `createDelivery`). `LateMatch`
  says when late requests come about. A worker moves a job by `goto` and `finish` only
  and writes a row by `insert` and `updateDelivery` only, so lemmas about these carry
  most actions. From `IInv`: `Counted`, `StopSettles`, `SwitchedOff`, `FinalForGood`.
  `Refinement`: `StageOf` reads the stage of a worker's job off its step, `GotoStage` and
  `FinishStage` say how the two moves change it; the last write of any delivery is then a
  `Close` (`Closes`), a job given up without a word a `Refuse` (`Refuses`), and the rest is
  `Open`, `Miss`, `Drop`, `Abandon`, `Purge` or a stutter.
- **AtomicCloneProofs.** `DiskMatches` says what each step finds on disk: nothing
  that passes for a repository while one is cleared, cloned and put in place, and a
  whole temporary clone from `place` on. `FewTemps` strengthens `NoAccumulation`:
  after the sweep only what could not be removed is left, which makes room for
  the job's own clone; the counting is by the library's facts about finite sets.
  From them: `FinalWhole`, `TempsBounded`, `WholeStays`. `CredentialsStayBound`: `RowInv`
  says that every copy in a request's hand has credentials that fit its own remote,
  whatever has become of the row meanwhile. `AssignedTagsStay`: `TagInv` says that an open
  sync has read every tag people assigned, but those assigned since it began.
  `MirrorFollowsRow`: `MoveInv` says that the mirror is in one form (archive, folder or tree)
  and in one directory, and in which one at each line of the migration. `ArchiveIsWhole`:
  `ArchiveInv` says of each item that was listed when the reading began, and has
  not been read, that at least as many items are newer as the pages read so far have
  room for (`PagesLeft`): what is opened meanwhile only adds to those, and an item has
  fewer newer ones than the list has items, so that after the last page nothing
  is left (`ListRead`). What is rewritten is on disk (`OnDisk`), as nothing takes media away.
- **RepositoryDataProofs.** `PaperbinInv` gives every program counter its facts about the disk
  (`Takes`) and the row (`RowAt`), the steps of the rollbacks included, and says that one actor
  at most is in the directory (`Alone`) and where the data are (`Kept`), as long as there was no
  `mishap`. TLC checked it before it was proved. From it `DataIsNotLost` and `RestoresAreWhole`.
  `PoolIsSharedAndHolds` needs that one job at a time updates a pool (`OneInPool`), that no job
  gives up on the pool without a fault (`NoFaultNoLoss`), and that a mirror has nothing before
  its clone (`NothingBeforeClone`). `BranchInv`, also checked first, says of each owed tip where
  it is kept: by a row that is not on its way out, by a ref just made, by a branch that is now
  at it, or as one that the fetch has still to save; of a release, that who drops a shared ref
  is the last to use it (`LastLegacy`) and that a row goes after its ref (`RefBeforeRow`). From
  it `ArchivedBranchesMatch`. `RepositoryDataIsKept` states the three for the run's
  specification.
- **SignInProofs.** `ThrottleCounts` needs `Counted`: the entry of an address records at least
  the failures of its streak, unless the streak is older than the longest lock, and a full count
  has locked it. `LocksHold` and `SessionsEndForGood` follow from types and that only issued
  tokens have rows. `StatesAreUsedOnce`: `StoreInv`, where a state in the store has let nobody
  in, and the count of the store is by the library's facts about cardinality.
  `OnlyApprovedSignIn` and `LinksAreAskedFor`: `OAuthInv` says what a callback has in hand
  (`InHand`: a row it has read is there and, if it read it as active, was let in; from `link` on
  its session is the flow's and its user's; a row that is going to be `save`d is active only if
  its user was let in or the edit lets them in), which is why a step that acts on what an
  earlier one read does no harm. `PairFitsInv`: `PairInv`, by what an update that is alone knows
  of the pair. `BucketInvariant`: a bucket that is named was made, and not in the future.
  `BudgetIsKept`: a bound on every stretch of time is not inductive, as a state does not tell
  how much was granted before. `Spent` says that what was granted since any time and what the
  next request may draw on (`level`) are within burst and refill: a grant moves one token from
  the second to the first, a tick adds no more than the rate, and dropping a bucket changes
  nothing because its successor is as full as it would be. `OneBudget` says who draws on what:
  requests hold the bucket of the map, dropped ones, or a full one of their own that nobody has
  seen. `ServedByOneBucket`: with that each step is a `Grant` or a `Tick` of `TokenBucket` at
  `level`, or none. `AccountsAreSafe` and `WaysInAreSafe` state it all for the run's
  specification.

Every invariant the passing runs check is a theorem. Only model-checked are the liveness
properties, because they are liveness under fairness, which the provers at hand do not
reach: `LockIsGranted`, `StaleEntryGoes`, `EnqueuedIsTaken`, `DispatcherStops`, `PendingEnds`,
`StopEnds`, `DeliveryEnds`, `PushIsMirrored`, `StreamEnds`, `ActiveIsTried`, `ExpiredIsPurged`,
`MirroredComesBack`, `FiguresSettle`, `SearchAnswers` and the last part of `CloneHeals`.

The violations are counterexamples and need no proof.

## 7. Abstractions

- One server process. The comment in `scheduler.go` that speaks of replicas is
  about a scenario this model leaves out: path locks and queue are per process.
- Time: timers, intervals, backoff, TTL, retention and grace elapse whenever they like; a
  row left by an earlier process may or may not be old enough to be reaped. Only `SignIn` and
  `RateLimiter`, whose promises are about time, have a clock.
- A database statement or transaction is atomic and sees what others have committed; where the
  code goes on after an error, the statement may fail.
- In `CloneWorker` git is the time a worker spends at `git`; what it does to the
  disk is in `AtomicClone`, where removing a tree is one step (half of what it
  removes is no better or worse than all), a fetch keeps a whole repository whole,
  a crash takes `git` and `cp` along, and any job may run again. The wiki and
  LFS are left out.
- In `CloneWorker` `reapOrphanedJobs` and `handleFailure` read what they ask for (when a query
  fails the code logs that and goes without), and no tick is skipped for maintenance. Repository
  rows stay; their `status` column and the progress and log writes of a job are left out. Status
  writes succeed, except inserts, which may fail.
- Ids grow with creation, so the oldest pending row is the smallest id.
- A validated identity is a role; expiry of a session or key is left to the TTL,
  as in the code. `DeleteUser` removes sessions and keys as the cascading keys of
  migration 0001 do; where a plain foreign key rejects the delete, nothing changes.
- A webhook is its `is_active` and its presence; URL, secret and payload are left
  out, so `request cannot be made' is one outcome. A crash loses queue and
  deliveries and is not modelled there.
- `InboundWebhook`: signature and payload format are not modelled: a notification that arrives
  is a good one. Queries and inserts succeed. One job of the repository runs at a time
  (`GitExclusion` of `CloneWorker`).
- `ServerLife`: a WebSocket handler, whose connection `srv.Shutdown` does not wait for, is not
  among the requests; these, jobs and deliveries are the writes they do; loops stand for scheduler
  and cleanup worker, and the metrics collector behaves as they do.
- `LogStream`: lines are counted; a write to a connection whose peer is gone fails; the
  ping is one of the ways `write` is reached.
- `RepositoryRows`: a remote is its transport and host, a credential the host it was entered for.
  A restart leaves no running row behind that keeps the repository out of the schedule (that is
  `zombie_running`), no tick is skipped for maintenance, and a row is not deleted (that a `Save` brings
  it back is in `Paperbin`).
- `StoragePathMigration`: a move is one `rename`; one repository, since they do not interact.
- `GitHubMetadata`: an item refers to one asset at most, and assets differ by size; releases
  are read as pull requests are. GitHub's order is newest first.
- `Paperbin`: of a tree, whether it is whole; of several repositories, one. A removal that is cut
  off leaves a part. `BranchArchive`: commits
  are atoms and valid names are given. Purging the repository with its refs is in `Paperbin`.
- `SharedPool`: a commit stands for the objects only it reaches; the two weeks git waits
  before it takes unreachable objects may have passed between any two steps.
- `Dashboard`: time is whether a figure is fresh; a walk knows every change before it began, and
  a sum of sizes every one before it was read. The metrics collector is not stopped.
  `GlobalSearch`: a match is counted.
- `SignIn`: one account. Passwords are numbered in the order they are set. `OAuthFlow`: one provider,
  whose answer is one of the identities or a failure; users are not deleted. The state in a callback's
  query is the one of the browser's cookie, which nobody else planted.
- `RateLimiter`: one client in one tier; a bucket's tokens come whole with a tick, so the bound
  is on ticks. `OAuthSettings`: one provider.
- `MaxEdits` and `MaxLost` bound edits and lost updates of deliveries; `MaxJobs`, `MaxStops`,
  `MaxStarts`, `MaxCrashes`, `MaxFaults`, `MaxEvictions`, `MaxPushes`, `MaxMishaps`, `MaxLines`,
  `MaxItems`, `MaxRetries`, `MaxChanges`, `MaxMatches`, `MaxSessions`, `MaxTime`, `MaxPassword`,
  `MaxFailures` bound runs, in the guards. `MaxEntries`, `MaxPending`, `MaxDownloads`,
  `MaxBytes`, `MaxMedia`, `MaxFailed`, `MaxLock` and `MaxIdle` are limits of the code, made
  small.

## 8. Not modelled, and the plan

Left out for good: charts, lists and health of the dashboard, audit log,
e-mail, backup, egress proxy, crypto, validation, browsing and the UI.
They are reads, single statements, pure functions or byte transport.

Left out of what is modelled: failed status writes and failing queries of a job, the maintenance
mode and a second replica (`CloneWorker`); the wiki clone and LFS (`AtomicClone`); a crash next to deliveries
(`WebhookDelivery`); the manifest flow of a GitHub App and the paging through the
repositories to import; `UpdateTag`; releases and the wait for GitHub's rate limit; the
retention of old job, log, audit and delivery rows, which is one `DELETE` each.

The abstract side is complete where a component promises more than its invariants say: locks,
queue, rows of jobs, deliveries and budgets have an abstract specification that is proved to
be implemented. `Paperbin` has none, because what it promises is `DataSurvives` and
`RestoreIsWhole`. A next step would be failed status writes and a second process in
`CloneWorker`.

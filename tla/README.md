# Personal Brain: TLA+ models, model checks and proofs

This directory holds TLA+ models of the parts of Personal Brain whose correctness
depends on concurrency, on retries or on the order of events: the durable job
queue, the idempotency protocol, the canonical writes (expenses, todos, notes,
assets), the retrieval projection and the index it keeps, authority and permissions,
governed deletion, the self model, the project brain, notices, the jobs that call a
model, the bridge's offline queue and the daily scheduler. Each is checked by TLC on
small instances, and the safety of all of them is also proved for every size of instance
with TLAPS.

    tlc -workers 2 -config JobQueue.cfg MCJobQueue      # a run: see the table of runs
    tlapm JobQueueProofs.tla                            # the proofs of a module

`PROJECT.json` lists components, runs, mutants (for every checked property a
plausible mistake in the code that breaks it), the source lines behind every
definition, the hazards the properties are aimed at, and the theorems.

## 1. The system

A *server* (HTTP and MCP) commits canonical rows to PostgreSQL under READ
COMMITTED. Every tool call is authorized, and authorized again before each protected
stage; every write runs in one unit of work, starts with an idempotency claim, and
enqueues durable jobs in the same transaction. A *worker* polls the jobs table, runs
handlers, and ticks a daily scheduler; compose starts one worker, the code is written
for several. A *bridge* on the owner's machine scans workspaces and has an offline
queue of its own. An *operator* gives and withdraws permissions at a terminal. There
is one owner and several clients.

### Inventory

| Component | State | Operations | What is hard about it | What makes it correct |
|---|---|---|---|---|
| Job queue: `jobs/store.py`, `runtime.py` | jobs: state, attempts, claim token, lease | enqueue, claim a batch, heartbeat, complete, fail, prune | leases lost while the handler runs, late settlements, crashes, the last attempt | fencing, bounded attempts, ends are final, every job ends |
| Idempotency: `idempotency.py`, `unit_of_work.py` | idempotency_records | claim, complete, replay, tombstone, rollback | two requests with one key, lost answers, rollback after the claim | one effect per key, truthful answers, no key stuck |
| Todos: `authoritative_store.py` | todos with versions | add, complete, delete, delete by plan | a version compared before the UPDATE | one writer per version, nothing undone |
| Expenses: same file | rows replaced by corrections | add, correct, summary, delete by plan | the old row is read in another session than the one that replaces it | a chain per expense, its end alone is counted |
| Notes: same file | raw_inputs | save with or without dedupe, update, delete by plan | a look before the insert, a tombstone without a guard | copies and forks only from requests that overlapped |
| Assets: same file, `assets/derivation.py`, `job_handlers.py` | files, blobs with reference counts, derived text | upload, parse, reconcile | bytes before the transaction, a count read and written back, a parse job of three transactions | an asset has its bytes and its row, its text reaches the index |
| Retrieval projection: `search/indexer.py` | cards of rows | index, trailing index, rebuild, reconcile | row and card in different transactions, jobs out of order, dead letters | what is gone is unlisted, what is live is listed, and they agree at last |
| Search: `search/repository.py`, `chunking.py`, `ranking.py` | index entries, chunks | index, change of the model, search, cut to a budget | no unique constraint on cards, two lists fused, boundaries of limits and budgets | twins only from overlapping calls, a search serves what it is allowed to and ranks as declared |
| Authority: `security/`, `admin.py`, `authorized_tools.py` | clients, epochs, credentials, grants, OAuth codes and tokens | authenticate, authorize, each tool, provision, rotate, revoke, grant, withdraw | a withdrawal during a call, rotation that fails half-way, grants a project gives to its creator, and again to its retries | no check passes under old permissions, one stage at most is late (of `create_project` two), what was withdrawn is given again by the operator or by a grant for that project only, one credential works |
| Governance: `authoritative_store.py` | plans, review items, facts | preview, confirm, expire, execute, reconcile | concurrent resolutions, the 15 minutes, rows recorded after the preview | one approval per execution, the preview exactly |
| Self model: `evolution.py`, `claim_dedupe.py`, `extraction.py` | claims, evidence, conflicts, items | propose, confirm, extract, promote, age, scan, merge, delete | unlocked reads, updates by id, three reads in a row | verdicts are final, the open conflicts of a topic are about one candidate, class C only by confirmation |
| Project brain: `authoritative_store.py` | projects, tasks, checkpoints, facts, module cards, bindings | create, start, checkpoint, record, finalise, sync, delete by plan | the project is looked at in another session, syncs without locks | a deleted project stays deleted, final reports are kept, syncs in sequence see each other |
| LLM jobs: `llm_budget.py`, `extraction.py`, `digest.py` | the jobs table as a meter, digests | admit, extract, digest each scope, index it | the caller's own lease is counted, retries, midnight, crashes between scopes | the budget of a day holds, a day gone through has all its digests |
| Notices: `job_handlers.py`, `notification_policy.py` | notifications | notify of a review, check health, dispatch | a look before the insert, repeated runs, cooldowns and dates | repeats only from runs that overlapped, the owner learns of what waits |
| Offline queue: `pending_store.py` | local table | enqueue, replay | lost answers, crash before the local delete, two replays | nothing lost, order kept |
| Scheduler: `scheduler.py` | one job per schedule and day | tick, run, retry | two workers, midnight, catching up | once a day, nothing missed, never early |
| Router, compiler | none | pure functions | wording of queries | |
| Protocol layers, model gateway, backup, settings | none, or files | translation, I/O | nothing concurrent of their own | |

How they interact: calls pass Authority; the server's units of work (Idempotency)
write rows (Todos, Expenses, Notes, Assets, ProjectBrain, Governance, SelfClaims) and
enqueue jobs (JobQueue); jobs maintain cards (Projection, Retrieval), derived text
(Assets, LlmJobs), claims (SelfClaims) and notices (Notices); the scheduler enqueues
the daily ones; the bridge replays writes and relies on the server's one effect per
key. Each module takes from the others what they promise: the modules with jobs see
a job as queued, held or ended, held by several runs at once when a lease was lost
(what JobLifecycle promises); the modules of canonical writes see requests that won
their claim; PendingStore sees a server that keeps ExactlyOnce.

## 2. Modules

| Module | Models | State and actions against the code |
|---|---|---|
| `JobLifecycle` | the promise of the queue | a job is pending, running, ended, pruned; tries are bounded; every job ends |
| `JobQueue` | `store.py`, `runtime.py` | `state`, `attempts`, `claim_token`, `elapsed` (available_at or lease time has come) are columns; `snapshot`, `batch`, `running`, `pc` the memory of a worker. `SelectCandidates` is the SELECT, `ClaimReadyJobs` the guarded UPDATEs and the exhaustion branch, `CompleteJob` and `SettleFailure` the settlements |
| `ExactlyOnce` | the promise of the claim protocol | effects made at most once per key, answers report effects that were made. `Idempotency` implements it, and so do its two ends: the ledger (`BooksOnce` in `Expenses`: a committed claim with its row is the effect of a key) and the offline queue (`QueueIsExactlyOnce` in `MCBridge`: a row leaves the queue only when its effect is made) |
| `Idempotency` | `idempotency.py`, `unit_of_work.py` | `row` is the committed record, `holder` an uncommitted insert on the unique key, which other inserts wait for. One action per statement; `Commit` publishes claim and effect together; `Rollback` is possible at every point, the loss of the answer included |
| `Todos`, `Expenses`, `Notes` | canonical writes | one action per statement; an UPDATE locks the row, waits for whoever has it locked, and evaluates its clause again (READ COMMITTED). In `Notes` the clause is the id alone; `met` remembers which transactions overlapped |
| `Assets` | upload, parse, reconcile | `file`, `blob`, `derived`, `indexed` are storage and tables; a parse run is read, derive, enqueue, settle; it may crash or be overtaken between any two |
| `Projection` | indexer, job enqueueing | a card is the text it was built from. `ReadSource` and `WriteCard` are the two transactions of the indexer |
| `Retrieval` | the index table and searches over it | `index()` is a DELETE and an INSERT under READ COMMITTED; filters, candidate lists, fusion, limit and budget are operators over the table and a query (`Query`), compared with reference definitions in every reachable table. Scores are fractions, compared exactly |
| `Authority` | authority, policy, operator commands, OAuth, tool calls | `rows` are the open grants, `client.epoch` the permission epoch. A call is the sequence of its checks and protected stages (`Fenced` writes, `Guarded` reads); a command the sequence of its transactions and file operations. `Decision` is the policy as an operator |
| `Governance` | plans and confirmation items | `LockItem`, `LockPlan` are the two SELECT FOR UPDATE, `Commit` the rest. The clock is read before the lock, so a resolution carries `late` |
| `ProjectBrain` | tasks, checkpoints, facts, reports, syncs | `ask` is the request, `stage` how far it is; a call looks, then writes, then commits, and `lock` holds the rows it wrote. The deletion of the project by plan goes on beside the calls |
| `SelfClaims` | claims, evidence, daily jobs, review items | a job's `Begin...` is its reads, its `Commit...` the updates by id; between them the server commits. `conflict_scan` keeps its three reads apart, because their order matters |
| `LlmJobs` | budget, extraction, digest | the jobs of a local day are the meter; a digest run goes through the scopes, each read, summarised, committed and indexed |
| `Notices` | notify, health check, dispatch | `notices` is the table in order of insertion; the look and the insert are one transaction each run makes, two runs may both look first |
| `PendingStore` | `pending_store.py` | `table` and the `listed` rows of a replay are sets, whose order is the column `sequence`; `Upcoming` is where the loop stands. `Send` is outside any local transaction, `Apply` is the local delete |
| `Scheduler` | `scheduler.py` | a tick is a transaction of `VisitKey` steps under advisory locks |
| `JobQueueProofs`, `IdempotencyProofs`, `RecordsProofs`, `AuthorityProofs`, `BridgeProofs`, `WorkersProofs`, `ReviewProofs`, `SearchProofs` | theorems and proofs | the last six are about the specifications of `MCRecords`, `MCAuthority`, `MCBridge`, `MCWorkers`, `MCReview` and `MCSearch`, for all values of the constants |
| `MC...` | instances for TLC | symmetry, values of function constants, several components in one run (below) |

### Components that take turns

Where components share no row and no lock, exploring their product would only
multiply their states. The modules `MCRecords` (Expenses, Todos, Notes), `MCSearch`
(Projection, Retrieval, Assets), `MCReview` (SelfClaims, Notices), `MCBridge`
(ProjectBrain, PendingStore), `MCWorkers` (Scheduler, LlmJobs) and `MCAuthority`
(Authority, Governance) therefore instantiate them side by side. An extra variable
(`shelf`, `side` or `desk`) is chosen at the start and says whose behaviour this is;
the variables of the others are 0 throughout. A property of such a run is the
component's own, under the condition that it is its turn. Such a run is the union of
the behaviours of its components, not a claim about their composition. Model values
that play a part in two components (`Call \cap Key` for instance) are shared so that
one symmetry set serves both.

## 3. Runs

All runs use `-workers 2`. `CHECK_DEADLOCK FALSE` is set throughout: executions,
versions, days and failures are finite in each instance, so behaviours end when
they are used up; that nobody waits forever is stated by the liveness properties.

| Run | Instance | Checks | Shows |
|---|---|---|---|
| `job_queue` | 2 jobs, one of an unregistered type, 2 workers, 2 attempts, batches of 2, 1 crash; 75 thousand states | OneHolderPerToken, SucceededUnderItsToken, IndInv, ImplementsLifecycle | fencing, and through the refinement that ends are final and every job ends; the invariant of the proofs |
| `idempotency` | 2 keys, 2 payloads, 3 executions; 62 thousand | OneEffectPerKey, IndInv, EveryRequestEnds, ImplementsExactlyOnce | retry, conflict and tombstone in every order; the invariant of the proofs |
| `records` | expenses: 4 executions, 2 keys, 2 amounts; todos: 1 todo, 3 requests, versions up to 3; notes: 3 executions, 2 texts | LedgerSound, AcknowledgedStands, OneWriterPerVersion, CopiesOverlap, SupersededIsGone, NothingUndone | an expense is one chain whose end alone counts; a version of a todo has one writer; a note exists twice, or has two successors, only if the requests overlapped |
| `expenses_retry` | 3 executions, 1 key | RetryReplays | violated: section 6 |
| `search` | rows: 2 notes, 2 expenses, or a note with an expense, a todo, a claim or a task, 1 worker, 2 queued jobs of a kind, 1 failure; table: 2 targets, 2 indexers, 1 embedding model or none, 3 cards, lists of 2, limit 2; assets: 2 uploads, 2 contents, 2 workers, 2 runs | CardsSound, RowsAreListed, TwinsOverlap, SearchServes, UploadsReachTheIndex | what is gone has no card and what is live has its own; every query over every reachable table is answered as the reference definitions say; bytes, blob row and index job follow an asset |
| `projection_converges` | 2 notes, 1 queued job of a kind, 1 failure; 57 thousand | AgreeAtLast | liveness |
| `review` | 2 claims that say the same, 1 that says the opposite, 1 raw input, 1 worker, 1 approval, 1 incident; 2 items, 1 health check, 2 senders, 2 runs, a cooldown of 1 tick, days of 2 | VerdictsAreFinal, OneCandidateReviewed, ConfirmedByTheOwner, RepeatsOverlap, OwnerLearns | verdicts against jobs that read before them; a topic is under review for one candidate at a time; a notice repeats only when runs overlapped, and no item waits unknown to the owner once its jobs succeeded |
| `self_claims_established` | 1 claim, 1 raw input, 4 days | EstablishedBecomeHistorical | violated: section 6 |
| `bridge` | 3 keys, 2 payloads, 2 replays, capacity 2, 3 insertions; 3 calls, 1 project, 1 statement, 2 roots, 1 module | QueueSound, QueueIsExactlyOnce, SyncsSeeEachOther, DeletedProjectStays, ConflictsHoldUp, FinalReportsAreKept | the queue reorders nothing and drops a row only when its one effect is made; calls overtaken by a deletion or by each other |
| `racing_refresh` | 2 calls, 1 project, 1 root, 1 module | NeverPretendsFresh | violated: section 6 |
| `workers` | 3 schedules, 2 workers, 2 days of 3 slots, 1 failure; 2 extractions, 1 digest, 2 scopes, quota 2, 2 days, 2 runs; 1.3 million | ScheduleSound, BudgetHolds, DigestsAreComplete | each job once a day and none forgotten; the budget over retries and midnight |
| `authority` | 1 terminal, 1 call at a time, 2 projects, 2 credentials, 1 token, epochs up to 3; 1 project to delete, 1 fact, 2 plans, 2 items, 3 resolutions | DeletedAsApproved, PermissionsAreCurrent, FewLateStages, AccessStaysWithdrawn, OneCredential, DenialsPrevail | a withdrawal takes effect at the next check of a call under way, and lasts until the project is granted again; rotation, also a failed one, leaves a credential that works; the deletion is the preview's |

`IndInv`, `LedgerSound`, `OneWriterPerVersion`, `CopiesOverlap`, `DeletedAsApproved`,
`QueueSound`, `ScheduleSound`, `OneCandidateReviewed` and the properties of `search` contain the
inductive invariants of the proofs, or follow from them by a lemma: what the proofs rest on
is checked on the instances too. `BooksOnce` is a theorem without a run: with four
executions, two keys and two amounts (347 thousand states) it takes TLC minutes of its own,
since each step is compared with every effect there could be. TLC found it kept there.

Bounds and why they are enough to meet the interesting cases.

- *Queue.* Two workers are what fencing is about. Two attempts give a job a first
  try, an overtaken one and an exhausted one. A batch of two leaves one job waiting,
  without a heartbeat, while the other runs. The code's bound of 5 is covered by the
  proofs, which hold for every `MaxAttempts` from 1 to 5 and any workers and jobs.
- *Idempotency.* With three executions one can hold the claim, one wait for it and
  one arrive after both; two payloads tell replay from conflict.
- *Expenses.* Four executions: an expense, two competing corrections, one retry. Where there
  are corrections, expenses begin with one amount (`OnePrice`): additions that differ under
  one key are explored apart from them.
- *Notes.* A save, and two corrections of it that race, or a correction of a
  correction; two texts tell a copy from another note.
- *Projection.* No operation relates more than two rows (`MaxRows`), nor rows of different
  kinds, which only share the worker: `FewRows` pairs each kind with a note. Two queued
  jobs of one kind for one row are an index job and the one that overtakes it.
- *Retrieval.* Three cards are a card, its replacement and a twin; two targets with
  different sensitivity and time put one on each side of every filter. In a query
  without a filter words and vector tell any two texts apart in either order, or not at
  all; one with a ceiling, a range or both, the range open or closed, matches by its words,
  its vector, both or neither. `RrfK` is the code's 60.
- *Assets.* Two uploads share a blob or do not; two runs are a run that crashed or
  lost its lease and the one that replaces it.
- *Authority.* One terminal: two at once lose an epoch (section 6). Three epochs are
  a withdrawal, a grant and another withdrawal during one call; two credentials an
  old and a new one. `BearersOrProjects` explores rotations, OAuth grants and the tools
  of no project apart from projects: once there is a project the calls are those that
  work on one, create one or retry that.
- *Governance.* Two plans and two items are needed for an item that confirms a plan
  it was not made for; three resolutions let two collide and a third come late.
- *SelfClaims.* Days are scaled down: claims age after 0 days in `review`
  (1 in the other run) and promotion takes 2 sources over 1 day instead of 3
  over 14, with the same comparisons. `MaxIncidents` bounds items that clients open,
  deletions and failed jobs together. Suspected pairs (`Suspected`) are empty in
  these runs; merge items come from a client instead.
- *Notices.* Two senders and two runs let one run overtake another; one tick with a
  cooldown of one puts a health check on the boundary. `ItemsOrHealth` explores two
  items apart from the passing of time.
- *ProjectBrain.* Three calls are two that race and one that follows them. Syncs,
  facts and tasks meet in the project's row only, so `OneKind` explores them apart, leaves
  deletions out of behaviours with three syncs, and gives every sync without modules a
  revision, which makes no difference to it.
- *PendingStore.* Capacity 2 with 3 insertions reaches the bound and passes it.
- *Scheduler.* Schedules at the first, a middle and the last slot put a tick on
  each boundary, midnight included.
- *LlmJobs.* Three jobs against a quota of two, over one midnight.
  `ScopesOrExtracts` explores two scopes when no extraction competes.

### Fairness

- `JobQueue`: weak fairness on each worker's poll steps, because `WorkerLoop.run`
  polls until it is stopped and handlers have time limits, and on the passing of
  delays and leases. Enqueueing, heartbeats, crashes and pruning are not forced.
- `Idempotency`: weak fairness on each request's next statement. A transaction
  waits for a claim holder only, and a holder never waits for another claim.
- `Projection`: weak fairness on a worker's steps, strong fairness on claiming a
  queued job. Claims go by `available_at`, so a job that waits is overtaken by
  finitely many others; it is disabled only while the workers are busy. `FairSpec`
  leaves out what only happens to todos, claims and tasks, of which its instance has
  none; those actions are explored by `search`.
- `SelfClaims` (`self_claims_established`): time goes on, a worker finishes what it
  began, and the retention sweep, which the scheduler enqueues every day, is begun
  whenever it has work again and again.

The other modules state safety only. What "reaches the owner" or "reaches the index"
means there is stated for jobs that ended: that a job ends is the queue's promise.

## 4. Proofs

`JobQueueProofs` (for any `Job`, `Worker`, `Handled` within `Job`, `MaxAttempts`
from 1 to 5, `BatchSize` of at least 1: `ConstantsAssumption`):

- `IndCorrect` proves `IndInv`, which the run checks too; from it `TypeCorrect`,
  `Fencing` (`OneHolderPerToken`), `AttemptsBounded`, `StaleWorkersCannotCommit`
  (`SucceededUnderItsToken`), `LiveClaims`; `EndsFinal`, that ends are final;
  `Refinement`, the safety part of `ImplementsLifecycle`.
- The invariants are not inductive. That a token has one holder depends on what a
  worker knows when it claims: its snapshot is the row as it is or an older one
  (`SnapshotInv`), so an UPDATE that still matches raises the token above whatever
  is held. That a late failure cannot revive an ended job depends on attempts: an
  ended job's claim is either overtaken or was its last (`LiveClaimsAreLeased`), and
  a waiting job has an attempt left (`WaitingInv`). `MemoryInv` says what a worker
  holds at each stage. `IndInv` is their conjunction, with one proof step per action.

`IdempotencyProofs` (for any keys, payloads and executions, without assumptions):

- `IndCorrect` proves `IndInv`; from it `AtMostOnce` (`OneEffectPerKey`),
  `TruthfulAnswers`, `NoKeyStuck`, the action property `DeletedForGood`, and
  `Refinement`, that the protocol implements `ExactlyOnce`.
- The strengthening relates the three places in which a key can be: a committed row
  stands for the one effect of its key and excludes a holder (`RowsInv`), a request
  past its claim is the only holder (`HoldersInv`), and a request has one body and no
  answer before its end (`RequestsInv`).

`RecordsProofs` (for any executions, keys, expenses, amounts, todos, requests, texts;
the requests of expenses are finitely many, `RequestAssumption`, because a chain is as
long as its corrections; `MaxVersion` is a number, `MaxVersionAssumption`):

- *Expenses.* `LedgerHolds`, `AcknowledgementsHold` and `LedgerBooksOnce`. `ChainsInv` says what a chain
  is: every row but the first names the one it replaces, which is closed, and versions
  go up by one along it. An execution that holds a row's lock has read that row as it
  is (`LocksInv`), so the replacement it inserts extends the chain at its end, and of
  the executions that read a row before it was replaced the guarded UPDATE refuses all
  but one. Acknowledgements (`AnswersInv`) follow a claim to its row (`ClaimsInv`).
  `LedgerBooksOnce` is the refinement of `ExactlyOnce`: the commit of an execution is its
  one effect and its answer, a replay is an answer, every other step changes neither. It
  rests on `HoldersInv`: who is past the claim alone holds its key, which has no record yet.
- *Todos.* `TodoVersionsHaveOneWriter` and the action property `TodosAreKept`. The
  clause of the UPDATE is evaluated again under the lock; what a request compared and
  what it took are related in `LocksInv` and `TookInv`.
- *Notes.* `CopiesRanTogether` and `SupersededForGood`. That copies need requests that
  overlapped is not inductive: a request that is under way and has looked already met
  whatever committed since (`OpenOverlap`), and what it missed then
  (`MissedOverlap`, `ForksMissedOverlap`) it still met after it committed.

`AuthorityProofs` (for any projects, calls, credentials, tokens and epochs, with one
terminal, `OneTerminal`, since two lose an epoch; `MaxEpoch` at least 1; projects have
an identity of their own, `ProjectAssumption`; any plans, items, facts, resolutions):

- *Permissions.* `PermissionsStayCurrent`, `FewStagesLate`, `WithdrawalsStand`,
  `CredentialsWork`. The epoch that an operator command will write lies above every
  epoch that was stamped into a call, a code or a token (`CommandInv`, `StampsInv`),
  so an epoch once left never returns. `LateInv` follows a call past its last check,
  where `create_project` and its retries have two stages left and everything else one.
  A withdrawal stands because a row is inserted under its own project only (`AddsInv`,
  `CreationInv`), and because the command that withdraws closes every row that no
  self-grant inserted while it ran (`alone`, `WithdrawnInv`): a list of scopes that is
  written back opens nothing without a row. `DenialsOutweigh` is about the policy as a
  function.
- *Deletions.* `DeletionsAreApproved`. A plan is locked by the resolution that
  executes it, an item by the one that consumes it (`ItemLocksInv`, `PlanLocksInv`);
  what was approved was consumed (`ConsumedInv`, `ApprovedInv`); the facts of the
  preview were there (`FactsInv`).

`BridgeProofs` (for any keys, payloads, replays; the bounds of the table are numbers,
`BoundsAssumption`; `TablesAssumption`: calls and modules differ, as rows of different
tables do):

- *Offline queue.* `WritesArrive`, that the queue implements `ExactlyOnce` (an online write, and
  a replayed one that is new to the server, make the effect of their key; a row that is
  dropped tells of an effect that was made; every other step changes neither), the action
  property `ConflictsBlock`, and with `QueueCorrect` that operations take effect in the
  order of their insertion. Two
  replays and lost answers leave old lists about; the argument is that whatever stands
  before a row of such a list has arrived or is in the list (`ListedInv`), that the
  payload of a key never changes at the server, and that a row marked as a conflict
  can therefore never arrive (`ServerInv`). So the head of any list has only arrived
  rows before it.
- *Project brain.* `SyncsAreOrdered`, `DeletionIsTheEnd` and the action property
  `ReportsAreFinal`. A call that wrote holds the row it wrote until it commits
  (`LocksInv`); calls that do not overlap saw each other's commits, so a workspace
  (`RootsInv`), a task's report (`ReportsInv`) or a module card (`FreshInv`) that a
  later call finds is the earlier one's; `HoldsInv` says which card a sync keeps
  locked while it goes on.

`WorkersProofs` (for any schedules, workers, days, jobs and scopes; the bounds are
numbers and the jobs finitely many, `ScheduleAssumption` and `ModelsAssumption`):

- *Scheduler.* `SchedulesHold`. A worker that is about to write a row has its key
  locked and counted no row under it (`LocksInv`); every schedule that was due when a
  tick began is yet to be visited, about to be written, or has its row (`CatchesUp`),
  so that a tick commits only when nothing is missing; a tick's keys are of the day
  on which it began, which is what midnight could break (`TickInv`).
- *Jobs that call a model.* `DigestsComplete` and `BudgetIsHeld`. Of a day's notes a
  run has yet to go through the scope or the digest is there, because a digest looks
  at a day that is over (`RunIsSound`); a digest without a card has a run just about
  to index it, or one that stopped there (`DerivedInv`). For the budget: while a day
  lasts, the extractions let through are among the jobs leased on it, fewer than the
  quota (`AdmittedInv`, `ExtractionsFit`). The proof does not go through for two
  digests, and for good reason (section 6): `BudgetIsHeld` needs `OneDigest`, which is
  what the daily schedule enqueues.

`ReviewProofs` (for any claims, inputs, jobs of the notices and runs; the days,
incidents and ticks are numbers and the claims finitely many, `ClaimsAssumption`,
`NoticesAssumption`: the notices of a health check are no items):

- *Claims.* `Confirmations`, for any number of workers. A job that promotes or revives
  writes what it read a while ago: whatever of class C it will make active has its
  confirmation (`ConsentInv`), which is never taken back; it updates rows that exist,
  and inserts rows that nobody else does (`WorkInv`).
- *Conflicts.* `Conflicts`, with one worker (`OneWorker`), as compose starts it: two
  scans at once raise a pair twice (section 6). The invariant has to reckon with jobs
  that write a deleted claim back: `Alive` are the claims that are live and those a job
  read alive and will write. Two open reviews of a topic name the same candidate, or one
  of them has no claim alive (`OpenInv`, `TopicsInv`): a scan may raise several of them,
  but all for the first candidate that has a pair left. A scan reads claims, items and
  verdicts, in that order, while the owner judges: it knows every claim under review that may be alive, and the pairs it
  is left with share no topic with an open review of a claim it knows (`ScanInv`).
- *Notices.* `NoticesCorrect`, from which `RepeatsHold` and `OwnerIsTold`: a run that
  is about to insert saw no recent notice, and whoever inserted since overlapped it
  (`RunSound`); a job that succeeded left its notice (`JobsInv`).

`SearchProofs` (the bounds and what queries compare are numbers and the uploads finitely
many, `RowsAssumption`, `TableAssumption`, `SearchAssumption`, `AssetsAssumption`; notes and
todos are rows of their own):

- *Rows and jobs.* `RowsCorrect`, for any rows, queue bounds and failures. With any number
  of workers (`ListingHolds`): a live row has its card or a job that will write it,
  reconciliation is for rows that are gone only, and what a run has read of a live row is
  its text (`ListedInv`, `JobsInv`). With one worker, as compose starts it (`OneWorker`, the
  hypothesis of `IndexSound`; with two a row may stay listed, section 6): a row that is gone
  has no card, or a job that is yet to look at it; and one that went while a run was past
  its look has left a job behind that run, which is what the trailing jobs are for
  (`UnlistedInv`).
- *Table.* `TableCorrect`, for any indexers, targets and models: of the cards that a
  call will double, those it saw are deleted with its insert, and the others were
  inserted after its DELETE (`CallsInv`).
- *Searches.* `SearchesCorrect` and `SearchesServe`, for any queries, lengths of lists,
  limits and budgets. Fractions are ordered by `Above` (`AboveOrder`) and grow with what is
  added (`PlusGrows`); a position is the number of cards before it, so a list ranks its cards
  without ties (`PositionFacts`) and a better position gives at least as much
  (`ReciprocalFacts`): hence `DominanceHolds`. For `MatchesAreServed`, few candidates are all
  listed (`FewAreListed`), the filters are what a query asks for, day boundaries included
  (`BaseIsAsked`), and the last hit that a package takes bounds its bytes (`PackageFits`).
- *Assets.* `AssetsCorrect`, for any workers and attempts. The count that an upload has
  read is at most that of the assets, and is that count unless it met one of them, or
  they met; uploads that are open met (`UploadsInv`). So a blob row never counts too
  much, and counts too little only after uploads that overlapped.

In `MCRecords`, `MCAuthority`, `MCBridge`, `MCWorkers`, `MCReview` and `MCSearch` the
theorems are about the run's specification, whose invariant is that of the component
whose turn it is; the component theorems (`ExpensesCorrect`, `PermissionsCorrect`,
`QueueCorrect`, `RowsCorrect`, ...) are about the component alone.

Only model-checked: liveness (`EveryRequestEnds`, `AgreeAtLast`, the liveness part of
`ImplementsLifecycle`) and anything with ENABLED, which the proof system does not support.
The three deviations that are runs are counterexamples, which need no proof. No theorem
needs an induction over data, which is out of the provers' reach: positions, bytes and
counts are cardinalities, and no operator is recursive.

## 5. Abstractions

- PostgreSQL at READ COMMITTED: a statement sees what is committed when it starts;
  an UPDATE or a locking SELECT waits for the row's lock and re-evaluates its clause;
  a unique insert waits for an uncommitted one on the same key. The select-first path
  for SQLite adapters, used by tests only, is left out.
- Payloads, texts and digests are values to be compared. Audit rows, intake
  requests, progress notes and notifications are written in the same transactions
  and read by none of the modelled decisions.
- JobQueue: delays and leases are a flag that may become true at any time.
- Projection: one embedding model version; chunks live and die with their card.
- Governance: projects and their facts, the one kind of target with dependents that
  the server resolves itself; other targets are a plan with an empty impact.
- SelfClaims: rows and evidence are read in one step per job, except in
  `conflict_scan`. A raw input yields at most one claim (the code takes five).
  A job that has nothing to write is left out. The limits of the scans (500 and 1000
  rows, 200 new conflicts) and the `memories` table, into which nothing inserts, are left out.
- PendingStore: encryption and the bound in bytes are left out.
- Scheduler: one owner; a second one only adds keys.
- Authority: one client, since clients share no rows. The content scopes that every
  client is given are one scope, "home", and the tools on them one tool, "domain". A
  retry of `create_project` is a method of its own (`ReplayCreateProject`), which reads
  the outcome where the first call wrote; retries of the other tools read and write
  nothing that first calls do not. The store's own look at the client's status is left
  out: where it would refuse, a stage of the model reads or writes too much, not too
  little. Expiry of credentials and their overlap, hashing, PKCE and the `module:` scopes
  of the policy are left out. No code inserts deny rows or wildcards; the policy is
  checked on them all the same, over bounded inputs.
- Notes: a request writes at most one note, which has its name.
- Assets: the table of assets has no lifecycle, so a deletion is of what was derived.
- Retrieval: a text is short (embedded whole), long (in chunks) or secret (not
  embedded); match densities and distances are natural numbers, any that a query gives, and
  fused scores are exact fractions where the code has floating-point numbers.
- ProjectBrain: contents of reports and paths are left out; a change below the paths
  of a module is a change of the module.
- LlmJobs: a call to the model succeeds or ends the run; scopes whose records all look
  like secrets are left out.
- Notices: a run's look for its job's subject is part of its first step. The inbox is
  the only channel, as in the code.

## 6. Deviations

What the code's own documentation, comments or rules say and the code does not keep.
Three are runs; the others of the table are stated in the modules and can be reproduced with the
constants given (other constants as in the run of the module).

| Property | Instance | What happens |
|---|---|---|
| `RetryReplays` (Expenses), run `expenses_retry` | | `correct_expense` looks for the active row before it claims its key (`authoritative_store.py:2159`): after a success the row is tombstoned, so a retry with the same key is answered NOT_FOUND instead of the stored outcome (`idempotency.py:4`). |
| `EstablishedBecomeHistorical` (SelfClaims), run `self_claims_established` | | The sweep computes "established" for a promoted claim, sees that it differs from lifecycle_state "active" and writes it there (`evolution.py:179`). No query asks for that state: the claim is gone from context, scans and later sweeps on the morning of its promotion and never becomes historical. |
| `NeverPretendsFresh` (ProjectBrain), run `racing_refresh` | | `sync_workspace` calls every card of a payload with a revision fresh and compares neither revision nor time of observation (`authoritative_store.py:1702`): of two overlapping syncs the older one may commit last and call a card fresh that the newer saw changed. `projects/modules.py:5`: "Racing refresh stays stale/unknown; it never pretends fresh." |
| `AcknowledgedMeansDone` (Todos) | 1 todo, 2 requests | The row count of the UPDATE is not looked at (`authoritative_store.py:1233`): of two concurrent requests with the same version both are acknowledged. |
| `MergedIsUnlisted` (Projection) | 1 claim, MaxQueued 1, MaxFailures 0 | `_merge_claims` enqueues no trailing job (`authoritative_store.py:1074`): an index job that read the claim before writes its card back. |
| `DeletedIsUnlisted` (Projection) | 1 expense, or 1 note with the client revoked; MaxQueued 1, MaxFailures 0 | A plan for an expense leaves the card of its raw input (`job_handlers.py:203`); a reconcile job in the name of a client revoked meanwhile is dead-lettered (`job_handlers.py:387`). |
| `TaskIsListed` (Projection) | 1 task, MaxQueued 1, MaxFailures 0 | `finalize_project_task` changes the task and enqueues no index job (`authoritative_store.py:1589`). |
| `GoneIsUnlisted` with two workers (Projection) | 2 notes, 2 workers, MaxQueued 1, MaxFailures 0 | The trailing job may run on one worker while the index job is between its transactions on the other (`indexer.py:249`). Compose starts one worker. |
| `BudgetHolds` (LlmJobs) with two digests | 2 extractions, 2 digests, 1 scope, 3 workers, Quota 3, MaxRuns 2, LastDay 3 | A digest takes the moment at which it began to the check (`digest.py:95`), and a lease moves a job to the day of the lease (`llm_budget.py:31`). Two digests at work at midnight are both let through for the day before once the jobs that were let through are leased again, and four jobs spend a budget of three. |
| `VerdictIsFinal` (SelfClaims) with two workers | as in `Review.cfg`, 2 workers, LastDay 0, MinSpan 0, MaxIncidents 0 | `conflict_scan` reads claims, items and verdicts without a lock, and no constraint makes a conflict unique (`evolution.py:246`): two scans that overlap both raise a pair, and when one review is judged the other is still open. Compose starts one worker. |
| `LateRetryIsToldDeleted` (Idempotency, `ServerSpec`) | 1 key, 1 payload, 2 requests | Nothing in the server calls `tombstone_claim` (`idempotency.py:183`): after a deletion a late retry replays the old outcome and is not told "deleted". |
| `ApprovedIsWhatWasMeant` (Governance) | 2 projects, 2 plans, 2 items, 1 request | `get_deletion_plan` reports any open deletion item (`authoritative_store.py:563`). |
| `FactsGoWithTheProject` (Governance) | 1 fact, 1 plan, 1 item, 1 request | A fact recorded after the preview, or checked before and inserted after the execution, stays active (`authoritative_store.py:1494`, `:718`). |
| `ClosedPlansStayClosed` (Governance) | 1 plan, 2 items, 2 requests | Execution looks at the state and not at the confirmation (`authoritative_store.py:690`): a rejected or expired plan is executed through another item. |
| `RunInOrder` (Scheduler) | as in `Workers.cfg` | Jobs caught up together share `available_at`, and retried ones are delayed (`scheduler.py:37`, `jobs/store.py:80`). |
| `OneConflictPerTopic` (SelfClaims) | as in `Review.cfg` | "One conflict item per contradicting topic" (`evolution.py:265`) is tested for each candidate (`:278`) and not for each settled claim (`:280`): a candidate that contradicts two settled claims of its topic gets two conflicts and two items in one scan. |
| `AtMostOneLateStage` (Authority) | as in `Authority.cfg` | The grant that `create_project` makes to its caller and the hint that reads the projects both follow the last check (`authorized_tools.py:537`): after a withdrawal two stages go ahead, though every one is to be checked (`specs/001-personal-brain-v1/execution-rules.md:66`). |
| `OnlyTheOperatorReopens` (Authority, an action property) | as in `Authority.cfg` | A retry of `create_project` replays the stored outcome (`authoritative_store.py:112`) and grants the project to its caller again (`authorized_tools.py:542`): access that the operator withdrew meanwhile (`docs/USER_GUIDE.md:91`) is back without the operator's doing, and nothing else needs to be under way. |
| `DeletedStaysDeleted` (SelfClaims) | as in `Review.cfg` | Promotion, retention and dedupe update by id what they read before (`evolution.py:185`): a deletion committed in between is overwritten. |
| `MergedHasNoEvidence` (SelfClaims) | as in `Review.cfg` | An extraction that read its pool before a merge attaches evidence to the superseded claim (`extraction.py:278`). |

Met while modelling, and excluded from the properties by a condition that names them
(an observation variable such as `met`, `late` or `struck`), by the instance or by
the abstraction:

- *Authority.* Two operator commands at once lose an epoch and may leave two live
  credentials. Concurrent `create_project` calls overwrite each other's scope list;
  a self-grant in flight, or a retry of the creation, undoes a withdrawal.
  `set_project_access` "none" leaves the creator's `review.write` open and a later
  "read" revives it, against the comment at `admin.py:253`; "read" after "write" leaves `project.write` open.
  `grant_project_scope` says "permission-epoch bumped" (`authority.py:145`) and bumps
  none. Between the last check and the commit a withdrawal is not seen. A rotation
  whose commit succeeded but whose answer was lost removes the file of the live
  credential.
- *Project brain.* Two first syncs may insert a card each for one module, after which
  `one_or_none` fails for that module; two first syncs from different roots both bind.
  Two identical `record_fact` calls end in a unique violation, not in the duplicate
  answer that the comment at `authoritative_store.py:1506` promises. A task finalised
  twice at once has two change events. A sync has no check before its commit.
- *Assets.* A crash between the commit of the derived text and the enqueueing of its
  index job loses the index job, because a repeated run finds the text and stops
  (`job_handlers.py:111`: "so a failure is retried and visible, not swallowed"). Two
  uploads at once lose a reference. A parse run that outlives the deletion derives
  the text again.
- *LLM jobs.* The quota-th lease is refused, since it counts itself (`llm_budget.py:48`
  says it "is the last one admitted"); several leases of one job count once. A digest
  retried after midnight digests another day. A crash between the commit of a digest
  and its indexing leaves it unindexed; a digest keeps the text of notes deleted later.
- *Notices.* No unique index on `dedupe_key`: runs that overlap insert twice. A
  repeated dispatch ends as a dead letter, which the next health check reports. The
  key of a health notice has the UTC date in it, so midnight ends the cooldown.
- *Retrieval.* No unique constraint on cards: concurrent index calls leave twins. Cards
  of an earlier embedding model, or of none, stay beside the new ones and a target is
  served twice. The list of chunks keeps the lowest ids, not the nearest. A top hit
  larger than the budget yields an empty package.

## 7. Not modelled, and the plan

Done, in this order: the job queue and the idempotency protocol, since every other
part rests on them, with their abstract specifications and proofs; canonical writes;
the projection; governance; the offline queue; the scheduler; the self model; then
authority, notes, the project brain, assets, the jobs that call a model, notices,
and the index table with its searches; then the proofs of the canonical writes, of
authority and governance, of the bridge's side, of the worker's day, of the review inbox,
of the index and of its searches, and that the ledger and the offline queue implement
`ExactlyOnce`.

Next:

1. That candidates expire (SelfClaims), as a liveness property.
2. The intent router and the compiler of context packages beyond its byte budget.

Not modelled, and why: the MCP and HTTP layers translate requests to the calls that
Authority models; the scan, git observer and stdio of the bridge are input and output
whose results are inputs of ProjectBrain; the model gateway is, to a job, a call that
returns or raises; backup, restore and export are procedures over files; schema,
settings and logging are declarations, whose constraints are in the modules that rely
on them; the in-memory domain services are reached from unit tests only. Out of reach:
what a language model answers, floating-point scores, encryption.

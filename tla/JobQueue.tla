------------------------------ MODULE JobQueue ------------------------------
(***************************************************************************)
(* The durable job queue: the jobs table with its lease, fencing and retry *)
(* rules (jobs/store.py) and the worker processes that poll it             *)
(* (personal_brain_worker/runtime.py).                                     *)
(*                                                                         *)
(* A worker reads candidates, claims them in one transaction, then runs    *)
(* the claimed jobs one after the other outside any transaction and        *)
(* settles each under the token of its claim.  Only the job being run has  *)
(* a heartbeat thread; the rest of the batch waits with its lease running  *)
(* down.  A worker may crash at any point; the process is restarted with   *)
(* empty memory.                                                           *)
(*                                                                         *)
(* Wall-clock time is abstracted to one flag per row, elapsed[j]: the      *)
(* timestamp that decides whether the row is ready has passed              *)
(* (available_at of a waiting row, lease_expires_at of a leased one).  It  *)
(* may pass at any moment, so slow handlers, late heartbeats and clocks    *)
(* that disagree are all covered.                                          *)
(***************************************************************************)
EXTENDS Naturals, FiniteSets

CONSTANTS
    Job,            \* ids of job rows
    Handled,        \* the jobs whose job_type has a handler in the registry
    Worker,         \* worker processes (all run under one worker_id)
    MaxAttempts,    \* JobPolicy.max_attempts; rows are created with the same bound
    BatchSize,      \* LIMIT of the candidate query
    MaxCrashes      \* bound of the model: how many crashes a behaviour has

ASSUME ConstantsAssumption ==
    /\ Handled \subseteq Job
    /\ MaxAttempts \in 1..5
    /\ BatchSize \in Nat \ {0}
    /\ MaxCrashes \in Nat

VARIABLES
    \* the jobs table
    state,          \* state[j]; "absent" before the insert, "pruned" after the delete
    attempts,
    claim_token,
    elapsed,
    \* memory of the workers
    pc,             \* where poll() stands
    snapshot,       \* rows read by the candidate query
    batch,          \* claims not yet started
    running,        \* the claim being run: at most one
    \* observation
    applied,        \* claims whose handler committed its own transactions
    crashes

tableVars == <<state, attempts, claim_token, elapsed>>
workerVars == <<pc, snapshot, batch, running>>
vars == <<tableVars, workerVars, applied, crashes>>

-----------------------------------------------------------------------------
JobState ==
    {"absent", "queued", "leased", "retry_wait", "succeeded", "dead_letter", "pruned"}

Row == [state : JobState, attempts : Nat, token : Nat]

Claim == [job : Job, token : Nat]

Stage == {"idle", "candidates", "between", "executing", "commit", "retry", "reject"}

\* The columns of row j that claim_ready_jobs goes by.
RowOf(j) == [state |-> state[j], attempts |-> attempts[j], token |-> claim_token[j]]

\* Stands for a row that the candidate query did not return.
NoRow == [state |-> "absent", attempts |-> 0, token |-> 0]

NoRows == [j \in Job |-> NoRow]

TypeOK ==
    /\ state \in [Job -> JobState]
    /\ attempts \in [Job -> Nat]
    /\ claim_token \in [Job -> Nat]
    /\ elapsed \in [Job -> BOOLEAN]
    /\ pc \in [Worker -> Stage]
    /\ snapshot \in [Worker -> [Job -> Row]]
    /\ batch \in [Worker -> SUBSET Claim]
    /\ running \in [Worker -> SUBSET Claim]
    /\ applied \in SUBSET Claim
    /\ crashes \in Nat

Init ==
    /\ state = [j \in Job |-> "absent"]
    /\ attempts = [j \in Job |-> 0]
    /\ claim_token = [j \in Job |-> 0]
    /\ elapsed = [j \in Job |-> FALSE]
    /\ pc = [w \in Worker |-> "idle"]
    /\ snapshot = [w \in Worker |-> NoRows]
    /\ batch = [w \in Worker |-> {}]
    /\ running = [w \in Worker |-> {}]
    /\ applied = {}
    /\ crashes = 0

-----------------------------------------------------------------------------
\* Mutant: abandoned leases are not candidates.
ReadyWithoutAbandoned(j) == state[j] \in {"queued", "retry_wait"} /\ elapsed[j]

\* The predicate `ready` of claim_ready_jobs.
Ready(j) == state[j] \in {"queued", "retry_wait", "leased"} /\ elapsed[j]

\* The WHERE clause of every settling update: the row still carries the token.
Fenced(c) == claim_token[c.job] = c.token

\* Mutant: complete_job updates whatever lease the row is under.
MayCommitUnfenced(c) == state[c.job] = "leased"

\* may_commit_result: a result is accepted from the current lease holder only.
MayCommit(c) == state[c.job] = "leased" /\ Fenced(c)

\* Inserting a job row, in the transaction of the canonical write.
Enqueue(j) ==
    /\ state[j] = "absent"
    /\ state' = [state EXCEPT ![j] = "queued"]
    /\ elapsed' = [elapsed EXCEPT ![j] = TRUE]
    /\ UNCHANGED <<attempts, claim_token, workerVars, applied, crashes>>

\* The retry delay or the lease of row j runs out.
TimeElapses(j) ==
    /\ state[j] \in {"retry_wait", "leased"}
    /\ ~elapsed[j]
    /\ elapsed' = [elapsed EXCEPT ![j] = TRUE]
    /\ UNCHANGED <<state, attempts, claim_token, workerVars, applied, crashes>>

\* The candidate query: the ready rows, at most BatchSize of them.
SelectCandidates(w) ==
    /\ pc[w] = "idle"
    /\ LET ready == {j \in Job : Ready(j)}
       IN \E S \in SUBSET ready :
             /\ S # {}
             /\ Cardinality(S) <= BatchSize
             /\ S = ready \/ Cardinality(S) = BatchSize
             /\ snapshot' = [snapshot EXCEPT ![w] = [j \in Job |-> IF j \in S THEN RowOf(j) ELSE NoRow]]
    /\ pc' = [pc EXCEPT ![w] = "candidates"]
    /\ UNCHANGED <<tableVars, batch, running, applied, crashes>>

\* Mutant: the claiming update repeats `ready` but neither token nor state.
StillMineIfReady(w) == {j \in Job : snapshot[w][j] # NoRow /\ Ready(j)}

\* The rows that no other transaction touched since the candidate query.
StillMine(w) ==
    {j \in Job :
        /\ snapshot[w][j] # NoRow
        /\ claim_token[j] = snapshot[w][j].token
        /\ state[j] = snapshot[w][j].state
        /\ Ready(j)}

\* Mutant: one attempt too many.
ExhaustedLate(w) == {j \in StillMine(w) : snapshot[w][j].attempts > MaxAttempts}

Exhausted(w) == {j \in StillMine(w) : snapshot[w][j].attempts >= MaxAttempts}

Won(w) == StillMine(w) \ Exhausted(w)

\* The guarded updates of claim_ready_jobs and their commit.  A row is locked
\* from its update to the commit, so the whole loop acts at the commit.
ClaimReadyJobs(w) ==
    /\ pc[w] = "candidates"
    /\ state' = [j \in Job |-> IF j \in Exhausted(w) THEN "dead_letter"
                               ELSE IF j \in Won(w) THEN "leased" ELSE state[j]]
    /\ attempts' = [j \in Job |-> IF j \in Won(w) THEN snapshot[w][j].attempts + 1
                                  ELSE attempts[j]]
    /\ claim_token' = [j \in Job |-> IF j \in Won(w) THEN snapshot[w][j].token + 1
                                     ELSE claim_token[j]]
    /\ elapsed' = [j \in Job |-> elapsed[j] /\ j \notin StillMine(w)]
    /\ batch' = [batch EXCEPT ![w] =
                    {[job |-> j, token |-> snapshot[w][j].token + 1] : j \in Won(w)}]
    /\ snapshot' = [snapshot EXCEPT ![w] = NoRows]
    /\ pc' = [pc EXCEPT ![w] = "between"]
    /\ UNCHANGED <<running, applied, crashes>>

\* poll() returns once the batch is done.
PollReturns(w) ==
    /\ pc[w] = "between"
    /\ batch[w] = {}
    /\ pc' = [pc EXCEPT ![w] = "idle"]
    /\ UNCHANGED <<tableVars, snapshot, batch, running, applied, crashes>>

\* The next job of the batch starts, and with it its heartbeat thread.
StartJob(w) ==
    /\ pc[w] = "between"
    /\ \E c \in batch[w] :
          /\ c.job \in Handled
          /\ batch' = [batch EXCEPT ![w] = @ \ {c}]
          /\ running' = [running EXCEPT ![w] = {c}]
    /\ pc' = [pc EXCEPT ![w] = "executing"]
    /\ UNCHANGED <<tableVars, snapshot, applied, crashes>>

\* heartbeat_job, from the thread of the running job: it renews the lease even
\* after the expiry, as long as nobody reclaimed the row.
Heartbeat(w) ==
    /\ \E c \in running[w] :
          /\ MayCommit(c)
          /\ elapsed[c.job]
          /\ elapsed' = [elapsed EXCEPT ![c.job] = FALSE]
    /\ UNCHANGED <<state, attempts, claim_token, workerVars, applied, crashes>>

\* Both rechecks pass and the handler returns: its effects are committed.
HandlerReturns(w) ==
    /\ pc[w] = "executing"
    /\ applied' = applied \cup running[w]
    /\ pc' = [pc EXCEPT ![w] = "commit"]
    /\ UNCHANGED <<tableVars, snapshot, batch, running, crashes>>

\* A recheck or the handler raises, before or after its effects are committed:
\* JobExecutionError carries its own retryable flag, anything else is retryable.
HandlerRaises(w) ==
    /\ pc[w] = "executing"
    /\ applied' \in {applied, applied \cup running[w]}
    /\ \E next \in {"retry", "reject"} : pc' = [pc EXCEPT ![w] = next]
    /\ UNCHANGED <<tableVars, snapshot, batch, running, crashes>>

\* complete_job: no row is updated when the token or the state moved on.
CompleteJob(w) ==
    /\ pc[w] = "commit"
    /\ \E c \in running[w] :
          state' = IF MayCommit(c) THEN [state EXCEPT ![c.job] = "succeeded"] ELSE state
    /\ running' = [running EXCEPT ![w] = {}]
    /\ pc' = [pc EXCEPT ![w] = "between"]
    /\ UNCHANGED <<attempts, claim_token, elapsed, snapshot, batch, applied, crashes>>

\* Mutant: the exhaustion test of fail_job is off by one.
FailRowLate(c, retryable) ==
    LET dead == ~retryable \/ attempts[c.job] > MaxAttempts
    IN  /\ state' = IF Fenced(c)
                    THEN [state EXCEPT ![c.job] = IF dead THEN "dead_letter" ELSE "retry_wait"]
                    ELSE state
        /\ elapsed' = IF Fenced(c) /\ ~dead THEN [elapsed EXCEPT ![c.job] = FALSE] ELSE elapsed
        /\ UNCHANGED <<attempts, claim_token>>

\* Mutant: a failed job gets a state the table does not know.
FailRowAsFailed(c, retryable) ==
    /\ state' = IF Fenced(c) THEN [state EXCEPT ![c.job] = "failed"] ELSE state
    /\ UNCHANGED <<attempts, claim_token, elapsed>>

\* fail_job: guarded by the token alone, whatever the state of the row.
FailRow(c, retryable) ==
    LET dead == ~retryable \/ attempts[c.job] >= MaxAttempts
    IN  /\ state' = IF Fenced(c)
                    THEN [state EXCEPT ![c.job] = IF dead THEN "dead_letter" ELSE "retry_wait"]
                    ELSE state
        /\ elapsed' = IF Fenced(c) /\ ~dead THEN [elapsed EXCEPT ![c.job] = FALSE] ELSE elapsed
        /\ UNCHANGED <<attempts, claim_token>>

SettleFailure(w) ==
    /\ pc[w] \in {"retry", "reject"}
    /\ \E c \in running[w] : FailRow(c, pc[w] = "retry")
    /\ running' = [running EXCEPT ![w] = {}]
    /\ pc' = [pc EXCEPT ![w] = "between"]
    /\ UNCHANGED <<snapshot, batch, applied, crashes>>

\* A job of an unregistered type is rejected without a heartbeat thread.
RejectUnhandled(w) ==
    /\ pc[w] = "between"
    /\ \E c \in batch[w] :
          /\ c.job \notin Handled
          /\ batch' = [batch EXCEPT ![w] = @ \ {c}]
          /\ FailRow(c, FALSE)
    /\ UNCHANGED <<pc, snapshot, running, applied, crashes>>

\* The process dies (or an exception escapes poll()) and is started again.
Crash(w) ==
    /\ crashes < MaxCrashes
    /\ pc[w] # "idle"
    /\ crashes' = crashes + 1
    /\ pc' = [pc EXCEPT ![w] = "idle"]
    /\ snapshot' = [snapshot EXCEPT ![w] = NoRows]
    /\ batch' = [batch EXCEPT ![w] = {}]
    /\ running' = [running EXCEPT ![w] = {}]
    /\ UNCHANGED <<tableVars, applied>>

\* prune_rebuildable deletes rows that finished 30 days ago: long after the
\* minutes a worker can still hold a claim of them.
PruneRebuildable(j) ==
    /\ state[j] = "succeeded"
    /\ \A w \in Worker : \A c \in batch[w] \cup running[w] : c.job # j
    /\ state' = [state EXCEPT ![j] = "pruned"]
    /\ UNCHANGED <<attempts, claim_token, elapsed, workerVars, applied, crashes>>

-----------------------------------------------------------------------------
PollStep(w) ==
    \/ SelectCandidates(w) \/ ClaimReadyJobs(w) \/ PollReturns(w) \/ StartJob(w)
    \/ HandlerReturns(w) \/ HandlerRaises(w)
    \/ CompleteJob(w) \/ SettleFailure(w) \/ RejectUnhandled(w)

Next ==
    \/ \E j \in Job : Enqueue(j) \/ TimeElapses(j) \/ PruneRebuildable(j)
    \/ \E w \in Worker : PollStep(w) \/ Heartbeat(w) \/ Crash(w)

Spec == Init /\ [][Next]_vars

\* The worker loop never stops polling and no handler runs forever; delays and
\* leases run out.  Enqueueing, heartbeats, crashes and pruning are not forced.
Fairness ==
    /\ \A w \in Worker : WF_vars(PollStep(w))
    /\ \A j \in Job : WF_vars(TimeElapses(j))

FairSpec == Spec /\ Fairness

-----------------------------------------------------------------------------
\* Claims a worker holds in memory.
Held(w) == batch[w] \cup running[w]

\* Fencing: a claim (job and token) is held by one worker only, so two workers
\* can never both settle a job under the same token.
OneHolderPerToken ==
    \A v, w \in Worker : v # w => Held(v) \cap Held(w) = {}

\* No token is handed out that the table has not reached: a stale worker is
\* behind the row, never ahead of it, and each claim is counted as an attempt.
TokensCountAttempts ==
    /\ \A j \in Job : claim_token[j] = attempts[j] /\ attempts[j] <= MaxAttempts
    /\ \A w \in Worker : \A c \in Held(w) : c.token <= claim_token[c.job]

\* A job recorded as succeeded was run to its end under the token the row
\* still carries: the result of an overtaken claim is never the one recorded
\* (docs/SECURITY.md, "stale workers cannot commit results").
SucceededUnderItsToken ==
    \A j \in Job : state[j] \in {"succeeded", "pruned"} =>
        [job |-> j, token |-> claim_token[j]] \in applied

\* A row that waits or is finished has no live claim: whoever still holds one
\* was overtaken, except the holder of a dead letter whose attempts ran out.
LiveClaimsAreLeased ==
    \A w \in Worker : \A c \in Held(w) :
        Fenced(c) => \/ state[c.job] = "leased"
                     \/ state[c.job] = "dead_letter" /\ attempts[c.job] = MaxAttempts

\* An end is final, although fail_job does not look at the state of the row:
\* a dead letter stays one and a success is only ever pruned.
EndsAreFinal ==
    [][\A j \in Job :
          /\ state[j] = "dead_letter" => state'[j] = "dead_letter"
          /\ state[j] = "succeeded" => state'[j] \in {"succeeded", "pruned"}]_vars

-----------------------------------------------------------------------------
\* What each worker remembers between its transactions.
MemoryInv ==
    /\ \A w \in Worker : pc[w] \in {"idle", "candidates"} => Held(w) = {}
    /\ \A w \in Worker : pc[w] = "between" => running[w] = {}
    /\ \A w \in Worker : pc[w] = "commit" => running[w] \subseteq applied
    /\ \A w \in Worker : batch[w] \cap running[w] = {}

\* A row as a worker read it is the present row or an earlier one.
SnapshotInv ==
    \A w \in Worker, j \in Job :
        /\ snapshot[w][j].token <= claim_token[j]
        /\ snapshot[w][j].attempts = snapshot[w][j].token

\* A waiting row has an attempt left, and a row not yet inserted has none used.
WaitingInv ==
    \A j \in Job :
        /\ state[j] \in {"queued", "retry_wait"} => attempts[j] < MaxAttempts
        /\ state[j] = "absent" => attempts[j] = 0

\* The inductive invariant: types, fencing, the attempt bound and the successes under
\* their token, made inductive by what the workers remember, by the leases of live
\* claims and by the attempts that a waiting row has left.
IndInv ==
    /\ TypeOK
    /\ OneHolderPerToken
    /\ TokensCountAttempts
    /\ SucceededUnderItsToken
    /\ LiveClaimsAreLeased
    /\ MemoryInv
    /\ SnapshotInv
    /\ WaitingInv

-----------------------------------------------------------------------------
\* The queue implements the lifecycle it promises.
LifecyclePhase(s) ==
    IF s \in {"queued", "retry_wait"} THEN "pending" ELSE IF s = "leased" THEN "running" ELSE s

Lifecycle == INSTANCE JobLifecycle WITH
    phase <- [j \in Job |-> LifecyclePhase(state[j])],
    tries <- attempts

\* Crashes, lost leases and overlapping workers stay within the promised
\* lifecycle: bounded tries, one final end, and an end for every job.
ImplementsLifecycle == Lifecycle!Spec

ImplementsSafeLifecycle == Lifecycle!SafeSpec
=============================================================================

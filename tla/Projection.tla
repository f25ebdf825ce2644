----------------------------- MODULE Projection -----------------------------
(***************************************************************************)
(* The retrieval projection: canonical rows, the cards that search serves  *)
(* for them, and the durable jobs that keep the two together.              *)
(*                                                                         *)
(* The server writes rows and enqueues jobs in one transaction.  A worker  *)
(* reads the row in one transaction and writes the card in another, so a   *)
(* tombstone can commit in between; search itself never looks at the row.  *)
(* A card stands for the text it was built from, 0 for no card.            *)
(*                                                                         *)
(* Claims, leases and attempts are those of module JobQueue: here a job is *)
(* queued, held by a worker, or gone, succeeded or dead-lettered.          *)
(***************************************************************************)
EXTENDS Naturals, FiniteSets

CONSTANTS
    Note,       \* raw inputs saved by save_note and update_note
    Expense,    \* raw inputs behind expenses
    Todo,
    Claim,      \* self claims
    Task,       \* project tasks
    Worker,
    MaxQueued,  \* bound of the model: queued jobs of one kind for one source
    MaxFailures \* bound of the model: jobs that fail, crash or lose their lease

Source == Note \cup Expense \cup Todo \cup Claim \cup Task

\* Notes and todos are rows of their own.
ASSUME RowsAssumption ==
    /\ (Note \cup Todo) \cap (Expense \cup Claim) = {}
    /\ MaxQueued \in Nat /\ MaxFailures \in Nat

VARIABLES
    row,        \* lifecycle of the canonical row
    text,       \* its current text
    card,       \* text of the card that search serves
    queued,     \* jobs waiting, by kind and source
    work,       \* what a worker is doing
    client,     \* is the client that issued the writes active?
    failures,
    lost        \* observation: sources whose last ended job was dead-lettered

vars == <<row, text, card, queued, work, client, failures, lost>>

-----------------------------------------------------------------------------
\* index: enqueued with a write, in the client's name.  trailing: the same
\* handler for a row just tombstoned, in nobody's name.  rebuild: likewise,
\* by the operator.  reconcile: clears the cards that a deletion plan names.
JobKind == {"index", "trailing", "rebuild", "reconcile"}

InClientsName == {"index", "reconcile"}

Text == 0..2

Idle == [stage |-> "idle"]

Job == [stage : {"read", "write", "settle"}, kind : JobKind, source : Source,
        read : Text, held : BOOLEAN]

TypeOK ==
    /\ row \in [Source -> {"absent", "live", "gone"}]
    /\ text \in [Source -> Text]
    /\ card \in [Source -> Text]
    /\ queued \in [JobKind \X Source -> 0..MaxQueued]
    /\ work \in [Worker -> Job \cup {Idle}]
    /\ client \in BOOLEAN
    /\ failures \in 0..MaxFailures
    /\ lost \in SUBSET Source

Init ==
    /\ row = [s \in Source |-> "absent"]
    /\ text = [s \in Source |-> 0]
    /\ card = [s \in Source |-> 0]
    /\ queued = [j \in JobKind \X Source |-> 0]
    /\ work = [w \in Worker |-> Idle]
    /\ client = TRUE
    /\ failures = 0
    /\ lost = {}

-----------------------------------------------------------------------------
\* The jobs J, one of each, join the queue.
Enqueue(J) ==
    /\ \A j \in J : queued[j] < MaxQueued
    /\ queued' = [j \in JobKind \X Source |-> queued[j] + IF j \in J THEN 1 ELSE 0]

\* save_note, add_expense, add_todo, propose_self_claim, start_project_task.
Create(s) ==
    /\ client
    /\ row[s] = "absent"
    /\ row' = [row EXCEPT ![s] = "live"]
    /\ text' = [text EXCEPT ![s] = 1]
    /\ Enqueue({<<"index", s>>})
    /\ UNCHANGED <<card, work, client, failures, lost>>

\* Mutant: no trailing job for the superseded row.
SupersedeJobsWithoutTrailing(s, t) == {<<"index", t>>}

SupersedeJobs(s, t) == {<<"trailing", s>>, <<"index", t>>}

\* update_note and correct_expense: t takes the place of s, in one transaction.
Supersede(s, t) ==
    /\ client
    /\ {s, t} \subseteq Note \/ {s, t} \subseteq Expense
    /\ row[s] = "live"
    /\ row[t] = "absent"
    /\ row' = [row EXCEPT ![s] = "gone", ![t] = "live"]
    /\ text' = [text EXCEPT ![t] = 1]
    /\ card' = [card EXCEPT ![s] = 0]
    /\ Enqueue(SupersedeJobs(s, t))
    /\ UNCHANGED <<work, client, failures, lost>>

\* complete_todo: the text is the same, the index job is enqueued all the same.
\* A tombstone does not stand in its way.
CompleteTodo(s) ==
    /\ client
    /\ s \in Todo
    /\ row[s] # "absent"
    /\ Enqueue({<<"index", s>>})
    /\ UNCHANGED <<row, text, card, work, client, failures, lost>>

\* delete_todo: its ordinary index job is what cleans up behind it.
DeleteTodo(s) ==
    /\ client
    /\ s \in Todo
    /\ row[s] = "live"
    /\ row' = [row EXCEPT ![s] = "gone"]
    /\ card' = [card EXCEPT ![s] = 0]
    /\ Enqueue({<<"index", s>>})
    /\ UNCHANGED <<text, work, client, failures, lost>>

\* _merge_claims, when the owner approves a merge candidate: the duplicate is
\* superseded and its card deleted.  No job is enqueued.
MergeClaim(s) ==
    /\ client
    /\ s \in Claim
    /\ row[s] = "live"
    /\ row' = [row EXCEPT ![s] = "gone"]
    /\ card' = [card EXCEPT ![s] = 0]
    /\ UNCHANGED <<text, queued, work, client, failures, lost>>

\* finalize_project_task writes the final report into the task; the job that it
\* enqueues is for the change event.
FinalizeTask(s) ==
    /\ client
    /\ s \in Task
    /\ row[s] = "live"
    /\ text[s] = 1
    /\ text' = [text EXCEPT ![s] = 2]
    /\ UNCHANGED <<row, card, queued, work, client, failures, lost>>

\* An approved deletion plan tombstones the row and leaves the cards of the
\* targets it names to reconcile_deletion.  The target of an expense is the
\* expense, the card is that of its raw input: it is among the plan's targets
\* only if the client listed it as a dependent.
GovernedDelete(s, named) ==
    /\ client
    /\ s \notin Task
    /\ s \in Expense \/ named
    /\ row[s] = "live"
    /\ row' = [row EXCEPT ![s] = "gone"]
    /\ Enqueue(IF named THEN {<<"reconcile", s>>} ELSE {})
    /\ UNCHANGED <<text, card, work, client, failures, lost>>

\* The operator rebuilds the index: one job per live row that has no rebuild
\* job under way.
RebuildIndex ==
    LET active == {w \in Worker : work[w] # Idle /\ work[w].held}
        J == {<<"rebuild", s>> : s \in {s \in Source :
                  /\ row[s] = "live"
                  /\ queued[<<"rebuild", s>>] = 0
                  /\ \A w \in active : <<work[w].kind, work[w].source>> # <<"rebuild", s>>}}
    IN  /\ J # {}
        /\ Enqueue(J)
        /\ UNCHANGED <<row, text, card, work, client, failures, lost>>

\* The owner revokes the client.
RevokeClient ==
    /\ client
    /\ client' = FALSE
    /\ UNCHANGED <<row, text, card, queued, work, failures, lost>>

-----------------------------------------------------------------------------
Working(w, stage) == work[w] # Idle /\ work[w].stage = stage

\* A worker claims a job.  The first fence refuses a job in the name of a
\* client that is not active: the job is a dead letter.
ClaimJob(w, j) ==
    /\ work[w] = Idle
    /\ queued[j] > 0
    /\ queued' = [queued EXCEPT ![j] = @ - 1]
    /\ \/ /\ j[1] \in InClientsName => client
          /\ work' = [work EXCEPT ![w] = [stage |-> "read", kind |-> j[1], source |-> j[2],
                                          read |-> 0, held |-> TRUE]]
          /\ UNCHANGED lost
       \/ /\ j[1] \in InClientsName /\ ~client
          /\ lost' = lost \cup {j[2]}
          /\ UNCHANGED work
    /\ UNCHANGED <<row, text, card, client, failures>>

\* Mutant: a source that is gone is skipped and its card left alone.
CardOfGoneLeft(s) == card[s]

CardOfGone(s) == 0

\* The handler's first transaction.  The indexer reads the row; if it is gone
\* it drops the card instead.  Reconciliation is one transaction.
ReadSource(w) ==
    /\ Working(w, "read")
    /\ LET s == work[w].source
       IN  \/ /\ work[w].kind # "reconcile" /\ row[s] = "live"
              /\ work' = [work EXCEPT ![w].stage = "write", ![w].read = text[s]]
              /\ UNCHANGED card
           \/ /\ work[w].kind # "reconcile" /\ row[s] # "live"
              /\ card' = [card EXCEPT ![s] = CardOfGone(s)]
              /\ work' = [work EXCEPT ![w].stage = "settle"]
           \/ /\ work[w].kind = "reconcile"
              /\ card' = [card EXCEPT ![s] = 0]
              /\ work' = [work EXCEPT ![w].stage = "settle"]
    /\ UNCHANGED <<row, text, queued, client, failures, lost>>

\* Mutant: the delete by target runs after the insert.
CardAfterDeleteLast(s, read) == 0

CardAfter(s, read) == read

\* index(): the card is replaced, whatever became of the row or of the lease.
WriteCard(w) ==
    /\ Working(w, "write")
    /\ LET s == work[w].source
       IN  card' = [card EXCEPT ![s] = CardAfter(s, work[w].read)]
    /\ work' = [work EXCEPT ![w].stage = "settle"]
    /\ UNCHANGED <<row, text, queued, client, failures, lost>>

\* The second fence and complete_job.  Either may refuse, but the card is
\* written by then.
Settle(w) ==
    /\ Working(w, "settle")
    /\ lost' = lost \ {work[w].source}
    /\ work' = [work EXCEPT ![w] = Idle]
    /\ UNCHANGED <<row, text, card, queued, client, failures>>

\* Mutant: the job comes back twice.
RequeuedTwice(j) == [queued EXCEPT ![<<j.kind, j.source>>] = @ + 2]

\* The job that a worker gives up is ready again.
Requeued(j) == [queued EXCEPT ![<<j.kind, j.source>>] = @ + 1]

\* The job ends early.  A retryable error or a crash returns it to the queue
\* if the worker still holds it; any other error, or the last attempt, makes
\* it a dead letter.
Retry(w) ==
    /\ work[w] # Idle
    /\ failures < MaxFailures
    /\ failures' = failures + 1
    /\ work[w].held => queued[<<work[w].kind, work[w].source>>] < MaxQueued
    /\ queued' = IF work[w].held THEN Requeued(work[w]) ELSE queued
    /\ work' = [work EXCEPT ![w] = Idle]
    /\ UNCHANGED <<row, text, card, client, lost>>

DeadLetter(w) ==
    /\ Working(w, "read") \/ Working(w, "write")
    /\ failures < MaxFailures
    /\ failures' = failures + 1
    /\ lost' = IF work[w].held THEN lost \cup {work[w].source} ELSE lost
    /\ work' = [work EXCEPT ![w] = Idle]
    /\ UNCHANGED <<row, text, card, queued, client>>

\* The lease runs out: the job is ready again while the worker goes on with it.
LeaseLost(w) ==
    /\ work[w] # Idle
    /\ work[w].held
    /\ failures < MaxFailures
    /\ failures' = failures + 1
    /\ queued[<<work[w].kind, work[w].source>>] < MaxQueued
    /\ queued' = Requeued(work[w])
    /\ work' = [work EXCEPT ![w].held = FALSE]
    /\ UNCHANGED <<row, text, card, client, lost>>

-----------------------------------------------------------------------------
Write ==
    \/ \E s \in Source : Create(s)
    \/ \E s, t \in Source : Supersede(s, t)
    \/ \E s \in Source, named \in BOOLEAN : GovernedDelete(s, named)

\* What happens to todos, claims and tasks beside.
WriteBeside ==
    \E s \in Source : CompleteTodo(s) \/ DeleteTodo(s) \/ MergeClaim(s) \/ FinalizeTask(s)

Step(w) == ReadSource(w) \/ WriteCard(w) \/ Settle(w)

\* The operator and the workers.
Work ==
    \/ RebuildIndex
    \/ RevokeClient
    \/ \E w \in Worker : \/ Step(w) \/ Retry(w) \/ DeadLetter(w) \/ LeaseLost(w)
                         \/ \E j \in JobKind \X Source : ClaimJob(w, j)

Next == Write \/ WriteBeside \/ Work

Spec == Init /\ [][Next]_vars

\* A worker goes on with the job it has, and a queued job is claimed at last:
\* claims go by the time at which a job became available.
Fairness ==
    /\ \A w \in Worker : WF_vars(Step(w))
    /\ \A j \in JobKind \X Source : SF_vars(\E w \in Worker : ClaimJob(w, j))

\* For instances of notes and expenses, to which nothing else happens.
FairSpec == Init /\ [][Write \/ Work]_vars /\ Fairness

-----------------------------------------------------------------------------
\* Nothing is queued or under way for the source.
Quiet(s) ==
    /\ \A k \in JobKind : queued[<<k, s>>] = 0
    /\ \A w \in Worker : work[w] # Idle => work[w].source # s

\* "Absent source => no card" (SearchIndexer.handle), for notes and todos: once
\* the jobs of a superseded or deleted row have run, search does not serve it,
\* whatever index, trailing, rebuild and reconcile jobs interleaved with the
\* tombstone, failed or ran twice.
GoneIsUnlisted ==
    \A s \in Note \cup Todo :
        row[s] = "gone" /\ Quiet(s) /\ s \notin lost => card[s] = 0

\* What is live is served, with its present text, once its jobs have run: no
\* clean-up of another version takes it away.
LiveIsListed ==
    \A s \in Source \ Task :
        row[s] = "live" /\ Quiet(s) /\ s \notin lost => card[s] = text[s]

\* Search and the canonical rows agree at last and from then on, unless a job
\* was dead-lettered: a stale writer, a retry or a rebuild can disturb a card
\* only for a while.  Of claims and expenses this is true while they live.
AgreeAtLast ==
    \A s \in Source \ Task :
        <>[](\/ s \in lost
             \/ card[s] = IF row[s] = "live" THEN text[s] ELSE 0
             \/ s \in Claim \cup Expense /\ row[s] = "gone")

\* "Its retrieval card stops being served" (_merge_claims).  The code does not
\* keep it: no trailing job follows the merge (README, Deviations).
MergedIsUnlisted ==
    \A s \in Claim : row[s] = "gone" /\ Quiet(s) /\ s \notin lost => card[s] = 0

\* ER-09: a confirmed target leaves ordinary retrieval.  Not kept: an expense's
\* raw input, or a client revoked meanwhile (README, Deviations).
DeletedIsUnlisted ==
    \A s \in Source : row[s] = "gone" /\ Quiet(s) => card[s] = 0

\* "The index always reflects the latest state" (build_job_recheck).  Not kept
\* for the final report of a task (README, Deviations).
TaskIsListed ==
    \A s \in Task : row[s] = "live" /\ Quiet(s) /\ s \notin lost => card[s] = text[s]

-----------------------------------------------------------------------------
Awaited(s) == \E k \in JobKind : queued[<<k, s>>] > 0

\* Jobs are for rows that were written, reconciliation for rows that are gone.
JobsInv ==
    /\ \A k \in JobKind, s \in Source :
          queued[<<k, s>>] > 0 => row[s] # "absent" /\ (k = "reconcile" => row[s] = "gone")
    /\ \A w \in Worker : work[w] # Idle =>
          /\ row[work[w].source] # "absent"
          /\ work[w].kind = "reconcile" => row[work[w].source] = "gone" /\ ~Working(w, "write")

\* A row that is live has its card, or a job is to write it; what a run has read of it
\* is its text, and what a run has written is its card.
ListedInv ==
    /\ \A s \in Source \ Task : row[s] = "live" =>
          \/ card[s] = text[s] \/ s \in lost \/ Awaited(s)
          \/ \E w \in Worker : work[w] # Idle /\ work[w].held /\ work[w].source = s
    /\ \A w \in Worker : work[w] # Idle /\ work[w].source \notin Task /\ row[work[w].source] = "live" =>
          /\ Working(w, "write") => work[w].read = text[work[w].source]
          /\ Working(w, "settle") => card[work[w].source] = text[work[w].source]

\* A row that is gone has no card, or a job is yet to look at it; one that went while a
\* run was past its look has left a job behind that run.
UnlistedInv ==
    /\ \A s \in Note \cup Todo : row[s] = "gone" =>
          \/ card[s] = 0 \/ s \in lost \/ Awaited(s)
          \/ \E w \in Worker : Working(w, "read") /\ work[w].held /\ work[w].source = s
    /\ \A w \in Worker :
          work[w] # Idle /\ work[w].source \in Note \cup Todo /\ row[work[w].source] = "gone" =>
             /\ Working(w, "write") => Awaited(work[w].source)
             /\ Working(w, "settle") => card[work[w].source] = 0 \/ Awaited(work[w].source)

\* Compose starts one worker.
OneWorker == \A v, w \in Worker : v = w

\* The inductive invariant; that what is gone is unlisted needs that one worker runs.
IndInv == TypeOK /\ JobsInv /\ ListedInv /\ (OneWorker => UnlistedInv)
=============================================================================

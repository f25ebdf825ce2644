----------------------------- MODULE MCWorkers -----------------------------
(***************************************************************************)
(* The worker's day: the schedule that enqueues the daily jobs, and the    *)
(* jobs that call a model under the day's budget.  The two share no rows   *)
(* but those of the job table, where each has its own; one run takes the   *)
(* behaviours of each in turn: `desk' says whose turn it is, and the       *)
(* variables of the other are 0.                                           *)
(***************************************************************************)
EXTENDS Scheduler, FiniteSets, TLC

CONSTANTS
    digest, promote, dedupe,                            \* schedules
    Extract, Digest, Scope, Quota, LlmDays, MaxRuns     \* module LlmJobs

\* A note and a digest have rows of different tables.
ASSUME ModelsAssumption ==
    /\ IsFiniteSet(Extract) /\ IsFiniteSet(Digest)
    /\ Extract \cap ((1..LlmDays) \X Scope) = {}
    /\ Quota \in Nat /\ MaxRuns \in Nat /\ LlmDays \in Nat \ {0}

\* One digest is at work: of two when midnight passes, the second is let through once
\* the first was leased again on the new day (README, Deviations).
ASSUME OneDigest == \A g, h \in Digest : g = h

VARIABLES
    desk,
    llmDay, noted, job, run, derived, cards, admitted, covered, struck

L == INSTANCE LlmJobs WITH day <- llmDay, LastDay <- LlmDays

llmVars == <<llmDay, noted, job, run, derived, cards, admitted, covered, struck>>

workersVars == <<vars, llmVars, desk>>

\* Three schedules, at the first, a middle and the last slot.
MCSchedule == {digest, promote, dedupe}

MCAt == digest :> 0 @@ promote :> 1 @@ dedupe :> 2

Off(a, b, c) == a = 0 /\ b = 0 /\ c = 0

NoSchedule ==
    /\ Off(day, slot, rows) /\ Off(available, ran, lock) /\ Off(pc, started, todo)
    /\ Off(fresh, ticked, failures)

NoModels ==
    Off(llmDay, noted, job) /\ Off(run, derived, cards) /\ Off(admitted, covered, struck)

WorkersInit ==
    \/ desk = "schedule" /\ Init /\ NoModels
    \/ desk = "models" /\ L!Init /\ NoSchedule

WorkersNext ==
    /\ UNCHANGED desk
    /\ \/ desk = "schedule" /\ Next /\ UNCHANGED llmVars
       \/ desk = "models" /\ L!Next /\ UNCHANGED vars

WorkersSpec == WorkersInit /\ [][WorkersNext]_workersVars

\* Workers are interchangeable, and so are extractions and scopes.
Symmetry == Permutations(Worker) \cup Permutations(Extract) \cup Permutations(Scope)

\* Bound of the model: two scopes are digested when no extraction competes for the
\* budget; with one, only one of the jobs is retried.
ScopesOrExtracts ==
    \/ desk # "models"
    \/ noted = {} /\ \A g \in Digest : job[g].runs = 0
    \/ \A e \in Extract : job[e].runs = 0
    \/ Cardinality(noted) = 1 /\ Cardinality({j \in Extract \cup Digest : job[j].runs > 1}) <= 1

\* Every variable has its type; the key of a schedule's day never has two rows, a
\* schedule that was due when a committed tick started has its row, and no job is
\* claimed before its time: the inductive invariants of either side hold.
ScheduleSound == IF desk = "models" THEN L!IndInv ELSE IndInv

\* Of the jobs leased on a day, no more than the quota get past the check of the
\* budget on that day.
BudgetHolds == desk = "models" => L!BudgetHolds

\* A day whose digest was gone through has a digest for every scope that recorded
\* something, and each is indexed unless a run stopped just before.
DigestsAreComplete == desk = "models" => L!DigestsAreComplete
=============================================================================

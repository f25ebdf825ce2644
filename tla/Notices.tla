------------------------------ MODULE Notices ------------------------------
(***************************************************************************)
(* Notices to the owner: a review item that waits for a verdict, jobs that *)
(* ended as dead letters, and the dispatch job that delivers a notice to   *)
(* the inbox.                                                              *)
(*                                                                         *)
(* A handler looks for a notice with the same key and inserts one in the   *)
(* same READ COMMITTED transaction; no unique index backs the look-up.  A  *)
(* run that loses its lease goes on beside the run that replaces it.  A    *)
(* dispatch that is repeated finds the notice delivered and ends as a dead *)
(* letter, which the next health check reports.                            *)
(*                                                                         *)
(* Time is counted in ticks; a cooldown is Cooldown ticks and a day, whose *)
(* date is part of a health notice's key, DayLength ticks.                 *)
(***************************************************************************)
EXTENDS Naturals, FiniteSets, Sequences

CONSTANTS
    Item,       \* review items, each with its notify_review job
    Health,     \* health_check jobs
    Worker,
    MaxRuns,    \* max_attempts
    Cooldown,   \* cooldown_minutes
    DayLength,
    MaxTick,    \* bound of the model: ticks
    MaxNotices  \* bound of the model: notices

VARIABLES
    tick,       \* the clock
    open,       \* review items without a verdict
    notices,    \* the notifications table, in order of insertion
    job,        \* notify, health and dispatch jobs
    run         \* what a worker is at

vars == <<tick, open, notices, job, run>>

-----------------------------------------------------------------------------
\* Dispatch jobs are named by the notice that they deliver.
Dispatch == 1..MaxNotices

Job == Item \cup Health \cup Dispatch

HealthKey(t) == <<"health", t \div DayLength>>

Key == {HealthKey(t) : t \in 0..MaxTick} \cup {<<"item", i>> : i \in Item}

\* saw: observation, the notices committed when the run that wrote it looked.
Notice == [key : Key, created : 0..MaxTick, state : {"queued", "delivered"}, saw : 0..MaxNotices]

JobRow == [state : {"none", "queued", "leased", "succeeded", "dead"}, holder : SUBSET Worker,
           runs : 0..MaxRuns]

NoRun == [stage |-> "idle"]

Run == [stage : {"insert", "done", "refused"}, job : Job, moment : 0..MaxTick,
        saw : 0..MaxNotices]

TypeOK ==
    /\ tick \in 0..MaxTick
    /\ open \in SUBSET Item
    /\ notices \in Seq(Notice) /\ Len(notices) <= MaxNotices
    /\ job \in [Job -> JobRow]
    /\ run \in [Worker -> Run \cup {NoRun}]

\* The items are open with their jobs queued, the health checks of the day too.
Init ==
    /\ tick = 0
    /\ open = Item
    /\ notices = <<>>
    /\ job = [j \in Job |-> [state |-> IF j \in Dispatch THEN "none" ELSE "queued",
                             holder |-> {}, runs |-> 0]]
    /\ run = [w \in Worker |-> NoRun]

-----------------------------------------------------------------------------
Tick ==
    /\ tick < MaxTick
    /\ tick' = tick + 1
    /\ UNCHANGED <<open, notices, job, run>>

\* The owner's verdict; it leaves the item's version as it is, so that the
\* recheck of the notify job before and after its run never differs.
Resolve(i) ==
    /\ i \in open
    /\ open' = open \ {i}
    /\ UNCHANGED <<tick, notices, job, run>>

\* A worker leases a job that waits, or one whose lease has run out; what it does
\* first is part of the step.
ClaimJob(w, j) ==
    /\ run[w] = NoRun
    /\ job[j].state = "queued" \/ (job[j].state = "leased" /\ job[j].runs < MaxRuns)
    /\ job' = [job EXCEPT ![j] = [state |-> "leased", holder |-> {w}, runs |-> @.runs + 1]]

\* The lease of the last attempt runs out.
Exhaust(j) ==
    /\ job[j].state = "leased"
    /\ job[j].runs = MaxRuns
    /\ job' = [job EXCEPT ![j].state = "dead", ![j].holder = {}]
    /\ UNCHANGED <<tick, open, notices, run>>

At(w, stage) == run[w].stage = stage

To(w, stage) == run' = [run EXCEPT ![w].stage = stage]

\* The run of the job that w leases goes on at the stage.
Starts(w, j, stage) ==
    run' = [run EXCEPT ![w] = [stage |-> stage, job |-> j,
                               moment |-> IF stage = "insert" THEN tick ELSE 0,
                               saw |-> IF stage = "insert" THEN Len(notices) ELSE 0]]

\* Mutant: only notices that wait for their delivery are looked at.
WithKeyQueued(k) == {n \in DOMAIN notices : notices[n].key = k /\ notices[n].state = "queued"}

\* Mutant: notices are looked up by their group.
WithKeyGroup(k) == {n \in DOMAIN notices : notices[n].key[1] = k[1]}

\* The notices with the dedupe key.
WithKey(k) == {n \in DOMAIN notices : notices[n].key = k}

\* inbox_only: a closed item, or one with a notice, needs none.
ReadItem(w, i) ==
    /\ ClaimJob(w, i)
    /\ Starts(w, i, IF i \notin open \/ WithKey(<<"item", i>>) # {} THEN "done" ELSE "insert")
    /\ UNCHANGED <<tick, open, notices>>

\* decide_send, over the notice of the day that was sent last.
Cooled == \A n \in WithKey(HealthKey(tick)) : tick - notices[n].created >= Cooldown

\* health_check: dead letters are reported, again only after the cooldown.
ReadHealth(w, h) ==
    /\ ClaimJob(w, h)
    /\ Starts(w, h, IF (\E j \in Job : job[j].state = "dead") /\ Cooled THEN "insert" ELSE "done")
    /\ UNCHANGED <<tick, open, notices>>

KeyOf(w) == IF run[w].job \in Item THEN <<"item", run[w].job>> ELSE HealthKey(run[w].moment)

\* The notice and its dispatch job, in one commit.
Insert(w) ==
    /\ At(w, "insert")
    /\ Len(notices) < MaxNotices
    /\ notices' = Append(notices, [key |-> KeyOf(w), created |-> run[w].moment,
                                   state |-> "queued", saw |-> run[w].saw])
    /\ job' = [job EXCEPT ![Len(notices) + 1].state = "queued"]
    /\ To(w, "done")
    /\ UNCHANGED <<tick, open>>

\* dispatch_notification: queued to delivered, or VERSION_CONFLICT.
Deliver(w, n) ==
    /\ ClaimJob(w, n)
    /\ IF notices[n].state = "queued"
       THEN notices' = [notices EXCEPT ![n].state = "delivered"] /\ Starts(w, n, "done")
       ELSE UNCHANGED notices /\ Starts(w, n, "refused")
    /\ UNCHANGED <<tick, open>>

\* complete_job, or fail_job for good, under the token of the lease.
Settle(w) ==
    /\ At(w, "done") \/ At(w, "refused")
    /\ LET j == run[w].job IN
       job' = IF w \in job[j].holder
              THEN [job EXCEPT ![j].state = IF At(w, "done") THEN "succeeded" ELSE "dead",
                               ![j].holder = {}]
              ELSE job
    /\ run' = [run EXCEPT ![w] = NoRun]
    /\ UNCHANGED <<tick, open, notices>>

Crash(w) ==
    /\ run[w] # NoRun
    /\ run' = [run EXCEPT ![w] = NoRun]
    /\ UNCHANGED <<tick, open, notices, job>>

Next ==
    \/ Tick
    \/ \E i \in Item : Resolve(i)
    \/ \E j \in Job : Exhaust(j)
    \/ \E w \in Worker :
          \/ \E i \in Item : ReadItem(w, i)
          \/ \E h \in Health : ReadHealth(w, h)
          \/ \E n \in Dispatch : Deliver(w, n)
          \/ Insert(w)
          \/ Settle(w)
          \/ Crash(w)

Spec == Init /\ [][Next]_vars

-----------------------------------------------------------------------------
\* An item is noticed once, and dead letters once per cooldown within a day: two
\* notices with one key are that far apart, or were written by runs that overlapped,
\* the later one having looked before the earlier one was committed.
RepeatsOverlap ==
    \A m, n \in DOMAIN notices :
        /\ m < n
        /\ notices[m].key = notices[n].key
        /\ notices[m].key[1] = "item" \/ notices[n].created - notices[m].created < Cooldown
        => notices[n].saw < m

\* The owner learns of it: an item whose job succeeded has a notice unless its
\* verdict is in, and a notice is delivered once its dispatch job is over, by success
\* or by a conflict; only a dispatch that used up its attempts may leave one behind.
OwnerLearns ==
    /\ \A i \in open : job[i].state = "succeeded" =>
          \E n \in DOMAIN notices : notices[n].key = <<"item", i>>
    /\ \A n \in DOMAIN notices :
          job[n].state = "succeeded" \/ (job[n].state = "dead" /\ job[n].runs < MaxRuns)
          => notices[n].state = "delivered"

\* A job waits before its first run; a dispatch job is there once its notice is.
JobsInv ==
    /\ \A j \in Job : job[j].state \in {"none", "queued"} => job[j].runs = 0
    /\ \A n \in Dispatch : job[n].state = "none" <=> n > Len(notices)

\* What a run that will insert a notice has seen, and what one that is over did.
RunSound(w) ==
    /\ At(w, "insert") =>
          /\ run[w].job \notin Dispatch
          /\ run[w].saw <= Len(notices)
          /\ \A m \in 1..run[w].saw : notices[m].key = KeyOf(w) =>
                run[w].job \in Health /\ run[w].moment - notices[m].created >= Cooldown
    /\ (At(w, "done") \/ At(w, "refused")) /\ run[w].job \in Dispatch =>
          run[w].job <= Len(notices) /\ notices[run[w].job].state = "delivered"
    /\ At(w, "done") /\ run[w].job \in open =>
          \E m \in DOMAIN notices : notices[m].key = <<"item", run[w].job>>
    /\ At(w, "refused") => run[w].job \in Dispatch

RunsInv == \A w \in Worker : RunSound(w)

\* The inductive invariant: types, jobs, runs, and what they make of the notices.
IndInv == TypeOK /\ JobsInv /\ RunsInv /\ RepeatsOverlap /\ OwnerLearns
=============================================================================

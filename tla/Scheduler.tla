----------------------------- MODULE Scheduler ------------------------------
(***************************************************************************)
(* The in-worker cron (scheduler.py): each worker's tick enqueues the      *)
(* daily jobs that are due, one per schedule and local day, with the jobs  *)
(* table itself as the record of what was enqueued.  One owner: another    *)
(* one only adds keys of its own.                                          *)
(*                                                                         *)
(* A tick is one transaction: for each key it takes an advisory lock that  *)
(* it keeps until the end, counts the committed rows with that key, and    *)
(* inserts one if there is none.  Time goes on meanwhile, midnight         *)
(* included.                                                               *)
(***************************************************************************)
EXTENDS Naturals

CONSTANTS
    Schedule,   \* job types with a daily schedule
    At,         \* the time of day of each schedule
    Worker,
    LastSlot,   \* a day is the slots 0..LastSlot; a slot is a tick interval
    LastDay,    \* bound of the model: days
    MaxFailures \* bound of the model: ticks and jobs that fail

ASSUME ScheduleAssumption ==
    LastSlot \in Nat /\ LastDay \in Nat /\ MaxFailures \in Nat /\ At \in [Schedule -> 0..LastSlot]

VARIABLES
    day, slot,  \* local time
    rows,       \* how many jobs were committed under a key
    available,  \* when the job of a key may be claimed
    ran,        \* keys whose job succeeded
    lock,       \* workers that hold a key's advisory lock
    pc,
    started,    \* when a worker's last tick started
    todo,       \* keys that a tick has yet to go through
    fresh,      \* keys that a tick inserted, uncommitted
    ticked,     \* observation: when the committed ticks started
    failures

vars == <<day, slot, rows, available, ran, lock, pc, started, todo, fresh, ticked, failures>>

-----------------------------------------------------------------------------
Day == 0..LastDay

Slot == 0..LastSlot

\* schedule_key.
Key == Schedule \X Day

Never == <<>>

Instant(d, s) == d * (LastSlot + 1) + s

Now == Instant(day, slot)

TypeOK ==
    /\ day \in Day /\ slot \in Slot
    /\ rows \in [Key -> Nat]
    /\ available \in [Key -> 0..(Instant(LastDay, LastSlot) + 1)]
    /\ ran \in SUBSET Key
    /\ lock \in [Key -> SUBSET Worker]
    /\ pc \in [Worker -> {"idle", "tick"}]
    /\ started \in [Worker -> (Day \X Slot) \cup {Never}]
    /\ todo \in [Worker -> SUBSET Key]
    /\ fresh \in [Worker -> SUBSET Key]
    /\ ticked \in SUBSET (Day \X Slot)
    /\ failures \in 0..MaxFailures

Init ==
    /\ day = 0 /\ slot \in Slot
    /\ rows = [k \in Key |-> 0]
    /\ available = [k \in Key |-> 0]
    /\ ran = {}
    /\ lock = [k \in Key |-> {}]
    /\ pc = [w \in Worker |-> "idle"]
    /\ started = [w \in Worker |-> Never]
    /\ todo = [w \in Worker |-> {}]
    /\ fresh = [w \in Worker |-> {}]
    /\ ticked = {}
    /\ failures = 0

-----------------------------------------------------------------------------
TimePasses ==
    /\ \/ slot < LastSlot /\ slot' = slot + 1 /\ UNCHANGED day
       \/ slot = LastSlot /\ day < LastDay /\ slot' = 0 /\ day' = day + 1
    /\ UNCHANGED <<rows, available, ran, lock, pc, started, todo, fresh, ticked, failures>>

\* Mutant: a job is due only after its minute.
DueLate(s) == slot > At[s]

\* schedule_due.
Due(s) == slot >= At[s]

\* A tick starts, unless the worker's last one was less than an interval ago.
StartTick(w) ==
    /\ pc[w] = "idle"
    /\ started[w] # <<day, slot>>
    /\ started' = [started EXCEPT ![w] = <<day, slot>>]
    /\ todo' = [todo EXCEPT ![w] = {s \in Schedule : Due(s)} \X {day}]
    /\ pc' = [pc EXCEPT ![w] = "tick"]
    /\ UNCHANGED <<day, slot, rows, available, ran, lock, fresh, ticked, failures>>

\* Mutant: the tick does not wait for the lock.
LockFreeAlways(k) == TRUE

LockFree(k) == lock[k] = {}

\* The next key in the order of the schedules: its lock, then the count, then
\* the insert.
VisitKey(w, k) ==
    /\ pc[w] = "tick"
    /\ k \in todo[w]
    /\ \A j \in todo[w] : At[k[1]] <= At[j[1]]
    /\ LockFree(k)
    /\ lock' = [lock EXCEPT ![k] = @ \cup {w}]
    /\ todo' = [todo EXCEPT ![w] = @ \ {k}]
    /\ fresh' = [fresh EXCEPT ![w] = IF rows[k] = 0 THEN @ \cup {k} ELSE @]
    /\ UNCHANGED <<day, slot, rows, available, ran, pc, started, ticked, failures>>

EndTick(w) ==
    /\ lock' = [k \in Key |-> lock[k] \ {w}]
    /\ todo' = [todo EXCEPT ![w] = {}]
    /\ fresh' = [fresh EXCEPT ![w] = {}]
    /\ pc' = [pc EXCEPT ![w] = "idle"]

\* Mutant: the rows go under the day on which they are committed.
WrittenLate(w) == {<<k[1], day>> : k \in fresh[w]}

\* The keys that a tick writes: of the day on which it started.
Written(w) == fresh[w]

CommitTick(w) ==
    /\ pc[w] = "tick"
    /\ todo[w] = {}
    /\ rows' = [k \in Key |-> rows[k] + IF k \in Written(w) THEN 1 ELSE 0]
    /\ available' = [k \in Key |-> IF k \in Written(w)
                                   THEN Instant(started[w][1], started[w][2]) ELSE available[k]]
    /\ ticked' = ticked \cup {started[w]}
    /\ EndTick(w)
    /\ UNCHANGED <<day, slot, ran, started, failures>>

\* The database fails or the worker dies.  No exception of a tick is caught: the
\* worker starts anew, with no memory of its last tick.
FailTick(w) ==
    /\ pc[w] = "tick"
    /\ failures < MaxFailures
    /\ failures' = failures + 1
    /\ EndTick(w)
    /\ started' = [started EXCEPT ![w] = Never]
    /\ UNCHANGED <<day, slot, rows, available, ran, ticked>>

-----------------------------------------------------------------------------
Waiting == {k \in Key : rows[k] > 0 /\ k \notin ran /\ available[k] <= Now}

\* Jobs are claimed by the time at which they became available; a job that
\* fails is available again after a delay.
Claimable(k) == k \in Waiting /\ \A j \in Waiting : available[k] <= available[j]

RunJob(k) ==
    /\ Claimable(k)
    /\ ran' = ran \cup {k}
    /\ UNCHANGED <<day, slot, rows, available, lock, pc, started, todo, fresh, ticked, failures>>

\* Mutant: the delay is a day.
RetryAtNextDay == Now + LastSlot + 1

\* The end of the retry delay.
RetryAt == Now + 1

RetryJob(k) ==
    /\ Claimable(k)
    /\ failures < MaxFailures
    /\ failures' = failures + 1
    /\ available' = [available EXCEPT ![k] = RetryAt]
    /\ UNCHANGED <<day, slot, rows, ran, lock, pc, started, todo, fresh, ticked>>

-----------------------------------------------------------------------------
Next ==
    \/ TimePasses
    \/ \E w \in Worker : \/ StartTick(w) \/ CommitTick(w) \/ FailTick(w)
                         \/ \E k \in Key : VisitKey(w, k)
    \/ \E k \in Key : RunJob(k) \/ RetryJob(k)

Spec == Init /\ [][Next]_vars

-----------------------------------------------------------------------------
\* "Repeated ticks or a second worker can never double-enqueue the same day"
\* (module docstring): no key has two jobs.
OncePerDay == \A k \in Key : rows[k] <= 1

\* A tick that commits leaves nothing undone that was due when it started,
\* whoever enqueued it: what an earlier tick missed is caught up within the day.
NothingDueIsMissed ==
    \A t \in ticked : \A s \in Schedule : At[s] <= t[2] => rows[<<s, t[1]>>] > 0

\* No job is enqueued, claimed or run before its time, although a tick may
\* straddle midnight.
NeverEarly ==
    \A k \in Key : rows[k] > 0 \/ k \in ran =>
        Instant(k[2], At[k[1]]) <= available[k] /\ Instant(k[2], At[k[1]]) <= Now

\* "Evolution after it; dedupe last": the jobs of a day run in the order of
\* their schedules.  Not kept (README, Deviations).
RunInOrder ==
    \A j, k \in Key : j[2] = k[2] /\ At[j[1]] < At[k[1]] /\ k \in ran => j \in ran
-----------------------------------------------------------------------------
\* A tick is not from the future; outside a tick nothing is held, and within one the
\* keys are those of schedules that were due on the day on which it started.
TickInv ==
    \A w \in Worker :
        /\ started[w] # Never => Instant(started[w][1], started[w][2]) <= Now
        /\ pc[w] = "idle" => todo[w] = {} /\ fresh[w] = {}
        /\ pc[w] = "tick" => started[w] # Never
        /\ \A k \in todo[w] \cup fresh[w] : k[2] = started[w][1] /\ At[k[1]] <= started[w][2]

\* Every schedule that was due is yet to be visited, is about to be written, or has
\* its row.
CatchesUp ==
    \A w \in Worker : pc[w] = "tick" =>
        \A s \in Schedule : At[s] <= started[w][2] =>
            LET k == <<s, started[w][1]>> IN k \in todo[w] \cup fresh[w] \/ rows[k] > 0

\* Whoever is about to write a row found none, and keeps the key locked.
LocksInv ==
    /\ \A k \in Key : \A v, w \in lock[k] : v = w
    /\ \A w \in Worker : \A k \in fresh[w] : w \in lock[k] /\ rows[k] = 0

\* The inductive invariant of the proofs.
IndInv ==
    /\ TypeOK
    /\ TickInv
    /\ CatchesUp
    /\ LocksInv
    /\ OncePerDay
    /\ NothingDueIsMissed
    /\ NeverEarly
=============================================================================

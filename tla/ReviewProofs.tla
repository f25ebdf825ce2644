---------------------------- MODULE ReviewProofs ----------------------------
(***************************************************************************)
(* The review inbox for any claims, items, jobs and workers: the notices,  *)
(* the confirmations and the conflicts.  The inductive invariants are      *)
(* checked by the run of MCReview; the theorems at the end are about the   *)
(* specification of that run.                                              *)
(***************************************************************************)
EXTENDS MCReview, Sequences, FiniteSetTheorems, TLAPS

(***************************************************************************)
(* Notices.                                                                *)
(***************************************************************************)
\* The three sorts of jobs share none, and an item's key is no health check's.
LEMMA JobSorts ==
    /\ \A i \in Item : i \notin Health /\ i \notin N!Dispatch /\ i \in N!Job
    /\ \A h \in Health : h \notin N!Dispatch /\ h \in N!Job
    /\ \A d \in N!Dispatch : d \in N!Job /\ d \in Nat
    /\ \A i \in Item : \A t : <<"item", i>> # N!HealthKey(t)
    /\ \A t : N!HealthKey(t)[1] # "item"
<1>1. \A i \in Item : \A t : <<"item", i>> # N!HealthKey(t)
  BY DEF N!HealthKey
<1>2. \A t : N!HealthKey(t)[1] # "item"
  BY DEF N!HealthKey
<1>3. \A d \in N!Dispatch : d \in N!Job /\ d \in Nat
  BY NoticesAssumption DEF N!Dispatch, N!Job
<1> QED BY <1>1, <1>2, <1>3, NoticesAssumption DEF N!Dispatch, N!Job

\* The fields of a run that is under way.
LEMMA RunTypes ==
    ASSUME N!TypeOK, NEW w \in Sender, run[w] # N!NoRun
    PROVE  /\ run[w] \in N!Run
           /\ run[w].job \in N!Job /\ run[w].moment \in 0..MaxTick /\ run[w].saw \in 0..MaxNotices
           /\ run[w].stage \in {"insert", "done", "refused"}
BY DEF N!TypeOK, N!Run

\* A run at a stage is under way.
LEMMA AtARun ==
    ASSUME NEW w \in Sender
    PROVE  N!At(w, "insert") \/ N!At(w, "done") \/ N!At(w, "refused") => run[w] # N!NoRun
BY DEF N!At, N!NoRun

\* The initial states satisfy the inductive invariant.
LEMMA NoticesInit == N!Init => N!IndInv
<1> SUFFICES ASSUME N!Init PROVE N!IndInv
  OBVIOUS
<1> USE DEF N!Init
<1>1. N!TypeOK
  BY NoticesAssumption DEF N!TypeOK, N!JobRow
<1>2. N!JobsInv
  <2>1. \A j \in N!Job : job[j].runs = 0
    OBVIOUS
  <2>2. \A d \in N!Dispatch : job[d].state = "none" <=> d > Len(notices)
    BY JobSorts, NoticesAssumption DEF N!Dispatch
  <2> QED BY <2>1, <2>2 DEF N!JobsInv
<1>3. N!RunsInv
  BY AtARun DEF N!RunsInv, N!RunSound
<1>4. N!RepeatsOverlap
  BY DEF N!RepeatsOverlap
<1>5. N!OwnerLearns
  BY JobSorts DEF N!OwnerLearns
<1> QED BY <1>1, <1>2, <1>3, <1>4, <1>5 DEF N!IndInv

\* A notice is in the table, with its fields.
LEMMA NoticeTypes ==
    ASSUME N!TypeOK, NEW m \in 1..Len(notices)
    PROVE  /\ notices[m] \in N!Notice /\ notices[m].created \in 0..MaxTick
           /\ notices[m].state \in {"queued", "delivered"} /\ notices[m].saw \in 0..MaxNotices
           /\ m \in N!Dispatch /\ m \in DOMAIN notices
<1>1. notices \in Seq(N!Notice) /\ Len(notices) <= MaxNotices /\ Len(notices) \in Nat
  BY DEF N!TypeOK
<1>2. notices[m] \in N!Notice
  BY <1>1
<1>3. m \in N!Dispatch /\ m \in DOMAIN notices
  BY <1>1, NoticesAssumption DEF N!Dispatch
<1> QED BY <1>2, <1>3 DEF N!Notice

\* What a run has seen stays so while notices are added or delivered and items closed.
LEMMA OtherRuns ==
    ASSUME N!TypeOK, NEW v \in Sender, N!RunSound(v), run'[v] = run[v],
           open' \subseteq open,
           Len(notices) \in Nat, Len(notices') \in Nat, Len(notices) <= Len(notices'),
           DOMAIN notices = 1..Len(notices), DOMAIN notices' = 1..Len(notices'),
           \A m \in 1..Len(notices) :
              /\ notices'[m].key = notices[m].key /\ notices'[m].created = notices[m].created
              /\ notices[m].state = "delivered" => notices'[m].state = "delivered"
    PROVE  N!RunSound(v)'
<1>1. \A s : N!At(v, s)' <=> N!At(v, s)
  BY DEF N!At
<1>2. N!KeyOf(v)' = N!KeyOf(v)
  BY DEF N!KeyOf, N!HealthKey
<1>3. CASE N!At(v, "insert")
  <2>1. run[v].saw \in 0..MaxNotices
    BY <1>3, AtARun, RunTypes
  <2>2. /\ run[v].job \notin N!Dispatch /\ run[v].saw <= Len(notices)
        /\ \A m \in 1..run[v].saw : notices[m].key = N!KeyOf(v) =>
              run[v].job \in Health /\ run[v].moment - notices[m].created >= Cooldown
    BY <1>3 DEF N!RunSound
  <2>3. \A m \in 1..run[v].saw : m \in 1..Len(notices)
    BY <2>1, <2>2, NoticesAssumption
  <2>4. \A m \in 1..run'[v].saw : notices'[m].key = N!KeyOf(v)' =>
              run'[v].job \in Health /\ run'[v].moment - notices'[m].created >= Cooldown
    BY <1>2, <2>2, <2>3
  <2>5. run'[v].job \notin N!Dispatch /\ run'[v].saw <= Len(notices')
    BY <2>1, <2>2, NoticesAssumption
  <2>6. ~N!At(v, "done")' /\ ~N!At(v, "refused")'
    BY <1>3 DEF N!At
  <2> QED BY <2>4, <2>5, <2>6 DEF N!RunSound, N!Dispatch
<1>4. CASE ~N!At(v, "insert")
  <2>1. ASSUME N!At(v, "done") \/ N!At(v, "refused"), run[v].job \in N!Dispatch
        PROVE  run[v].job <= Len(notices') /\ notices'[run[v].job].state = "delivered"
    <3>1. run[v].job <= Len(notices) /\ notices[run[v].job].state = "delivered"
      BY <2>1 DEF N!RunSound
    <3>2. run[v].job \in 1..Len(notices)
      BY <2>1, <3>1, NoticesAssumption DEF N!Dispatch
    <3> QED BY <3>1, <3>2
  <2>2. ASSUME N!At(v, "done"), run[v].job \in open
        PROVE  \E m \in 1..Len(notices') : notices'[m].key = <<"item", run[v].job>>
    <3>1. PICK m \in 1..Len(notices) : notices[m].key = <<"item", run[v].job>>
      BY <2>2 DEF N!RunSound
    <3> QED BY <3>1
  <2>3. N!At(v, "refused") => run[v].job \in N!Dispatch
    BY DEF N!RunSound
  <2> QED BY <1>1, <1>4, <2>1, <2>2, <2>3 DEF N!RunSound, N!Dispatch
<1> QED BY <1>3, <1>4

\* The same, when neither notices nor items change.
LEMMA RunsStay ==
    ASSUME N!TypeOK, NEW v \in Sender, N!RunSound(v), run'[v] = run[v],
           UNCHANGED notices, open' \subseteq open
    PROVE  N!RunSound(v)'
<1>1. Len(notices) \in Nat /\ DOMAIN notices = 1..Len(notices)
  BY DEF N!TypeOK
<1> QED BY <1>1, OtherRuns

\* A lease that is taken changes the job alone, which was not over.
LEMMA Leases ==
    ASSUME N!TypeOK, N!JobsInv, NEW w \in Sender, NEW j \in N!Job, N!ClaimJob(w, j)
    PROVE  /\ job' \in [N!Job -> N!JobRow]
           /\ job[j].state \in {"queued", "leased"} /\ job'[j].state = "leased"
           /\ \A k \in N!Job : k # j => job'[k] = job[k]
           /\ run[w] = N!NoRun
<1>1. /\ run[w] = N!NoRun
      /\ job[j].state = "queued" \/ (job[j].state = "leased" /\ job[j].runs < MaxRuns)
      /\ job' = [job EXCEPT ![j] = [state |-> "leased", holder |-> {w}, runs |-> job[j].runs + 1]]
  BY DEF N!ClaimJob
<1>2. job[j] \in N!JobRow /\ (job[j].state = "queued" => job[j].runs = 0)
  BY DEF N!TypeOK, N!JobsInv
<1>3. job[j].runs + 1 \in 0..MaxRuns
  BY <1>1, <1>2, NoticesAssumption DEF N!JobRow
<1>4. [state |-> "leased", holder |-> {w}, runs |-> job[j].runs + 1] \in N!JobRow
  BY <1>3 DEF N!JobRow
<1> QED BY <1>1, <1>4 DEF N!TypeOK

\* What a job's new lease leaves: the invariants of jobs and notices.
LEMMA LeaseKeeps ==
    ASSUME N!IndInv, NEW w \in Sender, NEW j \in N!Job, N!ClaimJob(w, j), UNCHANGED <<open, notices>>
    PROVE  N!JobsInv' /\ N!RepeatsOverlap' /\ N!OwnerLearns'
<1> USE DEF N!IndInv
<1>1. N!JobsInv'
  <2>1. \A k \in N!Job : job'[k].state \in {"none", "queued"} => job'[k].runs = 0
    BY Leases DEF N!JobsInv
  <2>2. \A d \in N!Dispatch : job'[d].state = "none" <=> d > Len(notices')
    BY Leases, JobSorts DEF N!JobsInv
  <2> QED BY <2>1, <2>2 DEF N!JobsInv, N!Job, N!Dispatch
<1>2. N!RepeatsOverlap'
  BY DEF N!RepeatsOverlap
<1>3. N!OwnerLearns'
  <2>1. \A i \in open : job'[i].state = "succeeded" => job[i].state = "succeeded"
    BY Leases, JobSorts DEF N!TypeOK
  <2>2. \A m \in DOMAIN notices : m \in N!Job
    BY NoticeTypes, JobSorts DEF N!TypeOK
  <2>3. \A m \in DOMAIN notices : job'[m].state \in {"succeeded", "dead"} => job'[m] = job[m]
    BY <2>2, Leases
  <2> QED BY <2>1, <2>3 DEF N!OwnerLearns
<1> QED BY <1>1, <1>2, <1>3

\* The clock is read when a run starts, and by no invariant.
LEMMA NoticesTick == ASSUME N!IndInv, N!Tick PROVE N!IndInv'
<1> USE DEF N!IndInv
<1>1. tick < MaxTick /\ tick' = tick + 1 /\ UNCHANGED <<open, notices, job, run>>
  BY DEF N!Tick
<1>2. N!TypeOK'
  BY <1>1, NoticesAssumption DEF N!TypeOK
<1>3. N!RunsInv'
  BY <1>1, RunsStay DEF N!RunsInv
<1>4. N!JobsInv' /\ N!RepeatsOverlap' /\ N!OwnerLearns'
  BY <1>1 DEF N!JobsInv, N!RepeatsOverlap, N!OwnerLearns
<1> QED BY <1>2, <1>3, <1>4

\* A verdict closes an item.
LEMMA NoticesResolve == ASSUME N!IndInv, NEW i \in Item, N!Resolve(i) PROVE N!IndInv'
<1> USE DEF N!IndInv
<1>1. open' = open \ {i} /\ UNCHANGED <<tick, notices, job, run>>
  BY DEF N!Resolve
<1>2. N!TypeOK'
  BY <1>1 DEF N!TypeOK
<1>3. N!RunsInv'
  BY <1>1, RunsStay DEF N!RunsInv
<1>4. N!JobsInv' /\ N!RepeatsOverlap' /\ N!OwnerLearns'
  BY <1>1 DEF N!JobsInv, N!RepeatsOverlap, N!OwnerLearns
<1> QED BY <1>2, <1>3, <1>4

\* A job whose attempts are used up may leave its notice behind.
LEMMA NoticesExhaust == ASSUME N!IndInv, NEW j \in N!Job, N!Exhaust(j) PROVE N!IndInv'
<1> USE DEF N!IndInv
<1>1. /\ job[j].state = "leased" /\ job[j].runs = MaxRuns
      /\ job' = [job EXCEPT ![j].state = "dead", ![j].holder = {}]
      /\ UNCHANGED <<tick, open, notices, run>>
  BY DEF N!Exhaust
<1>2. /\ job' \in [N!Job -> N!JobRow]
      /\ job'[j].state = "dead" /\ job'[j].runs = MaxRuns
      /\ \A k \in N!Job : k # j => job'[k] = job[k]
  BY <1>1 DEF N!TypeOK, N!JobRow
<1>3. N!TypeOK'
  BY <1>1, <1>2 DEF N!TypeOK
<1>4. N!RunsInv'
  BY <1>1, RunsStay DEF N!RunsInv
<1>5. N!JobsInv'
  <2>1. \A k \in N!Job : job'[k].state \in {"none", "queued"} => job'[k].runs = 0
    BY <1>2 DEF N!JobsInv
  <2>2. \A d \in N!Dispatch : job'[d].state = "none" <=> d > Len(notices')
    BY <1>1, <1>2, JobSorts DEF N!JobsInv
  <2> QED BY <2>1, <2>2 DEF N!JobsInv, N!Job, N!Dispatch
<1>6. N!RepeatsOverlap'
  BY <1>1 DEF N!RepeatsOverlap
<1>7. N!OwnerLearns'
  <2>1. \A i \in open : job'[i].state = "succeeded" => job[i].state = "succeeded"
    BY <1>2, JobSorts DEF N!TypeOK
  <2>2. \A m \in DOMAIN notices : m \in N!Job
    BY NoticeTypes, JobSorts DEF N!TypeOK
  <2>3. \A m \in DOMAIN notices :
           job'[m].state = "succeeded" \/ (job'[m].state = "dead" /\ job'[m].runs < MaxRuns)
           => job'[m] = job[m]
    BY <1>2, <2>2, NoticesAssumption
  <2> QED BY <1>1, <2>1, <2>3 DEF N!OwnerLearns
<1> QED BY <1>3, <1>4, <1>5, <1>6, <1>7

\* The type of a run that starts.
LEMMA StartsARun ==
    ASSUME N!TypeOK, NEW w \in Sender, NEW j \in N!Job, NEW s \in {"insert", "done", "refused"},
           N!Starts(w, j, s)
    PROVE  /\ run' \in [Sender -> N!Run \cup {N!NoRun}]
           /\ \A v \in Sender : v # w => run'[v] = run[v]
           /\ run'[w].stage = s /\ run'[w].job = j
           /\ s = "insert" => run'[w].moment = tick /\ run'[w].saw = Len(notices)
<1> DEFINE r == [stage |-> s, job |-> j, moment |-> IF s = "insert" THEN tick ELSE 0,
                 saw |-> IF s = "insert" THEN Len(notices) ELSE 0]
<1>1. tick \in 0..MaxTick /\ Len(notices) \in 0..MaxNotices
  BY NoticesAssumption DEF N!TypeOK
<1>2. r \in N!Run
  BY <1>1, NoticesAssumption DEF N!Run
<1>3. run' = [run EXCEPT ![w] = r]
  BY DEF N!Starts
<1>4. run \in [Sender -> N!Run \cup {N!NoRun}]
  BY DEF N!TypeOK
<1>5. r.stage = s /\ r.job = j /\ (s = "insert" => r.moment = tick /\ r.saw = Len(notices))
  OBVIOUS
<1> HIDE DEF r
<1> QED BY <1>2, <1>3, <1>4, <1>5

\* A job that looks for a notice inserts one only if there is none that counts.
LEMMA NoticesReadItem == ASSUME N!IndInv, NEW w \in Sender, NEW i \in Item, N!ReadItem(w, i)
                         PROVE  N!IndInv'
<1> USE DEF N!IndInv
<1>1. PICK s \in {"insert", "done"} :
        /\ s = IF i \notin open \/ N!WithKey(<<"item", i>>) # {} THEN "done" ELSE "insert"
        /\ N!Starts(w, i, s)
  BY DEF N!ReadItem
<1>2. N!ClaimJob(w, i) /\ UNCHANGED <<tick, open, notices>> /\ i \in N!Job
  BY JobSorts DEF N!ReadItem
<1>3. /\ run' \in [Sender -> N!Run \cup {N!NoRun}]
      /\ \A v \in Sender : v # w => run'[v] = run[v]
      /\ run'[w].stage = s /\ run'[w].job = i
      /\ s = "insert" => run'[w].moment = tick /\ run'[w].saw = Len(notices)
  BY <1>1, <1>2, StartsARun
<1>4. N!TypeOK'
  BY <1>2, <1>3, Leases DEF N!TypeOK
<1>5. N!RunSound(w)'
  <2>1. CASE s = "insert"
    <3>1. i \in open /\ N!WithKey(<<"item", i>>) = {}
      BY <1>1, <2>1
    <3>2. N!KeyOf(w)' = <<"item", i>>
      BY <1>3 DEF N!KeyOf
    <3>3. \A m \in 1..Len(notices) : notices[m].key # <<"item", i>>
      BY <3>1, NoticeTypes DEF N!WithKey
    <3> QED BY <1>2, <1>3, <2>1, <3>2, <3>3, JobSorts DEF N!RunSound, N!At, N!Dispatch, N!TypeOK
  <2>2. CASE s = "done"
    <3>1. i \in open => \E m \in DOMAIN notices : notices[m].key = <<"item", i>>
      BY <1>1, <2>2 DEF N!WithKey
    <3> QED BY <1>2, <1>3, <2>2, <3>1, JobSorts DEF N!RunSound, N!At, N!Dispatch
  <2> QED BY <2>1, <2>2
<1>6. N!RunsInv'
  BY <1>2, <1>3, <1>5, RunsStay DEF N!RunsInv
<1> QED BY <1>2, <1>4, <1>6, LeaseKeeps

\* A health check inserts a notice only if those of the day have cooled down.
LEMMA NoticesReadHealth == ASSUME N!IndInv, NEW w \in Sender, NEW h \in Health, N!ReadHealth(w, h)
                           PROVE  N!IndInv'
<1> USE DEF N!IndInv
<1>1. PICK s \in {"insert", "done"} : N!Starts(w, h, s) /\ (s = "insert" => N!Cooled)
  BY DEF N!ReadHealth
<1>2. N!ClaimJob(w, h) /\ UNCHANGED <<tick, open, notices>> /\ h \in N!Job
  BY JobSorts DEF N!ReadHealth
<1>3. /\ run' \in [Sender -> N!Run \cup {N!NoRun}]
      /\ \A v \in Sender : v # w => run'[v] = run[v]
      /\ run'[w].stage = s /\ run'[w].job = h
      /\ s = "insert" => run'[w].moment = tick /\ run'[w].saw = Len(notices)
  BY <1>1, <1>2, StartsARun
<1>4. N!TypeOK'
  BY <1>2, <1>3, Leases DEF N!TypeOK
<1>5. N!RunSound(w)'
  <2>1. CASE s = "insert"
    <3>1. N!KeyOf(w)' = N!HealthKey(tick)
      BY <1>3, <2>1, JobSorts DEF N!KeyOf, N!HealthKey
    <3>2. \A m \in 1..Len(notices) :
             notices[m].key = N!HealthKey(tick) => tick - notices[m].created >= Cooldown
      BY <1>1, <2>1, NoticeTypes DEF N!Cooled, N!WithKey
    <3> QED BY <1>2, <1>3, <2>1, <3>1, <3>2, JobSorts DEF N!RunSound, N!At, N!Dispatch, N!TypeOK
  <2>2. CASE s = "done"
    <3>1. h \notin open
      BY JobSorts DEF N!TypeOK
    <3> QED BY <1>2, <1>3, <2>2, <3>1, JobSorts DEF N!RunSound, N!At, N!Dispatch
  <2> QED BY <2>1, <2>2
<1>6. N!RunsInv'
  BY <1>2, <1>3, <1>5, RunsStay DEF N!RunsInv
<1> QED BY <1>2, <1>4, <1>6, LeaseKeeps

\* A run that is over, or lost, says nothing any more.
LEMMA RunEnds ==
    ASSUME N!IndInv, NEW w \in Sender, run' = [run EXCEPT ![w] = N!NoRun],
           UNCHANGED <<open, notices>>
    PROVE  /\ run' \in [Sender -> N!Run \cup {N!NoRun}]
           /\ N!RunsInv'
<1> USE DEF N!IndInv
<1>1. run'[w] = N!NoRun /\ \A v \in Sender : v # w => run'[v] = run[v]
  BY DEF N!TypeOK
<1>2. N!RunSound(w)'
  BY <1>1 DEF N!RunSound, N!At, N!NoRun
<1>3. N!RunsInv'
  BY <1>1, <1>2, RunsStay DEF N!RunsInv
<1> QED BY <1>3 DEF N!TypeOK

\* A worker that crashes leaves its job leased.
LEMMA NoticesCrash == ASSUME N!IndInv, NEW w \in Sender, N!Crash(w) PROVE N!IndInv'
<1> USE DEF N!IndInv
<1>1. run' = [run EXCEPT ![w] = N!NoRun] /\ UNCHANGED <<tick, open, notices, job>>
  BY DEF N!Crash
<1>2. N!TypeOK'
  BY <1>1, RunEnds DEF N!TypeOK
<1>3. N!JobsInv' /\ N!RepeatsOverlap' /\ N!OwnerLearns'
  BY <1>1 DEF N!JobsInv, N!RepeatsOverlap, N!OwnerLearns
<1> QED BY <1>1, <1>2, <1>3, RunEnds

\* The key of a run that will insert a notice.
LEMMA KeyTypes ==
    ASSUME N!TypeOK, NEW w \in Sender, run[w] # N!NoRun
    PROVE  /\ N!KeyOf(w) \in N!Key
           /\ run[w].job \in Item => N!KeyOf(w) = <<"item", run[w].job>>
           /\ run[w].job \notin Item => N!KeyOf(w) = N!HealthKey(run[w].moment)
<1>1. run[w].moment \in 0..MaxTick
  BY RunTypes
<1> QED BY <1>1 DEF N!KeyOf, N!Key

\* The notice and its dispatch job: a repeat has not seen the notice that it repeats.
LEMMA NoticesInsert == ASSUME N!IndInv, NEW w \in Sender, N!Insert(w) PROVE N!IndInv'
<1> USE DEF N!IndInv
<1>1. PICK k : k = N!KeyOf(w)
  OBVIOUS
<1>2. PICK l : l = Len(notices)
  OBVIOUS
<1>3. PICK new : new = [key |-> k, created |-> run[w].moment, state |-> "queued", saw |-> run[w].saw]
  OBVIOUS
<1>4. /\ N!At(w, "insert") /\ l < MaxNotices
      /\ notices' = Append(notices, new)
      /\ job' = [job EXCEPT ![l + 1].state = "queued"]
      /\ run' = [run EXCEPT ![w].stage = "done"]
      /\ UNCHANGED <<tick, open>>
  BY <1>1, <1>2, <1>3 DEF N!Insert, N!To
<1>5. /\ run[w] # N!NoRun /\ run[w] \in N!Run /\ k \in N!Key
      /\ run[w].job \in N!Job /\ run[w].moment \in 0..MaxTick /\ run[w].saw \in 0..MaxNotices
  BY <1>1, <1>4, AtARun, RunTypes, KeyTypes
<1>6. new \in N!Notice
  BY <1>3, <1>5 DEF N!Notice
<1>7. l \in Nat /\ l + 1 \in N!Dispatch /\ DOMAIN notices = 1..l /\ notices \in Seq(N!Notice)
  BY <1>2, <1>4, NoticesAssumption DEF N!TypeOK, N!Dispatch
<1>8. /\ Len(notices') = l + 1 /\ DOMAIN notices' = 1..(l + 1) /\ notices' \in Seq(N!Notice)
      /\ notices'[l + 1] = new
      /\ \A m \in 1..l : notices'[m] = notices[m]
  BY <1>2, <1>4, <1>6, <1>7
<1>9. /\ run' \in [Sender -> N!Run \cup {N!NoRun}]
      /\ run'[w].stage = "done" /\ run'[w].job = run[w].job
      /\ \A v \in Sender : v # w => run'[v] = run[v]
  BY <1>4, <1>5 DEF N!TypeOK, N!Run
<1>10. l + 1 \in N!Job /\ job[l + 1].state = "none" /\ job[l + 1].runs = 0
  BY <1>2, <1>7, JobSorts DEF N!JobsInv
<1>11. /\ job' \in [N!Job -> N!JobRow]
       /\ job'[l + 1].state = "queued" /\ job'[l + 1].runs = 0
       /\ \A j \in N!Job : j # l + 1 => job'[j] = job[j]
  BY <1>4, <1>10 DEF N!TypeOK, N!JobRow
<1>12. N!TypeOK'
  BY <1>4, <1>7, <1>8, <1>9, <1>11, NoticesAssumption DEF N!TypeOK
<1>13. N!JobsInv'
  <2>1. \A j \in N!Job : job'[j].state \in {"none", "queued"} => job'[j].runs = 0
    BY <1>11 DEF N!JobsInv
  <2>2. ASSUME NEW d \in N!Dispatch PROVE job'[d].state = "none" <=> d > Len(notices')
    <3>1. CASE d = l + 1
      BY <1>7, <1>8, <1>11, <3>1
    <3>2. CASE d # l + 1
      <4>1. job'[d] = job[d] /\ (job[d].state = "none" <=> d > l)
        BY <1>2, <1>11, <3>2, JobSorts DEF N!JobsInv
      <4> QED BY <1>7, <1>8, <3>2, <4>1, JobSorts
    <3> QED BY <3>1, <3>2
  <2> QED BY <2>1, <2>2 DEF N!JobsInv, N!Job, N!Dispatch
<1>14. ASSUME NEW v \in Sender PROVE N!RunSound(v)'
  <2>1. CASE v # w
    BY <1>2, <1>4, <1>7, <1>8, <1>9, <2>1, OtherRuns DEF N!RunsInv
  <2>2. CASE v = w
    <3>1. run[w].job \notin N!Dispatch
      BY <1>4 DEF N!RunsInv, N!RunSound
    <3>2. ASSUME run[w].job \in open
          PROVE  \E m \in DOMAIN notices' : notices'[m].key = <<"item", run[w].job>>
      <4>1. k = <<"item", run[w].job>>
        BY <1>1, <1>5, <3>2, KeyTypes DEF N!TypeOK
      <4>2. l + 1 \in DOMAIN notices' /\ notices'[l + 1].key = k
        BY <1>3, <1>7, <1>8
      <4> QED BY <4>1, <4>2
    <3> QED BY <1>4, <1>9, <2>2, <3>1, <3>2 DEF N!RunSound, N!At, N!Dispatch
  <2> QED BY <2>1, <2>2
<1>15. N!RepeatsOverlap'
  <2> SUFFICES ASSUME NEW m \in 1..(l + 1), NEW p \in 1..(l + 1), m < p,
                      notices'[m].key = notices'[p].key,
                      notices'[m].key[1] = "item" \/ notices'[p].created - notices'[m].created < Cooldown
               PROVE  notices'[p].saw < m
    BY <1>8 DEF N!RepeatsOverlap
  <2>1. m \in 1..l /\ notices'[m] = notices[m]
    BY <1>7, <1>8
  <2>2. CASE p = l + 1
    <3>1. notices'[p] = new /\ notices[m].key = k
      BY <1>3, <1>8, <2>1, <2>2
    <3>2. SUFFICES ASSUME m <= run[w].saw PROVE FALSE
      BY <1>3, <1>5, <2>1, <3>1, NoticesAssumption
    <3>3. m \in 1..run[w].saw
      BY <1>5, <2>1, <3>2
    <3>4. run[w].job \in Health /\ run[w].moment - notices[m].created >= Cooldown
      BY <1>1, <1>4, <3>1, <3>3 DEF N!RunsInv, N!RunSound
    <3>5. k[1] # "item"
      BY <1>1, <1>5, <3>4, KeyTypes, JobSorts
    <3>6. run[w].moment - notices[m].created < Cooldown
      BY <1>3, <2>1, <3>1, <3>5
    <3>7. notices[m].created \in 0..MaxTick
      BY <1>2, <2>1, NoticeTypes
    <3> QED BY <1>5, <3>4, <3>6, <3>7, NoticesAssumption
  <2>3. CASE p # l + 1
    <3>1. p \in 1..l /\ notices'[p] = notices[p]
      BY <1>7, <1>8, <2>3
    <3> QED BY <1>7, <2>1, <3>1 DEF N!RepeatsOverlap
  <2> QED BY <2>2, <2>3
<1>16. N!OwnerLearns'
  <2>1. ASSUME NEW i \in open, job'[i].state = "succeeded"
        PROVE  \E m \in DOMAIN notices' : notices'[m].key = <<"item", i>>
    <3>1. job'[i] = job[i]
      BY <1>7, <1>11, JobSorts DEF N!TypeOK
    <3>2. PICK m \in DOMAIN notices : notices[m].key = <<"item", i>>
      BY <2>1, <3>1 DEF N!OwnerLearns
    <3> QED BY <1>7, <1>8, <3>2
  <2>2. ASSUME NEW m \in 1..(l + 1),
               job'[m].state = "succeeded" \/ (job'[m].state = "dead" /\ job'[m].runs < MaxRuns)
        PROVE  notices'[m].state = "delivered"
    <3>1. m \in 1..l /\ m # l + 1
      BY <1>7, <1>11, <2>2
    <3>2. m \in N!Job
      BY <1>2, <3>1, NoticeTypes, JobSorts
    <3>3. job'[m] = job[m] /\ notices'[m] = notices[m]
      BY <1>8, <1>11, <3>1, <3>2
    <3> QED BY <1>7, <2>2, <3>1, <3>3 DEF N!OwnerLearns
  <2> QED BY <1>4, <1>8, <2>1, <2>2 DEF N!OwnerLearns
<1> QED BY <1>12, <1>13, <1>14, <1>15, <1>16 DEF N!RunsInv

\* A dispatch job delivers its notice, or finds it delivered.
LEMMA NoticesDeliver == ASSUME N!IndInv, NEW w \in Sender, NEW d \in N!Dispatch, N!Deliver(w, d)
                        PROVE  N!IndInv'
<1> USE DEF N!IndInv
<1>1. N!ClaimJob(w, d) /\ UNCHANGED <<tick, open>> /\ d \in N!Job
  BY JobSorts DEF N!Deliver
<1>2. d \in 1..Len(notices)
  <2>1. job[d].state # "none"
    BY <1>1, Leases
  <2> QED BY <2>1, NoticesAssumption DEF N!JobsInv, N!Dispatch, N!TypeOK
<1>3. PICK s \in {"done", "refused"} :
        /\ N!Starts(w, d, s)
        /\ notices' = IF notices[d].state = "queued"
                      THEN [notices EXCEPT ![d].state = "delivered"] ELSE notices
  BY DEF N!Deliver
<1>4. /\ run' \in [Sender -> N!Run \cup {N!NoRun}]
      /\ \A v \in Sender : v # w => run'[v] = run[v]
      /\ run'[w].stage = s /\ run'[w].job = d
  BY <1>1, <1>3, StartsARun
<1>5. /\ notices \in Seq(N!Notice) /\ Len(notices) \in Nat /\ DOMAIN notices = 1..Len(notices)
      /\ \A m \in 1..Len(notices) : notices[m] \in N!Notice
  BY DEF N!TypeOK
<1>6. /\ notices' \in Seq(N!Notice) /\ Len(notices') = Len(notices)
      /\ DOMAIN notices' = DOMAIN notices
      /\ notices'[d].state = "delivered"
  <2>1. CASE notices[d].state = "queued"
    <3>1. PICK new : new = [notices[d] EXCEPT !.state = "delivered"]
      OBVIOUS
    <3>2. new \in N!Notice /\ new.state = "delivered"
      BY <1>2, <1>5, <3>1 DEF N!Notice
    <3>3. notices' = [notices EXCEPT ![d] = new]
      BY <1>3, <2>1, <3>1
    <3> QED BY <1>2, <1>5, <3>2, <3>3
  <2>2. CASE notices[d].state # "queued"
    BY <1>2, <1>3, <1>5, <2>2 DEF N!Notice
  <2> QED BY <2>1, <2>2
<1>7. \A m \in 1..Len(notices) :
        /\ notices'[m].key = notices[m].key /\ notices'[m].created = notices[m].created
        /\ notices'[m].saw = notices[m].saw
        /\ notices[m].state = "delivered" => notices'[m].state = "delivered"
  BY <1>2, <1>3, <1>5 DEF N!Notice
<1>8. N!TypeOK'
  BY <1>1, <1>4, <1>6, Leases DEF N!TypeOK
<1>9. N!JobsInv'
  <2>1. \A k \in N!Job : job'[k].state \in {"none", "queued"} => job'[k].runs = 0
    BY <1>1, Leases DEF N!JobsInv
  <2>2. \A k \in N!Dispatch : job'[k].state = "none" <=> k > Len(notices')
    BY <1>1, <1>6, Leases, JobSorts DEF N!JobsInv
  <2> QED BY <2>1, <2>2 DEF N!JobsInv, N!Job, N!Dispatch
<1>10. ASSUME NEW v \in Sender PROVE N!RunSound(v)'
  <2>1. CASE v # w
    BY <1>1, <1>4, <1>5, <1>6, <1>7, <2>1, OtherRuns DEF N!RunsInv
  <2>2. CASE v = w
    <3>1. d \notin open
      BY JobSorts DEF N!TypeOK
    <3> QED BY <1>1, <1>2, <1>3, <1>4, <1>5, <1>6, <2>2, <3>1 DEF N!RunSound, N!At, N!Dispatch
  <2> QED BY <2>1, <2>2
<1>11. N!RepeatsOverlap'
  BY <1>5, <1>6, <1>7 DEF N!RepeatsOverlap
<1>12. N!OwnerLearns'
  <2>1. \A i \in open : job'[i].state = "succeeded" => job[i].state = "succeeded"
    BY <1>1, Leases, JobSorts DEF N!TypeOK
  <2>2. ASSUME NEW m \in 1..Len(notices), job'[m].state \in {"succeeded", "dead"}
        PROVE  job'[m] = job[m]
    BY <1>1, <2>2, NoticeTypes, JobSorts, Leases
  <2>3. \A i \in open : job'[i].state = "succeeded" =>
           \E m \in DOMAIN notices' : notices'[m].key = <<"item", i>>
    BY <1>5, <1>6, <1>7, <2>1 DEF N!OwnerLearns
  <2>4. \A m \in 1..Len(notices) :
           job'[m].state = "succeeded" \/ (job'[m].state = "dead" /\ job'[m].runs < MaxRuns)
           => notices'[m].state = "delivered"
    BY <1>5, <1>7, <2>2 DEF N!OwnerLearns
  <2> QED BY <1>1, <1>5, <1>6, <2>3, <2>4 DEF N!OwnerLearns
<1> QED BY <1>8, <1>9, <1>10, <1>11, <1>12 DEF N!RunsInv

\* The end of a run is noted if the lease is still its own.
LEMMA NoticesSettle == ASSUME N!IndInv, NEW w \in Sender, N!Settle(w) PROVE N!IndInv'
<1> USE DEF N!IndInv
<1>1. PICK j : j = run[w].job
  OBVIOUS
<1>2. /\ N!At(w, "done") \/ N!At(w, "refused")
      /\ run' = [run EXCEPT ![w] = N!NoRun]
      /\ UNCHANGED <<tick, open, notices>>
  BY DEF N!Settle
<1>3. PICK e \in {"succeeded", "dead"} :
        /\ e = IF N!At(w, "done") THEN "succeeded" ELSE "dead"
        /\ job' = IF w \in job[j].holder
                  THEN [job EXCEPT ![j].state = e, ![j].holder = {}] ELSE job
  BY <1>1 DEF N!Settle
<1>4. run[w] # N!NoRun /\ j \in N!Job
  BY <1>1, <1>2, AtARun, RunTypes
<1>5. /\ job' \in [N!Job -> N!JobRow]
      /\ job'[j] = job[j] \/ job'[j].state = e
      /\ \A k \in N!Job : k # j => job'[k] = job[k]
  BY <1>3, <1>4 DEF N!TypeOK, N!JobRow
<1>6. N!TypeOK'
  BY <1>2, <1>5, RunEnds DEF N!TypeOK
<1>7. j \in N!Dispatch => j <= Len(notices) /\ notices[j].state = "delivered"
  BY <1>1, <1>2 DEF N!RunsInv, N!RunSound
<1>8. j \in N!Dispatch => j \in 1..Len(notices)
  BY <1>7, NoticesAssumption DEF N!Dispatch, N!TypeOK
<1>9. N!JobsInv'
  <2>1. \A k \in N!Job : job'[k].state \in {"none", "queued"} => job'[k].runs = 0
    BY <1>3, <1>5 DEF N!JobsInv
  <2>2. ASSUME NEW d \in N!Dispatch PROVE job'[d].state = "none" <=> d > Len(notices')
    <3>1. CASE d # j
      BY <1>2, <1>5, <3>1, JobSorts DEF N!JobsInv
    <3>2. CASE d = j
      <4>1. d \in 1..Len(notices)
        BY <1>8, <3>2
      <4>2. job[d].state # "none"
        BY <4>1, NoticeTypes DEF N!JobsInv
      <4>3. job'[d].state # "none"
        BY <1>3, <1>5, <3>2, <4>2
      <4> QED BY <1>2, <4>1, <4>3
    <3> QED BY <3>1, <3>2
  <2> QED BY <2>1, <2>2 DEF N!JobsInv, N!Job, N!Dispatch
<1>10. N!RepeatsOverlap'
  BY <1>2 DEF N!RepeatsOverlap
<1>11. N!OwnerLearns'
  <2>1. ASSUME NEW i \in open, job'[i].state = "succeeded"
        PROVE  \E m \in DOMAIN notices : notices[m].key = <<"item", i>>
    <3>1. i \in N!Job
      BY JobSorts DEF N!TypeOK
    <3>2. CASE job'[i] = job[i]
      BY <2>1, <3>2 DEF N!OwnerLearns
    <3>3. CASE job'[i] # job[i]
      <4>1. i = j /\ e = "succeeded"
        BY <1>5, <2>1, <3>1, <3>3
      <4>2. N!At(w, "done")
        BY <1>3, <4>1
      <4> QED BY <1>1, <4>1, <4>2 DEF N!RunsInv, N!RunSound
    <3> QED BY <3>2, <3>3
  <2>2. ASSUME NEW m \in DOMAIN notices,
               job'[m].state = "succeeded" \/ (job'[m].state = "dead" /\ job'[m].runs < MaxRuns)
        PROVE  notices[m].state = "delivered"
    <3>1. m \in N!Dispatch /\ m \in N!Job
      BY NoticeTypes, JobSorts DEF N!TypeOK
    <3>2. CASE m = j
      BY <1>7, <3>1, <3>2
    <3>3. CASE m # j
      BY <1>5, <2>2, <3>1, <3>3 DEF N!OwnerLearns
    <3> QED BY <3>2, <3>3
  <2> QED BY <1>2, <2>1, <2>2 DEF N!OwnerLearns
<1> QED BY <1>2, <1>6, <1>9, <1>10, <1>11, RunEnds

\* Every step keeps the invariant.
LEMMA NoticesNext == ASSUME N!IndInv, N!Next PROVE N!IndInv'
<1>1. CASE N!Tick
  BY <1>1, NoticesTick
<1>2. ASSUME NEW i \in Item, N!Resolve(i) PROVE N!IndInv'
  BY <1>2, NoticesResolve
<1>3. ASSUME NEW j \in N!Job, N!Exhaust(j) PROVE N!IndInv'
  BY <1>3, NoticesExhaust
<1>4. ASSUME NEW w \in Sender, NEW i \in Item, N!ReadItem(w, i) PROVE N!IndInv'
  BY <1>4, NoticesReadItem
<1>5. ASSUME NEW w \in Sender, NEW h \in Health, N!ReadHealth(w, h) PROVE N!IndInv'
  BY <1>5, NoticesReadHealth
<1>6. ASSUME NEW w \in Sender, NEW d \in N!Dispatch, N!Deliver(w, d) PROVE N!IndInv'
  BY <1>6, NoticesDeliver
<1>7. ASSUME NEW w \in Sender, N!Insert(w) PROVE N!IndInv'
  BY <1>7, NoticesInsert
<1>8. ASSUME NEW w \in Sender, N!Settle(w) PROVE N!IndInv'
  BY <1>8, NoticesSettle
<1>9. ASSUME NEW w \in Sender, N!Crash(w) PROVE N!IndInv'
  BY <1>9, NoticesCrash
<1> QED BY <1>1, <1>2, <1>3, <1>4, <1>5, <1>6, <1>7, <1>8, <1>9 DEF N!Next

(***************************************************************************)
(* Claims and confirmations, with any number of workers.                   *)
(***************************************************************************)
\* A row is there or not, and its state tells.
LEMMA RowTypes ==
    ASSUME RowsOK, NEW c \in Claim
    PROVE  /\ claim[c] = NoClaim \/ claim[c] \in Row
           /\ c \in Existing <=> claim[c] \in Row
           /\ c \in Existing <=> claim[c].state \in ClaimState
           /\ c \in Existing => claim[c].class \in {"A", "B", "C"}
BY DEF RowsOK, Row, NoClaim, Existing, ClaimState

\* The claims that count as live exist.
LEMMA LiveExist == ASSUME RowsOK PROVE Live \subseteq Existing /\ Live \subseteq Claim
<1>1. \A c \in Live : c \in Claim /\ claim[c].state \in ClaimState
  BY DEF Live, ClaimState
<1> QED BY <1>1, RowTypes

\* What an actor is at, by the kind of its job.
LEMMA WorkTypes ==
    ASSUME RowsOK, NEW a \in Worker \cup Resolver
    PROVE  /\ work[a] \in Job \cup {Idle}
           /\ work[a].kind \in {"promote", "retain"} =>
                 work[a].next \in [Claim -> ClaimState \cup {"same"}]
           /\ work[a].kind = "conflict" =>
                 /\ work[a] \in [kind : {"conflict"}, stage : 1..2, pairs : SUBSET Pair, live : SUBSET Claim,
                                 candidates : SUBSET Claim]
                 /\ work[a].stage \in 1..2 /\ work[a].pairs \in SUBSET Pair /\ work[a].live \in SUBSET Claim
                 /\ work[a].candidates \in SUBSET Claim
           /\ work[a].kind \in {"dedupe", "merge"} => work[a].into \in [Claim -> Claim]
           /\ work[a].kind = "merge" => work[a].pair \in Pair
           /\ work[a].kind = "extract" =>
                 work[a].source \in RawInput /\ work[a].about \in SUBSET Claim /\ work[a].new \in BOOLEAN
<1>1. work[a] \in Job \cup {Idle}
  BY DEF RowsOK
<1> QED BY <1>1 DEF Job, Idle, Merging

\* A step that ends jobs, and adds rows that no other job will insert.
LEMMA RowsGrow ==
    ASSUME RowsOK, WorkInv, ConsentInv,
           \A v \in Worker \cup Resolver :
              \/ work'[v] = Idle
              \/ work'[v] = work[v] /\ Inserts(v) \cap (Existing' \ Existing) = {},
           \A c \in Existing : c \in Existing' /\ claim'[c].class = claim[c].class,
           confirmed \subseteq confirmed'
    PROVE  WorkInv' /\ ConsentInv'
<1>1. ASSUME NEW v \in Worker \cup Resolver
      PROVE  /\ Updates(v)' = {} \/ Updates(v)' = Updates(v)
             /\ Inserts(v)' = {} \/ (Inserts(v)' = Inserts(v) /\ Inserts(v) \cap (Existing' \ Existing) = {})
  <2>1. CASE work'[v] = Idle
    BY <2>1 DEF Updates, Inserts, Idle
  <2>2. CASE work'[v] = work[v] /\ Inserts(v) \cap (Existing' \ Existing) = {}
    BY <2>2 DEF Updates, Inserts
  <2> QED BY <2>1, <2>2
<1>2. ASSUME NEW v \in Worker \cup Resolver
      PROVE  /\ work'[v].kind \in {"promote", "retain", "conflict", "extract"} => v \in Worker
             /\ Updates(v)' \subseteq Existing'
             /\ Inserts(v)' \cap Existing' = {}
             /\ \A w \in Worker \ {v} : Inserts(v)' \cap Inserts(w)' = {}
  <2>1. work'[v].kind \in {"promote", "retain", "conflict", "extract"} => v \in Worker
    BY DEF WorkInv, Idle
  <2>2. Updates(v) \subseteq Existing /\ Inserts(v) \cap Existing = {}
    BY DEF WorkInv
  <2>3. \A w \in Worker \ {v} : Inserts(v) \cap Inserts(w) = {}
    BY DEF WorkInv
  <2>4. Updates(v)' \subseteq Existing'
    BY <1>1, <2>2
  <2>5. Inserts(v)' \cap Existing' = {}
    BY <1>1, <2>2
  <2>6. ASSUME NEW w \in Worker \ {v} PROVE Inserts(v)' \cap Inserts(w)' = {}
    <3>1. /\ Inserts(v)' = {} \/ Inserts(v)' = Inserts(v)
          /\ Inserts(w)' = {} \/ Inserts(w)' = Inserts(w)
      BY <1>1
    <3> QED BY <2>3, <3>1
  <2> QED BY <2>1, <2>4, <2>5, <2>6
<1>3. WorkInv'
  BY <1>2 DEF WorkInv
<1>4. ASSUME NEW v \in Worker \cup Resolver, NEW c \in Claim,
             work'[v].kind \in {"promote", "retain"},
             work'[v].next[c] \in {"active", "established", "historical"},
             claim'[c].class = "C"
      PROVE  c \in confirmed'
  <2>1. work'[v] = work[v]
    BY <1>4 DEF Idle
  <2>2. c \in Updates(v)
    BY <1>4, <2>1 DEF Updates
  <2>3. c \in Existing
    BY <2>2 DEF WorkInv
  <2> QED BY <1>4, <2>1, <2>3 DEF ConsentInv
<1> QED BY <1>3, <1>4 DEF ConsentInv

\* An actor takes up, or goes on with, a job that is sound.
LEMMA JobTaken ==
    ASSUME RowsOK, WorkInv, ConsentInv, UNCHANGED <<claim, confirmed>>,
           NEW a \in Worker \cup Resolver,
           \A v \in Worker \cup Resolver : v # a => work'[v] = work[v],
           work'[a].kind \in {"promote", "retain", "conflict", "extract"} => a \in Worker,
           Updates(a)' \subseteq Existing,
           Inserts(a)' \cap Existing = {},
           \A v \in Worker \ {a} : Inserts(a)' \cap Inserts(v) = {},
           work'[a].kind \in {"promote", "retain"} =>
              \A c \in Claim : /\ work'[a].next[c] \in {"active", "established", "historical"}
                               /\ claim[c].class = "C"
                               => c \in confirmed
    PROVE  WorkInv' /\ ConsentInv'
<1>1. Existing' = Existing
  BY DEF Existing
<1>2. ASSUME NEW v \in Worker \cup Resolver, v # a
      PROVE  Updates(v)' = Updates(v) /\ Inserts(v)' = Inserts(v) /\ Inserts(v) \cap Inserts(a)' = {}
  <2>1. Updates(v)' = Updates(v) /\ Inserts(v)' = Inserts(v)
    BY <1>2 DEF Updates, Inserts
  <2>2. CASE v \in Worker
    BY <1>2, <2>1, <2>2
  <2>3. CASE v \notin Worker
    <3>1. Inserts(v) = {}
      BY <2>3 DEF WorkInv, Inserts
    <3> QED BY <2>1, <3>1
  <2> QED BY <2>2, <2>3
<1>3. ASSUME NEW v \in Worker \cup Resolver
      PROVE  /\ work'[v].kind \in {"promote", "retain", "conflict", "extract"} => v \in Worker
             /\ Updates(v)' \subseteq Existing
             /\ Inserts(v)' \cap Existing = {}
             /\ \A w \in Worker \ {v} : Inserts(v)' \cap Inserts(w)' = {}
  <2>1. CASE v = a
    BY <1>2, <2>1
  <2>2. CASE v # a
    <3>1. /\ work'[v].kind \in {"promote", "retain", "conflict", "extract"} => v \in Worker
          /\ Updates(v)' \subseteq Existing
          /\ Inserts(v)' \cap Existing = {}
      BY <1>2, <2>2 DEF WorkInv
    <3>2. ASSUME NEW w \in Worker \ {v} PROVE Inserts(v)' \cap Inserts(w)' = {}
      <4>1. CASE w = a
        BY <1>2, <2>2, <4>1
      <4>2. CASE w # a
        <5>1. Inserts(v) \cap Inserts(w) = {}
          BY DEF WorkInv
        <5> QED BY <1>2, <2>2, <4>2, <5>1
      <4> QED BY <4>1, <4>2
    <3> QED BY <3>1, <3>2
  <2> QED BY <2>1, <2>2
<1>4. WorkInv'
  BY <1>1, <1>3 DEF WorkInv
<1>5. ConsentInv'
  <2> SUFFICES ASSUME NEW v \in Worker \cup Resolver, NEW c \in Claim,
                      work'[v].kind \in {"promote", "retain"},
                      work'[v].next[c] \in {"active", "established", "historical"},
                      claim'[c].class = "C"
               PROVE  c \in confirmed'
    BY DEF ConsentInv
  <2>1. CASE v = a
    BY <2>1
  <2>2. CASE v # a
    BY <2>2 DEF ConsentInv
  <2> QED BY <2>1, <2>2
<1> QED BY <1>4, <1>5

\* The updates by id move rows that exist, and those they name alone.
LEMMA Writes ==
    ASSUME RowsOK, NEW next \in [Claim -> ClaimState \cup {"same"}], NEW establish,
           \A c \in Claim : next[c] # "same" => c \in Existing,
           Write(next, establish)
    PROVE  /\ claim' \in [Claim -> Row \cup {NoClaim}]
           /\ \A c \in Claim :
                 \/ claim'[c] = claim[c]
                 \/ /\ next[c] # "same" /\ claim'[c] \in Row
                    /\ claim'[c].state = next[c] /\ claim'[c].class = claim[c].class
           /\ Existing' = Existing
<1> DEFINE new == [c \in Claim |-> IF next[c] = "same" THEN claim[c]
                                   ELSE [claim[c] EXCEPT !.state = next[c],
                                           !.establishment = IF c \in establish THEN "established" ELSE @]]
<1>1. claim' = new \/ claim' = claim
  BY DEF Write
<1>2. ASSUME NEW c \in Claim
      PROVE  \/ new[c] = claim[c]
             \/ /\ next[c] # "same" /\ new[c] \in Row
                /\ new[c].state = next[c] /\ new[c].class = claim[c].class
  <2>1. CASE next[c] = "same"
    BY <2>1
  <2>2. CASE next[c] # "same"
    <3>1. claim[c] \in Row /\ next[c] \in ClaimState
      BY <2>2, RowTypes
    <3>2. new[c] = [claim[c] EXCEPT !.state = next[c],
                       !.establishment = IF c \in establish THEN "established" ELSE @]
      BY <2>2
    <3> HIDE DEF new
    <3> QED BY <2>2, <3>1, <3>2 DEF Row
  <2> QED BY <2>1, <2>2
<1>3. \A c \in Claim : claim[c] \in Row \cup {NoClaim}
  BY RowTypes
<1>4. DOMAIN new = Claim /\ new = [c \in Claim |-> new[c]]
  OBVIOUS
<1> HIDE DEF new
<1>5. new \in [Claim -> Row \cup {NoClaim}]
  BY <1>2, <1>3, <1>4
<1>6. claim \in [Claim -> Row \cup {NoClaim}]
  BY DEF RowsOK
<1>7. claim' \in [Claim -> Row \cup {NoClaim}]
  BY <1>1, <1>5, <1>6
<1>8. \A c \in Claim :
                 \/ claim'[c] = claim[c]
                 \/ /\ next[c] # "same" /\ claim'[c] \in Row
                    /\ claim'[c].state = next[c] /\ claim'[c].class = claim[c].class
  BY <1>1, <1>2
<1>9. NoClaim \notin Row
  BY DEF NoClaim, Row
<1>10. Existing' = Existing
  BY <1>8, <1>9 DEF Existing
<1> QED BY <1>7, <1>8, <1>10

\* At first there are no claims.
LEMMA ClaimsInit == Init => ClaimsInv
<1> SUFFICES ASSUME Init PROVE ClaimsInv
  OBVIOUS
<1>1. RowsOK
  BY ClaimsAssumption DEF Init, RowsOK
<1>2. \A a \in Worker \cup Resolver : work[a] = Idle
  BY DEF Init
<1>3. WorkInv /\ ConsentInv
  BY <1>2 DEF WorkInv, ConsentInv, Updates, Inserts, Idle
<1>4. ConfirmedByOwner
  BY DEF Init, ConfirmedByOwner
<1> QED BY <1>1, <1>3, <1>4 DEF ClaimsInv

\* A step that touches neither claims nor jobs nor confirmations.
LEMMA ClaimsStay ==
    ASSUME ClaimsInv, RowsOK', UNCHANGED <<claim, work, confirmed>>
    PROVE  ClaimsInv'
<1> USE DEF ClaimsInv
<1>1. Existing' = Existing
  BY DEF Existing
<1>2. WorkInv' /\ ConsentInv'
  BY <1>1, RowsGrow
<1> QED BY <1>2 DEF ConfirmedByOwner

\* The clock leaves the claims alone.
LEMMA ClaimsTime == ASSUME ClaimsInv, TimePasses PROVE ClaimsInv'
<1>1. RowsOK'
  BY ClaimsAssumption DEF ClaimsInv, RowsOK, TimePasses, items
<1> QED BY <1>1, ClaimsStay DEF TimePasses

\* An item that a client opens.
LEMMA ClaimsCreateItem == ASSUME ClaimsInv, NEW p \in Pair, CreateReviewItem(p) PROVE ClaimsInv'
<1>1. /\ incidents' \in 0..MaxIncidents
      /\ UNCHANGED <<claim, evidence, extracted, conflict, now, work, confirmed>>
  BY ClaimsAssumption DEF ClaimsInv, RowsOK, CreateReviewItem
<1>2. \A c \in p : c \in Claim
  BY DEF Pair
<1>3. profileItem' \in [Claim -> {"none", "open", "closed"}] /\ mergeItem' \in [Pair -> SUBSET Claim]
  <2>1. profileItem \in [Claim -> {"none", "open", "closed"}] /\ mergeItem \in [Pair -> SUBSET Claim]
    BY DEF ClaimsInv, RowsOK
  <2>2. \/ UNCHANGED <<profileItem, mergeItem>>
        \/ UNCHANGED mergeItem /\ \E c \in p : profileItem' = [profileItem EXCEPT ![c] = "open"]
        \/ UNCHANGED profileItem /\ \E c \in p : mergeItem' = [mergeItem EXCEPT ![p] = {c}]
    BY DEF CreateReviewItem
  <2> QED BY <1>2, <2>1, <2>2
<1>4. RowsOK'
  BY <1>1, <1>3 DEF ClaimsInv, RowsOK
<1> QED BY <1>1, <1>4, ClaimsStay

\* A verdict on a conflict.
LEMMA ClaimsResolveConflict == ASSUME ClaimsInv, NEW p \in Pair, ResolveConflict(p) PROVE ClaimsInv'
<1>1. RowsOK'
  BY DEF ClaimsInv, RowsOK, ResolveConflict
<1> QED BY <1>1, ClaimsStay DEF ResolveConflict

\* A merge that the owner rejects.
LEMMA ClaimsRejectMerge == ASSUME ClaimsInv, NEW p \in Pair, RejectMerge(p) PROVE ClaimsInv'
<1>1. RowsOK'
  BY DEF ClaimsInv, RowsOK, RejectMerge
<1> QED BY <1>1, ClaimsStay DEF RejectMerge

\* A proposal is a new row; one of class C waits for its confirmation.
LEMMA ClaimsPropose ==
    ASSUME ClaimsInv, NEW c \in Claim, NEW k \in Classes[c], ProposeSelfClaim(c, k) PROVE ClaimsInv'
<1> USE DEF ClaimsInv
<1>1. PICK row : row = [class |-> k, state |-> IF k = "A" THEN "active" ELSE "candidate",
                        establishment |-> "explicit", pending |-> k = "C",
                        source |-> c, created |-> now]
  OBVIOUS
<1>2. /\ Fresh(c) /\ claim' = [claim EXCEPT ![c] = row]
      /\ profileItem' = [profileItem EXCEPT ![c] = IF k = "C" THEN "open" ELSE @]
      /\ UNCHANGED <<evidence, extracted, mergeItem, conflictItem, conflict, incidents, now, work, confirmed>>
  BY <1>1 DEF ProposeSelfClaim
<1>3. k \in {"A", "B", "C"} /\ now \in 0..LastDay
  BY ClaimsAssumption DEF RowsOK
<1>4. row \in Row /\ (row.class = "C" => row.state = "candidate")
  BY <1>1, <1>3 DEF Row, ClaimState, Source
<1>5. claim'[c] = row /\ \A d \in Claim : d # c => claim'[d] = claim[d]
  BY <1>2 DEF RowsOK
<1>6. RowsOK'
  <2>1. claim' \in [Claim -> Row \cup {NoClaim}]
    BY <1>2, <1>4 DEF RowsOK
  <2>2. profileItem' \in [Claim -> {"none", "open", "closed"}]
    BY <1>2 DEF RowsOK
  <2> QED BY <1>2, <2>1, <2>2 DEF RowsOK
<1>7. c \notin Existing
  BY <1>2 DEF Fresh, Existing
<1>8. Existing' \subseteq Existing \cup {c} /\ Existing \subseteq Existing'
  BY <1>5, <1>7 DEF Existing
<1>9. ASSUME NEW v \in Worker \cup Resolver PROVE c \notin Inserts(v)
  <2>1. CASE v \in Worker
    BY <1>2, <2>1 DEF Fresh, Inserts
  <2>2. CASE v \notin Worker
    BY <2>2 DEF WorkInv, Inserts
  <2> QED BY <2>1, <2>2
<1>10. \A d \in Existing : d \in Claim /\ d # c
  BY <1>7 DEF Existing
<1>11. WorkInv' /\ ConsentInv'
  BY <1>2, <1>5, <1>8, <1>9, <1>10, RowsGrow
<1>12. ConfirmedByOwner'
  BY <1>2, <1>4, <1>5 DEF ConfirmedByOwner
<1> QED BY <1>6, <1>11, <1>12

\* The owner's approval makes a claim active, and is its confirmation.
LEMMA ClaimsResolveProfile ==
    ASSUME ClaimsInv, NEW c \in Claim, NEW yes \in BOOLEAN, ResolveProfile(c, yes) PROVE ClaimsInv'
<1> USE DEF ClaimsInv
<1>1. PICK hit \in BOOLEAN :
        /\ hit => claim[c].state = "candidate"
        /\ claim' = IF hit THEN [claim EXCEPT ![c].state = "active", ![c].pending = FALSE] ELSE claim
        /\ confirmed' = IF hit THEN confirmed \cup {c} ELSE confirmed
  BY DEF ResolveProfile, Awaits
<1>2. /\ profileItem' = [profileItem EXCEPT ![c] = "closed"]
      /\ UNCHANGED <<evidence, extracted, mergeItem, conflictItem, conflict, incidents, now, work>>
  BY DEF ResolveProfile
<1>3. /\ claim' \in [Claim -> Row \cup {NoClaim}]
      /\ \A d \in Claim : \/ claim'[d] = claim[d]
                          \/ d = c /\ claim[d] \in Row /\ claim'[d] \in Row /\ claim'[d].class = claim[d].class /\ hit
  <2>1. CASE hit
    <3>1. claim[c] \in Row
      BY <1>1, <2>1, RowTypes DEF ClaimState
    <3>2. PICK new : new = [claim[c] EXCEPT !.state = "active", !.pending = FALSE]
      OBVIOUS
    <3>3. new \in Row /\ new.class = claim[c].class
      BY <3>1, <3>2 DEF Row, ClaimState
    <3>4. claim' = [claim EXCEPT ![c] = new]
      BY <1>1, <2>1, <3>2
    <3> QED BY <2>1, <3>1, <3>3, <3>4 DEF RowsOK
  <2>2. CASE ~hit
    BY <1>1, <2>2 DEF RowsOK
  <2> QED BY <2>1, <2>2
<1>4. confirmed' \in SUBSET Claim /\ confirmed \subseteq confirmed' /\ (hit => c \in confirmed')
  BY <1>1 DEF RowsOK
<1>5. RowsOK'
  BY <1>2, <1>3, <1>4 DEF RowsOK
<1>6. Existing' = Existing
  <2>1. NoClaim \notin Row
    BY DEF NoClaim, Row
  <2> QED BY <1>3, <2>1 DEF Existing
<1>7. \A d \in Existing : claim'[d].class = claim[d].class
  BY <1>3 DEF Existing
<1>8. WorkInv' /\ ConsentInv'
  BY <1>2, <1>4, <1>6, <1>7, RowsGrow
<1>9. ConfirmedByOwner'
  BY <1>3, <1>4 DEF ConfirmedByOwner
<1> QED BY <1>5, <1>8, <1>9

\* A deletion tombstones a row.
LEMMA ClaimsDelete == ASSUME ClaimsInv, NEW c \in Claim, DeleteClaim(c) PROVE ClaimsInv'
<1> USE DEF ClaimsInv
<1>1. /\ claim[c] # NoClaim /\ incidents < MaxIncidents /\ incidents' = incidents + 1
      /\ claim' = [claim EXCEPT ![c].state = "deleted"]
      /\ UNCHANGED <<evidence, extracted, profileItem, mergeItem, conflictItem, conflict, now, work, confirmed>>
  BY DEF DeleteClaim
<1>2. PICK new : new = [claim[c] EXCEPT !.state = "deleted"]
  OBVIOUS
<1>3. new \in Row /\ new.class = claim[c].class /\ new.state = "deleted"
  BY <1>1, <1>2, RowTypes DEF Row, ClaimState
<1>4. claim' = [claim EXCEPT ![c] = new]
  BY <1>1, <1>2
<1>5. claim' \in [Claim -> Row \cup {NoClaim}] /\ claim'[c] = new /\ \A d \in Claim : d # c => claim'[d] = claim[d]
  BY <1>3, <1>4 DEF RowsOK
<1>6. incidents' \in 0..MaxIncidents
  BY <1>1, ClaimsAssumption DEF RowsOK
<1>7. RowsOK'
  BY <1>1, <1>5, <1>6 DEF RowsOK
<1>8. Existing' = Existing
  <2>1. NoClaim \notin Row
    BY DEF NoClaim, Row
  <2> QED BY <1>1, <1>3, <1>5, <2>1 DEF Existing
<1>9. \A d \in Existing : claim'[d].class = claim[d].class
  BY <1>3, <1>5 DEF Existing
<1>10. WorkInv' /\ ConsentInv'
  BY <1>1, <1>8, <1>9, RowsGrow
<1>11. ConfirmedByOwner'
  BY <1>1, <1>3, <1>5 DEF ConfirmedByOwner
<1> QED BY <1>7, <1>10, <1>11

\* Two claims of a pair are the pair.
LEMMA PairMembers ==
    /\ \A p \in Pair : p # {} /\ p \subseteq Claim
    /\ \A p \in Pair, c, d \in Claim : c \in p /\ d \in p /\ c # d => p = {c, d}
<1>1. ASSUME NEW p \in Pair PROVE p # {} /\ p \subseteq Claim
  BY FS_EmptySet DEF Pair
<1>2. ASSUME NEW p \in Pair, NEW c \in p, NEW d \in p, c # d, NEW e \in p, e # c, e # d PROVE FALSE
  <2>1. p \subseteq Claim /\ Cardinality(p) = 2
    BY DEF Pair
  <2>2. IsFiniteSet(p)
    BY <2>1, ClaimsAssumption, FS_Subset
  <2>3. Cardinality({c, d, e}) = 3
    <3>1. Cardinality({c}) = 1 /\ IsFiniteSet({c})
      BY FS_Singleton
    <3>2. Cardinality({c} \cup {d}) = 2 /\ IsFiniteSet({c} \cup {d})
      BY <1>2, <3>1, FS_AddElement
    <3>3. Cardinality(({c} \cup {d}) \cup {e}) = 3
      BY <1>2, <3>2, FS_AddElement
    <3>4. {c, d, e} = ({c} \cup {d}) \cup {e}
      OBVIOUS
    <3> QED BY <3>3, <3>4
  <2>4. {c, d, e} \subseteq p
    OBVIOUS
  <2>5. Cardinality({c, d, e}) <= Cardinality(p)
    BY <2>2, <2>4, FS_Subset
  <2> QED BY <2>1, <2>3, <2>5
<1>3. ASSUME NEW p \in Pair, NEW c \in p, NEW d \in p, c # d PROVE p = {c, d}
  BY <1>2, <1>3
<1> QED BY <1>1, <1>3

\* What an actor takes up, and nothing else changes that conflicts are about.
TakesUp(a, kind) ==
    /\ work'[a].kind = kind
    /\ \A v \in Worker \cup Resolver : v # a => work'[v] = work[v]
    /\ UNCHANGED <<claim, items>>

\* A job that is taken up is sound if what it will write is.
LEMMA Begins ==
    ASSUME ClaimsInv, NEW a \in Worker \cup Resolver, NEW j \in Job, Begin(a, j),
           j.kind \in {"promote", "retain", "conflict", "extract"} => a \in Worker,
           j.kind \in {"promote", "retain"} =>
              \A c \in Claim :
                 /\ j.next[c] # "same" => c \in Existing
                 /\ j.next[c] \in {"active", "established", "historical"} /\ claim[c].class = "C"
                    => c \in confirmed,
           j.kind \in {"dedupe", "merge"} => \A c \in Claim : j.into[c] # c => c \in Existing,
           j.kind = "extract" /\ j.new =>
              /\ j.about \cap Existing = {}
              /\ \A v \in Worker : j.about \cap Inserts(v) = {}
    PROVE  ClaimsInv' /\ work'[a] = j /\ TakesUp(a, j.kind)
<1> USE DEF ClaimsInv
<1>1. work' = [work EXCEPT ![a] = j] /\ UNCHANGED <<claim, evidence, extracted, items, now, confirmed>>
  BY DEF Begin
<1>2. /\ work' \in [Worker \cup Resolver -> Job \cup {Idle}]
      /\ work'[a] = j /\ \A v \in Worker \cup Resolver : v # a => work'[v] = work[v]
  BY <1>1 DEF RowsOK
<1>3. RowsOK'
  BY <1>1, <1>2 DEF RowsOK, items
<1>4. Updates(a)' \subseteq Existing
  BY <1>2 DEF Updates
<1>5. Inserts(a)' \cap Existing = {} /\ \A v \in Worker \ {a} : Inserts(a)' \cap Inserts(v) = {}
  BY <1>2 DEF Inserts
<1>6. WorkInv' /\ ConsentInv'
  BY <1>1, <1>2, <1>4, <1>5, JobTaken
<1>7. ConfirmedByOwner'
  BY <1>1 DEF ConfirmedByOwner
<1>8. TakesUp(a, j.kind)
  BY <1>1, <1>2 DEF TakesUp
<1> QED BY <1>2, <1>3, <1>6, <1>7, <1>8

\* Promotion is for class B.
LEMMA ClaimsBeginPromotion ==
    ASSUME ClaimsInv, NEW w \in Worker, BeginPromotion(w)
    PROVE  ClaimsInv' /\ TakesUp(w, "promote") /\ Updates(w)' \subseteq Live
<1> DEFINE oldest(G) == {c \in G : \A d \in G : claim[c].created <= claim[d].created}
<1>1. PICK W \in SUBSET UNION {oldest(G) : G \in Groups} :
        Begin(w, [kind |-> "promote", next |-> [c \in Claim |-> IF c \in W THEN "active" ELSE "same"]])
  BY DEF BeginPromotion
<1>2. PICK next : next = [c \in Claim |-> IF c \in W THEN "active" ELSE "same"]
  OBVIOUS
<1>3. PICK j : j = [kind |-> "promote", next |-> next]
  OBVIOUS
<1>4. \A G \in Groups : G \subseteq Promotable
  BY DEF Groups
<1>5. ASSUME NEW c \in W PROVE c \in Promotable
  <2>1. PICK G \in Groups : c \in oldest(G)
    OBVIOUS
  <2> QED BY <1>4, <2>1
<1> HIDE DEF oldest
<1>6. next \in [Claim -> ClaimState \cup {"same"}] /\ \A c \in Claim : next[c] # "same" => c \in Promotable
  BY <1>2, <1>5 DEF ClaimState
<1>7. j \in Job /\ j.kind = "promote" /\ j.next = next
  BY <1>3, <1>6 DEF Job
<1>8. \A c \in Promotable : c \in Existing /\ claim[c].class = "B"
  BY RowTypes DEF Promotable, ClaimsInv, ClaimState
<1>9. Begin(w, j)
  BY <1>1, <1>2, <1>3
<1>10. ClaimsInv' /\ work'[w] = j /\ TakesUp(w, j.kind)
  BY <1>6, <1>7, <1>8, <1>9, Begins
<1>11. Updates(w)' \subseteq Live
  BY <1>6, <1>7, <1>10 DEF Updates, Promotable, Live
<1> QED BY <1>7, <1>10, <1>11

\* The states that the sweep writes.
LEMMA Transitions ==
    ASSUME NEW c \in Claim
    PROVE  /\ RetentionTransition(c) \in {"candidate", "expired", "historical", "established", "active"}
           /\ claim[c].state = "candidate" => RetentionTransition(c) \in {"candidate", "expired"}
<1>1. CASE claim[c].state = "candidate"
  BY <1>1 DEF RetentionTransition
<1>2. CASE claim[c].state # "candidate"
  BY <1>2 DEF RetentionTransition
<1> QED BY <1>1, <1>2

\* The sweep keeps a claim active, established or historical only if it was active.
LEMMA ClaimsBeginRetention ==
    ASSUME ClaimsInv, NEW w \in Worker, BeginRetention(w)
    PROVE  ClaimsInv' /\ TakesUp(w, "retain") /\ Updates(w)' \subseteq Live
<1>1. PICK moved : moved = {c \in Claim : /\ claim[c].state \in {"candidate", "active"}
                                          /\ RetentionTransition(c) # claim[c].state}
  OBVIOUS
<1>2. PICK next : next = [c \in Claim |-> IF c \in moved THEN RetentionTransition(c) ELSE "same"]
  OBVIOUS
<1>3. PICK j : j = [kind |-> "retain", next |-> next]
  OBVIOUS
<1>4. Begin(w, j)
  BY <1>1, <1>2, <1>3 DEF BeginRetention
<1>5. \A c \in moved : /\ c \in Existing /\ claim[c].state \in {"candidate", "active"}
                       /\ next[c] = RetentionTransition(c) /\ next[c] # claim[c].state
  BY <1>1, <1>2, RowTypes DEF ClaimsInv, ClaimState
<1>6. next \in [Claim -> ClaimState \cup {"same"}] /\ \A c \in Claim : next[c] # "same" => c \in moved
  BY <1>2, Transitions DEF ClaimState
<1>7. j \in Job /\ j.kind = "retain" /\ j.next = next
  BY <1>3, <1>6 DEF Job
<1>8. ASSUME NEW c \in Claim, next[c] \in {"active", "established", "historical"}, claim[c].class = "C"
      PROVE  c \in confirmed
  <2>1. c \in moved
    BY <1>6, <1>8
  <2>2. claim[c].state = "active" /\ claim[c] # NoClaim
    BY <1>5, <1>8, <2>1, Transitions DEF Existing
  <2> QED BY <1>8, <2>2 DEF ClaimsInv, ConfirmedByOwner
<1>9. ClaimsInv' /\ work'[w] = j /\ TakesUp(w, j.kind)
  BY <1>4, <1>5, <1>6, <1>7, <1>8, Begins
<1>10. Updates(w)' \subseteq Live
  BY <1>5, <1>6, <1>7, <1>9 DEF Updates, Live
<1> QED BY <1>7, <1>9, <1>10

\* A scan takes claims and pairs with it.
LEMMA ClaimsBeginScan ==
    ASSUME ClaimsInv, NEW w \in Worker, BeginConflictScan(w)
    PROVE  /\ ClaimsInv'
           /\ TakesUp(w, "conflict") /\ work'[w].stage = 1 /\ work'[w].live = Live
           /\ \A p \in work'[w].pairs : p \subseteq Live /\ \A c, d \in p : Topic[c] = Topic[d]
<1> DEFINE contradicts(c, d) == /\ claim[c].state = "candidate" /\ d \in Settled
                                /\ Topic[c] = Topic[d] /\ Negative[c] # Negative[d]
<1>1. PICK pairs : pairs = {p \in Pair : \E c, d \in p : contradicts(c, d)}
  OBVIOUS
<1>2. PICK j : j = [kind |-> "conflict", stage |-> 1, live |-> Live, pairs |-> pairs,
                     candidates |-> {c \in Claim : claim[c].state = "candidate"}]
  OBVIOUS
<1>3. Begin(w, j)
  BY <1>1, <1>2 DEF BeginConflictScan
<1>4. Live \in SUBSET Claim
  BY DEF Live
<1>5. j \in Job /\ j.kind = "conflict" /\ j.stage = 1 /\ j.live = Live /\ j.pairs = pairs
  BY <1>1, <1>2, <1>4 DEF Job
<1>6. ASSUME NEW p \in pairs PROVE p \subseteq Live /\ \A c, d \in p : Topic[c] = Topic[d]
  <2>1. p \in Pair /\ \E c, d \in p : contradicts(c, d)
    BY <1>1
  <2>2. PICK c \in p, d \in p : contradicts(c, d)
    BY <2>1
  <2>3. c \in Live /\ d \in Live
    BY <2>1, <2>2 DEF Live, Settled, Pair
  <2>4. c # d
    BY <2>2
  <2>5. p = {c, d}
    BY <2>1, <2>4, PairMembers
  <2> QED BY <2>2, <2>3, <2>5
<1>7. ClaimsInv' /\ work'[w] = j /\ TakesUp(w, "conflict")
  BY <1>3, <1>5, Begins
<1> QED BY <1>5, <1>6, <1>7

\* A dedupe supersedes claims that it read as live.
LEMMA ClaimsBeginDedupe ==
    ASSUME ClaimsInv, NEW w \in Worker, BeginDedupe(w) PROVE ClaimsInv' /\ TakesUp(w, "dedupe")
<1> DEFINE into(W) == [c \in Claim |-> IF c \in Live THEN CHOOSE d \in W : d \in Duplicates(c) ELSE c]
<1> DEFINE free == {p \in Suspected : p \subseteq Live /\ p \cap UNION {q \in Pair : mergeItem[q] # {}} = {}}
<1>0. PICK W \in SUBSET Live, P \in SUBSET free :
        /\ W # Live \/ P # {}
        /\ \A c \in Live : \E d \in Best(Duplicates(c)) : W \cap Duplicates(c) = {d}
        /\ \A p, q \in P : p # q => p \cap q = {}
        /\ \A p \in free : \E q \in P : p \cap q # {}
        /\ \E best \in [P -> Claim] :
              /\ \A p \in P : best[p] \in Best(p)
              /\ Begin(w, [kind |-> "dedupe", into |-> into(W), suspects |-> {<<p, best[p]>> : p \in P}])
  BY DEF BeginDedupe
<1>1. PICK best \in [P -> Claim] :
        /\ \A p \in P : best[p] \in Best(p)
        /\ Begin(w, [kind |-> "dedupe", into |-> into(W), suspects |-> {<<p, best[p]>> : p \in P}])
  BY <1>0
<1>2. PICK next : next = into(W)
  OBVIOUS
<1>3. PICK suspects : suspects = {<<p, best[p]>> : p \in P}
  OBVIOUS
<1>4. PICK j : j = [kind |-> "dedupe", into |-> next, suspects |-> suspects]
  OBVIOUS
<1>5. Begin(w, j)
  BY <1>1, <1>2, <1>3, <1>4
<1>6. \A c \in Live : \E d \in W : d \in Duplicates(c)
  BY <1>0
<1>7. W \subseteq Claim /\ Live \subseteq Claim /\ Live \subseteq Existing
  BY LiveExist DEF ClaimsInv
<1>8. next \in [Claim -> Claim] /\ \A c \in Claim : next[c] # c => c \in Existing
  <2>1. ASSUME NEW c \in Live PROVE (CHOOSE d \in W : d \in Duplicates(c)) \in Claim
    BY <1>6, <1>7
  <2> QED BY <1>2, <1>7, <2>1
<1>9. suspects \in SUBSET (Pair \X Claim)
  BY <1>3, ClaimsAssumption
<1>10. j \in Job /\ j.kind = "dedupe" /\ j.into = next
  BY <1>4, <1>8, <1>9 DEF Job, Merging
<1> QED BY <1>5, <1>8, <1>10, Begins

\* An approved merge supersedes a claim only if both are live.
LEMMA ClaimsBeginMerge ==
    ASSUME ClaimsInv, NEW r \in Resolver, NEW p \in Pair, BeginMerge(r, p)
    PROVE  ClaimsInv' /\ TakesUp(r, "merge")
<1>1. PICK survivor \in mergeItem[p] :
        Begin(r, [kind |-> "merge", pair |-> p,
                  into |-> [c \in Claim |-> IF c \in p /\ p \subseteq Live THEN survivor ELSE c]])
  BY DEF BeginMerge
<1>2. PICK into : into = [c \in Claim |-> IF c \in p /\ p \subseteq Live THEN survivor ELSE c]
  OBVIOUS
<1>3. PICK j : j = [kind |-> "merge", pair |-> p, into |-> into]
  OBVIOUS
<1>4. survivor \in Claim
  BY DEF ClaimsInv, RowsOK
<1>5. into \in [Claim -> Claim] /\ \A c \in Claim : into[c] # c => c \in Existing
  BY <1>2, <1>4, LiveExist DEF ClaimsInv
<1>6. j \in Job /\ j.kind = "merge" /\ j.into = into
  BY <1>3, <1>5 DEF Job, Merging
<1> QED BY <1>1, <1>2, <1>3, <1>5, <1>6, Begins

\* An extraction will insert an id that nobody else will.
LEMMA ClaimsBeginExtraction ==
    ASSUME ClaimsInv, NEW w \in Worker, NEW s \in RawInput, BeginExtraction(w, s)
    PROVE  ClaimsInv' /\ TakesUp(w, "extract")
<1>1. PICK about \in SUBSET Claim, new \in BOOLEAN :
        /\ Begin(w, [kind |-> "extract", source |-> s, about |-> about, new |-> new])
        /\ new => \E c \in Claim : about = {c} /\ Fresh(c)
  <2>1. CASE Begin(w, [kind |-> "extract", source |-> s, about |-> {}, new |-> FALSE])
    BY <2>1
  <2>2. ASSUME NEW c \in Claim, NEW d \in Duplicates(c),
               Begin(w, [kind |-> "extract", source |-> s, about |-> {d}, new |-> FALSE])
        PROVE  \E about \in SUBSET Claim, new \in BOOLEAN :
                  /\ Begin(w, [kind |-> "extract", source |-> s, about |-> about, new |-> new])
                  /\ new => \E e \in Claim : about = {e} /\ Fresh(e)
    <3>1. {d} \in SUBSET Claim
      BY DEF Duplicates, Live
    <3> QED BY <2>2, <3>1
  <2>3. ASSUME NEW c \in Claim, Fresh(c),
               Begin(w, [kind |-> "extract", source |-> s, about |-> {c}, new |-> TRUE])
        PROVE  \E about \in SUBSET Claim, new \in BOOLEAN :
                  /\ Begin(w, [kind |-> "extract", source |-> s, about |-> about, new |-> new])
                  /\ new => \E e \in Claim : about = {e} /\ Fresh(e)
    BY <2>3
  <2> QED BY <2>1, <2>2, <2>3 DEF BeginExtraction
<1>2. PICK j : j = [kind |-> "extract", source |-> s, about |-> about, new |-> new]
  OBVIOUS
<1>3. j \in Job /\ j.kind = "extract" /\ j.about = about /\ j.new = new
  BY <1>2 DEF Job
<1>4. ASSUME new PROVE about \cap Existing = {} /\ \A v \in Worker : about \cap Inserts(v) = {}
  BY <1>1, <1>4 DEF Fresh, Existing, Inserts
<1> QED BY <1>1, <1>2, <1>3, <1>4, Begins

\* A job's updates, and its end.
LEMMA WriteCommits ==
    ASSUME ClaimsInv, NEW a \in Worker \cup Resolver,
           NEW next \in [Claim -> ClaimState \cup {"same"}], NEW establish, Write(next, establish),
           \A c \in Claim :
              /\ next[c] # "same" => c \in Existing
              /\ next[c] \in {"active", "established", "historical"} /\ claim[c].class = "C"
                 => c \in confirmed,
           work' = [work EXCEPT ![a] = Idle],
           evidence' \in SUBSET Evidence, mergeItem' \in [Pair -> SUBSET Claim],
           UNCHANGED <<extracted, profileItem, incidents, now, confirmed>>
    PROVE  ClaimsInv'
<1> USE DEF ClaimsInv
<1>1. /\ claim' \in [Claim -> Row \cup {NoClaim}]
      /\ \A c \in Claim :
            \/ claim'[c] = claim[c]
            \/ /\ next[c] # "same" /\ claim'[c] \in Row
               /\ claim'[c].state = next[c] /\ claim'[c].class = claim[c].class
      /\ Existing' = Existing
  BY Writes
<1>2. /\ work' \in [Worker \cup Resolver -> Job \cup {Idle}]
      /\ \A v \in Worker \cup Resolver : work'[v] = Idle \/ work'[v] = work[v]
  BY DEF RowsOK
<1>3. RowsOK'
  BY <1>1, <1>2 DEF RowsOK
<1>4. \A c \in Existing : claim'[c].class = claim[c].class
  BY <1>1 DEF Existing
<1>5. WorkInv' /\ ConsentInv'
  BY <1>1, <1>2, <1>4, RowsGrow
<1>6. ASSUME NEW c \in Claim, claim'[c] # NoClaim, claim'[c].class = "C",
             claim'[c].state \in {"active", "established", "historical"}
      PROVE  c \in confirmed'
  <2>1. CASE claim'[c] = claim[c]
    BY <1>6, <2>1 DEF ConfirmedByOwner
  <2>2. CASE claim'[c] # claim[c]
    <3>1. next[c] \in {"active", "established", "historical"} /\ claim[c].class = "C"
      BY <1>1, <1>6, <2>2
    <3> QED BY <3>1
  <2> QED BY <2>1, <2>2
<1>7. ConfirmedByOwner'
  BY <1>6 DEF ConfirmedByOwner
<1> QED BY <1>3, <1>5, <1>7

\* A promotion is written over rows that exist, of class B.
LEMMA ClaimsCommitPromotion == ASSUME ClaimsInv, NEW w \in Worker, CommitPromotion(w) PROVE ClaimsInv'
<1> USE DEF ClaimsInv
<1>1. /\ work[w].kind = "promote" /\ work' = [work EXCEPT ![w] = Idle]
      /\ UNCHANGED <<evidence, extracted, items, now, confirmed>>
  BY DEF CommitPromotion
<1>2. PICK establish : Write(work[w].next, establish)
  BY DEF CommitPromotion
<1>3. work[w].next \in [Claim -> ClaimState \cup {"same"}]
  BY <1>1, WorkTypes
<1>4. \A c \in Claim :
              /\ work[w].next[c] # "same" => c \in Existing
              /\ work[w].next[c] \in {"active", "established", "historical"} /\ claim[c].class = "C"
                 => c \in confirmed
  BY <1>1 DEF WorkInv, Updates, ConsentInv
<1>5. evidence' \in SUBSET Evidence /\ mergeItem' \in [Pair -> SUBSET Claim]
  BY <1>1 DEF RowsOK, items
<1> QED BY <1>1, <1>2, <1>3, <1>4, <1>5, WriteCommits DEF items

\* The sweep is written over rows that exist.
LEMMA ClaimsCommitRetention == ASSUME ClaimsInv, NEW w \in Worker, CommitRetention(w) PROVE ClaimsInv'
<1> USE DEF ClaimsInv
<1>1. /\ work[w].kind = "retain" /\ work' = [work EXCEPT ![w] = Idle]
      /\ Write(work[w].next, {})
      /\ UNCHANGED <<evidence, extracted, items, now, confirmed>>
  BY DEF CommitRetention
<1>2. work[w].next \in [Claim -> ClaimState \cup {"same"}]
  BY <1>1, WorkTypes
<1>3. \A c \in Claim :
              /\ work[w].next[c] # "same" => c \in Existing
              /\ work[w].next[c] \in {"active", "established", "historical"} /\ claim[c].class = "C"
                 => c \in confirmed
  BY <1>1 DEF WorkInv, Updates, ConsentInv
<1>4. evidence' \in SUBSET Evidence /\ mergeItem' \in [Pair -> SUBSET Claim]
  BY <1>1 DEF RowsOK, items
<1> QED BY <1>1, <1>2, <1>3, <1>4, WriteCommits DEF items

\* A merge moves evidence to claims, and supersedes those that it merges.
LEMMA Merges ==
    ASSUME ClaimsInv, NEW a \in Worker \cup Resolver, work[a].kind \in {"dedupe", "merge"},
           Merge(work[a].into), work' = [work EXCEPT ![a] = Idle],
           mergeItem' \in [Pair -> SUBSET Claim],
           UNCHANGED <<extracted, profileItem, incidents, now, confirmed>>
    PROVE  ClaimsInv' /\ \A c \in Claim : claim'[c] = claim[c] \/ claim'[c].state = "superseded"
<1> USE DEF ClaimsInv
<1>1. PICK into : into = work[a].into
  OBVIOUS
<1>2. into \in [Claim -> Claim]
  BY <1>1, WorkTypes
<1>3. PICK next : next = [c \in Claim |-> IF into[c] # c THEN "superseded" ELSE "same"]
  OBVIOUS
<1>4. /\ evidence' = {[e EXCEPT !.claim = into[e.claim]] : e \in evidence}
      /\ Write(next, {})
  BY <1>1, <1>3 DEF Merge
<1>5. next \in [Claim -> ClaimState \cup {"same"}]
  BY <1>3 DEF ClaimState
<1>6. evidence' \in SUBSET Evidence
  <2>1. ASSUME NEW e \in evidence PROVE [e EXCEPT !.claim = into[e.claim]] \in Evidence
    <3>1. e \in Evidence
      BY DEF RowsOK
    <3> QED BY <1>2, <3>1 DEF Evidence
  <2> QED BY <1>4, <2>1
<1>7. \A c \in Claim : /\ next[c] # "same" => c \in Existing
                       /\ next[c] \notin {"active", "established", "historical"}
  <2>1. \A c \in Claim : into[c] # c => c \in Updates(a)
    BY <1>1 DEF Updates
  <2> QED BY <1>3, <2>1 DEF WorkInv
<1>8. ClaimsInv'
  BY <1>4, <1>5, <1>6, <1>7, WriteCommits
<1>9. \A c \in Claim : claim'[c] = claim[c] \/ claim'[c].state = "superseded"
  <2>1. \A c \in Claim : claim'[c] = claim[c] \/ (next[c] # "same" /\ claim'[c].state = next[c])
    BY <1>4, <1>5, <1>7, Writes
  <2> QED BY <1>3, <2>1
<1> QED BY <1>8, <1>9

\* The dedupe's merges, and its items.
LEMMA ClaimsCommitDedupe == ASSUME ClaimsInv, NEW w \in Worker, CommitDedupe(w) PROVE ClaimsInv'
<1>1. /\ work[w].kind = "dedupe" /\ Merge(work[w].into) /\ work' = [work EXCEPT ![w] = Idle]
      /\ mergeItem' = [p \in Pair |-> mergeItem[p] \cup {c \in p : <<p, c>> \in work[w].suspects}]
      /\ UNCHANGED <<extracted, profileItem, conflictItem, conflict, incidents, now, confirmed>>
  BY DEF CommitDedupe
<1>2. mergeItem' \in [Pair -> SUBSET Claim]
  <2>1. mergeItem \in [Pair -> SUBSET Claim]
    BY DEF ClaimsInv, RowsOK
  <2>2. ASSUME NEW p \in Pair PROVE mergeItem[p] \cup {c \in p : <<p, c>> \in work[w].suspects} \in SUBSET Claim
    BY <2>1, PairMembers
  <2> QED BY <1>1, <2>2
<1> QED BY <1>1, <1>2, Merges

\* The merge that the owner approved.
LEMMA ClaimsCommitMerge == ASSUME ClaimsInv, NEW r \in Resolver, CommitMerge(r) PROVE ClaimsInv'
<1>1. /\ work[r].kind = "merge" /\ Merge(work[r].into) /\ work' = [work EXCEPT ![r] = Idle]
      /\ mergeItem' = [mergeItem EXCEPT ![work[r].pair] = {}]
      /\ UNCHANGED <<extracted, profileItem, conflictItem, conflict, incidents, now, confirmed>>
  BY DEF CommitMerge
<1>2. mergeItem' \in [Pair -> SUBSET Claim]
  BY <1>1 DEF ClaimsInv, RowsOK
<1> QED BY <1>1, <1>2, Merges

\* A scan only takes pairs off its list, or ends.
LEMMA ClaimsReadOpenItems ==
    ASSUME ClaimsInv, NEW w \in Worker, ReadOpenItems(w)
    PROVE  /\ ClaimsInv'
           /\ TakesUp(w, "conflict") /\ work'[w].stage = 2 /\ work'[w].live = work[w].live
           /\ work'[w].pairs = {p \in work[w].pairs : OffTopic(p, work[w].live)}
<1> USE DEF ClaimsInv
<1>1. PICK left : left = {p \in work[w].pairs : OffTopic(p, work[w].live)}
  OBVIOUS
<1>2. /\ work[w].kind = "conflict"
      /\ work' = [work EXCEPT ![w].stage = 2, ![w].pairs = left]
      /\ UNCHANGED <<claim, evidence, extracted, items, now, confirmed>>
  BY <1>1 DEF ReadOpenItems, Left
<1>3. PICK j : j = [work[w] EXCEPT !.stage = 2, !.pairs = left]
  OBVIOUS
<1>4. work[w] \in [kind : {"conflict"}, stage : 1..2, pairs : SUBSET Pair, live : SUBSET Claim,
                   candidates : SUBSET Claim]
  BY <1>2, WorkTypes
<1>5. left \in SUBSET Pair
  BY <1>1, <1>4
<1>6. /\ j \in [kind : {"conflict"}, stage : 1..2, pairs : SUBSET Pair, live : SUBSET Claim,
               candidates : SUBSET Claim]
      /\ j.kind = "conflict" /\ j.stage = 2 /\ j.pairs = left /\ j.live = work[w].live
  <2>1. /\ work[w].kind = "conflict" /\ work[w].live \in SUBSET Claim /\ work[w].candidates \in SUBSET Claim
        /\ work[w] = [kind |-> work[w].kind, stage |-> work[w].stage, pairs |-> work[w].pairs,
                      live |-> work[w].live, candidates |-> work[w].candidates]
    BY <1>4
  <2>2. j = [kind |-> "conflict", stage |-> 2, pairs |-> left, live |-> work[w].live,
             candidates |-> work[w].candidates]
    BY <1>3, <2>1
  <2> QED BY <1>5, <2>1, <2>2
<1>7. work' = [work EXCEPT ![w] = j]
  BY <1>2, <1>3
<1>8. /\ work' \in [Worker \cup Resolver -> Job \cup {Idle}]
      /\ work'[w] = j /\ \A v \in Worker \cup Resolver : v # w => work'[v] = work[v]
  BY <1>6, <1>7 DEF RowsOK, Job
<1>9. RowsOK'
  BY <1>2, <1>8 DEF RowsOK, items
<1>10. Updates(w)' = {} /\ Inserts(w)' = {}
  BY <1>6, <1>8 DEF Updates, Inserts
<1>11. WorkInv' /\ ConsentInv'
  BY <1>2, <1>6, <1>8, <1>10, JobTaken
<1>12. ConfirmedByOwner'
  BY <1>2 DEF ConfirmedByOwner
<1>13. TakesUp(w, "conflict")
  BY <1>2, <1>6, <1>8 DEF TakesUp
<1> QED BY <1>1, <1>6, <1>8, <1>9, <1>11, <1>12, <1>13

\* An end of a job that writes no claim.
LEMMA JobEnds ==
    ASSUME ClaimsInv, RowsOK', NEW a \in Worker \cup Resolver, work' = [work EXCEPT ![a] = Idle],
           UNCHANGED <<claim, confirmed>>
    PROVE  ClaimsInv'
<1> USE DEF ClaimsInv
<1>1. \A v \in Worker \cup Resolver : work'[v] = Idle \/ work'[v] = work[v]
  BY DEF RowsOK
<1>2. Existing' = Existing
  BY DEF Existing
<1>3. WorkInv' /\ ConsentInv'
  BY <1>1, <1>2, RowsGrow
<1> QED BY <1>3 DEF ConfirmedByOwner

\* The rows of work after a job has ended.
LEMMA WorkEnds ==
    ASSUME RowsOK, NEW a \in Worker \cup Resolver, work' = [work EXCEPT ![a] = Idle]
    PROVE  /\ work' \in [Worker \cup Resolver -> Job \cup {Idle}]
           /\ work'[a] = Idle /\ \A v \in Worker \cup Resolver : v # a => work'[v] = work[v]
BY DEF RowsOK

\* A scan that ends writes conflicts and items alone.
LEMMA ClaimsCommitConflicts == ASSUME ClaimsInv, NEW w \in Worker, CommitConflicts(w) PROVE ClaimsInv'
<1>1. /\ work' = [work EXCEPT ![w] = Idle]
      /\ UNCHANGED <<claim, evidence, extracted, profileItem, mergeItem, incidents, now, confirmed>>
  BY DEF CommitConflicts
<1>2. RowsOK'
  BY <1>1, WorkEnds DEF ClaimsInv, RowsOK
<1> QED BY <1>1, <1>2, JobEnds

\* A job that fails writes nothing.
LEMMA ClaimsAbort == ASSUME ClaimsInv, NEW a \in Worker \cup Resolver, Abort(a) PROVE ClaimsInv'
<1>1. /\ work' = [work EXCEPT ![a] = Idle] /\ incidents < MaxIncidents /\ incidents' = incidents + 1
      /\ UNCHANGED <<claim, evidence, extracted, profileItem, mergeItem, conflictItem, conflict, now, confirmed>>
  BY DEF Abort
<1>2. incidents' \in 0..MaxIncidents
  BY <1>1, ClaimsAssumption DEF ClaimsInv, RowsOK
<1>3. RowsOK'
  BY <1>1, <1>2, WorkEnds DEF ClaimsInv, RowsOK
<1> QED BY <1>1, <1>3, JobEnds

\* An extraction inserts a candidate of class B under an id of its own.
LEMMA ClaimsCommitExtraction ==
    ASSUME ClaimsInv, NEW w \in Worker, CommitExtraction(w)
    PROVE  /\ ClaimsInv'
           /\ \A c \in Existing : claim'[c] = claim[c]
<1> USE DEF ClaimsInv
<1>1. PICK row : row = [class |-> "B", state |-> "candidate", establishment |-> "candidate",
                        pending |-> FALSE, source |-> work[w].source, created |-> now]
  OBVIOUS
<1>2. /\ work[w].kind = "extract"
      /\ extracted' = extracted \cup {work[w].source}
      /\ evidence' = evidence \cup {[claim |-> c, source |-> work[w].source, day |-> now] : c \in work[w].about}
      /\ claim' = [c \in Claim |-> IF c \in work[w].about /\ work[w].new THEN row ELSE claim[c]]
      /\ work' = [work EXCEPT ![w] = Idle]
      /\ UNCHANGED <<items, now, confirmed>>
  BY <1>1 DEF CommitExtraction
<1>3. work[w].source \in RawInput /\ work[w].about \in SUBSET Claim /\ now \in 0..LastDay
  BY <1>2, WorkTypes DEF RowsOK
<1>4. row \in Row /\ row.class = "B"
  BY <1>1, <1>3 DEF Row, ClaimState, Source
<1>5. Inserts(w) = {c \in work[w].about : work[w].new}
  BY <1>2 DEF Inserts
<1>6. \A c \in Claim : claim'[c] = IF c \in Inserts(w) THEN row ELSE claim[c]
  BY <1>2, <1>5
<1>7. claim' \in [Claim -> Row \cup {NoClaim}]
  BY <1>2, <1>4 DEF RowsOK
<1>8. evidence' \in SUBSET Evidence
  <2>1. \A c \in work[w].about : [claim |-> c, source |-> work[w].source, day |-> now] \in Evidence
    BY <1>3 DEF Evidence, Source
  <2> QED BY <1>2, <2>1 DEF RowsOK
<1>9. RowsOK'
  <2>1. extracted' \in SUBSET RawInput
    BY <1>2, <1>3 DEF RowsOK
  <2>2. UNCHANGED <<profileItem, mergeItem, incidents, now, confirmed>>
    BY <1>2 DEF items
  <2> QED BY <1>2, <1>7, <1>8, <2>1, <2>2, WorkEnds DEF RowsOK
<1>10. Inserts(w) \cap Existing = {}
  BY DEF WorkInv
<1>11. \A c \in Existing : c \in Claim /\ claim'[c] = claim[c]
  BY <1>6, <1>10 DEF Existing
<1>12. Existing' \subseteq Existing \cup Inserts(w) /\ Existing \subseteq Existing'
  BY <1>6, <1>11 DEF Existing
<1>13. ASSUME NEW v \in Worker \cup Resolver
       PROVE  \/ work'[v] = Idle
              \/ work'[v] = work[v] /\ Inserts(v) \cap (Existing' \ Existing) = {}
  <2>1. CASE v = w
    BY <1>2, <2>1, WorkEnds
  <2>2. CASE v # w
    <3>1. work'[v] = work[v]
      BY <1>2, <2>2, WorkEnds
    <3>2. Inserts(v) \cap Inserts(w) = {}
      BY <2>2 DEF WorkInv
    <3> QED BY <1>12, <3>1, <3>2
  <2> QED BY <2>1, <2>2
<1>14. WorkInv' /\ ConsentInv'
  BY <1>2, <1>11, <1>12, <1>13, RowsGrow
<1>15. ConfirmedByOwner'
  BY <1>2, <1>4, <1>6 DEF ConfirmedByOwner
<1> QED BY <1>9, <1>11, <1>14, <1>15

\* Every step keeps the invariant.
LEMMA ClaimsNext == ASSUME ClaimsInv, Next PROVE ClaimsInv'
<1>1. CASE TimePasses
  BY <1>1, ClaimsTime
<1>2. CASE Server
  BY <1>2, ClaimsPropose, ClaimsResolveProfile, ClaimsDelete, ClaimsCreateItem, ClaimsResolveConflict,
     ClaimsRejectMerge, ClaimsBeginMerge, ClaimsCommitMerge DEF Server
<1>3. ASSUME NEW w \in Worker, StartJob(w) PROVE ClaimsInv'
  BY <1>3, ClaimsBeginPromotion, ClaimsBeginRetention, ClaimsBeginScan, ClaimsBeginDedupe,
     ClaimsBeginExtraction DEF StartJob
<1>4. ASSUME NEW w \in Worker, Step(w) PROVE ClaimsInv'
  BY <1>4, ClaimsCommitPromotion, ClaimsCommitRetention, ClaimsReadOpenItems, ClaimsCommitConflicts,
     ClaimsCommitDedupe, ClaimsCommitExtraction DEF Step
<1>5. ASSUME NEW a \in Worker \cup Resolver, Abort(a) PROVE ClaimsInv'
  BY <1>5, ClaimsAbort
<1> QED BY <1>1, <1>2, <1>3, <1>4, <1>5 DEF Next

(***************************************************************************)
(* Conflicts, with the one worker that is deployed.                        *)
(***************************************************************************)
\* At first there are no conflicts.
LEMMA ConflictsInit == Init => ConflictsInv
<1> SUFFICES ASSUME Init PROVE ConflictsInv
  OBVIOUS
<1>1. ClaimsInv
  BY ClaimsInit
<1>2. TypeOK
  BY <1>1 DEF ClaimsInv, TypeOK, Init
<1>3. \A p \in Pair : conflict[p].open = 0 /\ conflict[p].closed = 0 /\ conflict[p].by = {}
  BY DEF Init
<1>4. OpenInv /\ TopicsInv /\ VerdictIsFinal
  BY <1>3 DEF OpenInv, TopicsInv, VerdictIsFinal
<1>5. ScanInv
  BY DEF ScanInv, Init, Idle
<1> QED BY <1>1, <1>2, <1>4, <1>5 DEF ConflictsInv

\* Claims that exist do not come back to life, but by a job that read them alive.
LEMMA AliveShrinks ==
    ASSUME RowsOK,
           \A c \in Existing : claim'[c].state \in {"candidate", "active", "historical"} => c \in Alive,
           \A w \in Worker :
              \/ work'[w] = work[w]
              \/ work'[w].kind \notin {"promote", "retain"}
              \/ Updates(w)' \subseteq Live
    PROVE  Alive' \cap Existing \subseteq Alive
<1> SUFFICES ASSUME NEW c \in Claim, c \in Alive', c \in Existing PROVE c \in Alive
  BY DEF Existing
<1>1. CASE c \in Live'
  BY <1>1 DEF Live
<1>2. CASE c \notin Live'
  <2>1. PICK w \in Worker : work'[w].kind \in {"promote", "retain"} /\ c \in Updates(w)'
    BY <1>2 DEF Alive
  <2>2. CASE work'[w] = work[w]
    BY <2>1, <2>2 DEF Alive, Updates
  <2>3. CASE Updates(w)' \subseteq Live
    BY <2>1, <2>3 DEF Alive
  <2> QED BY <2>1, <2>2, <2>3
<1> QED BY <1>1, <1>2

\* A step that raises no conflict, adds items at most where there are none, starts
\* and reads no scan, and brings no claim back.
LEMMA ConflictsKept ==
    ASSUME ConflictsInv, ClaimsInv',
           Alive' \cap Existing \subseteq Alive, Existing \subseteq Existing',
           conflictItem' \in [Pair -> 0..2], conflict' \in [Pair -> [open : 0..2, closed : 0..2, by : SUBSET Claim]],
           VerdictIsFinal',
           \A p \in Pair :
              IF conflict'[p].open > 0
              THEN conflict[p].open > 0 /\ conflictItem'[p] > 0 /\ conflict'[p].by = conflict[p].by
              ELSE conflict'[p].by = {},
           \A p \in Pair : conflictItem'[p] <= 1 \/ conflictItem'[p] <= conflictItem[p],
           \A w \in Worker : work'[w].kind = "conflict" => work'[w] = work[w]
    PROVE  ConflictsInv'
<1> USE DEF ConflictsInv
<1>1. TypeOK'
  BY DEF TypeOK, ClaimsInv
<1>2. OpenInv'
  BY DEF OpenInv
<1>3. \A p \in Pair : conflict[p].open > 0 => p \cap Alive' \subseteq p \cap Alive
  BY DEF OpenInv
<1>4. TopicsInv'
  <2> SUFFICES ASSUME NEW p \in Pair, NEW q \in Pair,
                      conflict'[p].open > 0, conflict'[q].open > 0, SameTopics(p, q)
               PROVE  \/ conflict'[p].by = conflict'[q].by
                      \/ p \cap Alive' = {} \/ q \cap Alive' = {}
    BY DEF TopicsInv, SameTopics
  <2>1. \/ conflict[p].by = conflict[q].by
        \/ p \cap Alive = {} \/ q \cap Alive = {}
    BY DEF TopicsInv
  <2> QED BY <1>3, <2>1
<1>5. ScanInv'
  <2> SUFFICES ASSUME NEW w \in Worker, work'[w].kind = "conflict"
               PROVE  /\ work'[w].live \subseteq Existing'
                      /\ \A p \in work'[w].pairs : p \subseteq work'[w].live /\ \A c, d \in p : Topic[c] = Topic[d]
                      /\ \A q \in Pair : conflict'[q].open > 0 => q \cap Alive' \subseteq work'[w].live
                      /\ work'[w].stage = 2 =>
                            \A p \in work'[w].pairs :
                               /\ conflictItem'[p] <= 1
                               /\ \A q \in Pair : conflict'[q].open > 0 /\ SameTopics(p, q) =>
                                     q \cap work'[w].live = {}
    BY DEF ScanInv, SameTopics
  <2>1. work'[w] = work[w]
    OBVIOUS
  <2>2. /\ work[w].live \subseteq Existing
        /\ \A p \in work[w].pairs : p \subseteq work[w].live /\ \A c, d \in p : Topic[c] = Topic[d]
        /\ \A q \in Pair : conflict[q].open > 0 => q \cap Alive \subseteq work[w].live
        /\ work[w].stage = 2 =>
              \A p \in work[w].pairs :
                 /\ conflictItem[p] <= 1
                 /\ \A q \in Pair : conflict[q].open > 0 /\ SameTopics(p, q) => q \cap work[w].live = {}
    BY <2>1 DEF ScanInv
  <2>3. \A q \in Pair : conflict'[q].open > 0 => q \cap Alive' \subseteq work[w].live
    BY <1>3, <2>2
  <2>4. ASSUME NEW p \in work[w].pairs, work[w].stage = 2 PROVE conflictItem'[p] <= 1
    <3>1. conflictItem[p] <= 1 /\ p \in Pair
      BY <2>1, <2>2, <2>4, WorkTypes DEF ClaimsInv
    <3>2. conflictItem[p] \in Nat /\ conflictItem'[p] \in Nat
      BY <3>1 DEF TypeOK
    <3> QED BY <3>1, <3>2
  <2>5. \A p \in work[w].pairs, q \in Pair :
           work[w].stage = 2 /\ conflict'[q].open > 0 /\ SameTopics(p, q) => q \cap work[w].live = {}
    BY <2>2
  <2>6. work[w].live \subseteq Existing'
    BY <2>2
  <2> QED BY <2>1, <2>2, <2>3, <2>4, <2>5, <2>6
<1> QED BY <1>1, <1>2, <1>4, <1>5

\* The same, when neither items nor conflicts change.
LEMMA ConflictsStay ==
    ASSUME ConflictsInv, ClaimsInv', Alive' \cap Existing \subseteq Alive, Existing \subseteq Existing',
           UNCHANGED <<conflictItem, conflict>>,
           \A w \in Worker : work'[w].kind = "conflict" => work'[w] = work[w]
    PROVE  ConflictsInv'
<1>1. conflictItem' \in [Pair -> 0..2] /\ conflict' \in [Pair -> [open : 0..2, closed : 0..2, by : SUBSET Claim]]
  BY DEF ConflictsInv, TypeOK
<1>2. VerdictIsFinal'
  BY DEF ConflictsInv, VerdictIsFinal
<1>3. \A p \in Pair : conflictItem'[p] <= conflictItem[p]
  BY DEF ConflictsInv, TypeOK
<1>4. \A p \in Pair :
         IF conflict'[p].open > 0
         THEN conflict[p].open > 0 /\ conflictItem'[p] > 0 /\ conflict'[p].by = conflict[p].by
         ELSE conflict'[p].by = {}
  BY DEF ConflictsInv, OpenInv
<1> QED BY <1>1, <1>2, <1>3, <1>4, ConflictsKept

\* A job other than a scan that is taken up writes only what it read alive.
LEMMA ConflictsTakeUp ==
    ASSUME ConflictsInv, ClaimsInv', NEW a \in Worker \cup Resolver,
           NEW kind \in {"promote", "retain", "dedupe", "merge", "extract"}, TakesUp(a, kind),
           kind \in {"promote", "retain"} => Updates(a)' \subseteq Live
    PROVE  ConflictsInv'
<1>1. /\ work'[a].kind = kind /\ UNCHANGED <<claim, conflictItem, conflict>>
      /\ \A v \in Worker \cup Resolver : v # a => work'[v] = work[v]
  BY DEF TakesUp, items
<1>2. Existing' = Existing
  BY <1>1 DEF Existing
<1>3. \A c \in Existing : claim'[c].state \in {"candidate", "active", "historical"} => c \in Alive
  BY <1>1 DEF Alive, Live, Existing
<1>4. Alive' \cap Existing \subseteq Alive
  BY <1>1, <1>3, AliveShrinks DEF ConflictsInv, ClaimsInv
<1> QED BY <1>1, <1>2, <1>4, ConflictsStay

\* A job that ends, having written at most what was counted as alive.
LEMMA ConflictsJobEnds ==
    ASSUME ConflictsInv, ClaimsInv', NEW a \in Worker \cup Resolver, work' = [work EXCEPT ![a] = Idle],
           \A c \in Existing :
              /\ claim'[c] # NoClaim
              /\ claim'[c].state \in {"candidate", "active", "historical"} => c \in Alive,
           UNCHANGED <<conflictItem, conflict>>
    PROVE  ConflictsInv'
<1>1. \A v \in Worker \cup Resolver : work'[v] = work[v] \/ work'[v] = Idle
  BY DEF ConflictsInv, ClaimsInv, RowsOK
<1>2. Alive' \cap Existing \subseteq Alive
  BY <1>1, AliveShrinks DEF ConflictsInv, ClaimsInv, Idle
<1>3. Existing \subseteq Existing'
  BY DEF Existing
<1>4. \A w \in Worker : work'[w].kind = "conflict" => work'[w] = work[w]
  BY <1>1 DEF Idle
<1> QED BY <1>2, <1>3, <1>4, ConflictsStay

\* What a job of the worker writes is counted as alive.
LEMMA WritesAlive ==
    ASSUME RowsOK, NEW w \in Worker, work[w].kind \in {"promote", "retain"},
           \A c \in Claim : work[w].next[c] # "same" => c \in Existing,
           NEW establish, Write(work[w].next, establish)
    PROVE  \A c \in Existing :
              /\ claim'[c] # NoClaim
              /\ claim'[c].state \in {"candidate", "active", "historical"} => c \in Alive
<1>1. work[w].next \in [Claim -> ClaimState \cup {"same"}]
  BY WorkTypes
<1>2. /\ \A c \in Claim : claim'[c] = claim[c] \/ work[w].next[c] # "same"
      /\ Existing' = Existing
  BY <1>1, Writes
<1>3. ASSUME NEW c \in Existing, claim'[c].state \in {"candidate", "active", "historical"}
      PROVE  c \in Alive
  <2>1. c \in Claim
    BY DEF Existing
  <2>2. CASE claim'[c] = claim[c]
    BY <1>3, <2>1, <2>2 DEF Alive, Live
  <2>3. CASE work[w].next[c] # "same"
    BY <2>1, <2>3 DEF Alive, Updates
  <2> QED BY <1>2, <2>1, <2>2, <2>3
<1>4. \A c \in Existing : claim'[c] # NoClaim
  BY <1>2 DEF Existing
<1> QED BY <1>3, <1>4

\* Steps that leave claims and jobs alone leave alone what is alive.
LEMMA AliveStays ==
    ASSUME UNCHANGED <<claim, work>> PROVE Alive' = Alive /\ Existing' = Existing /\ Live' = Live
<1>1. Existing' = Existing
  BY DEF Existing
<1>2. Live' = Live
  BY DEF Live
<1>3. \A w \in Worker : Updates(w)' = Updates(w)
  BY DEF Updates
<1> QED BY <1>1, <1>2, <1>3 DEF Alive

\* The clock raises no conflict.
LEMMA ConflictsTime == ASSUME ConflictsInv, TimePasses PROVE ConflictsInv'
<1>1. ClaimsInv' /\ UNCHANGED <<claim, work, conflictItem, conflict>>
  BY ClaimsTime DEF ConflictsInv, TimePasses, items
<1> QED BY <1>1, AliveStays, ConflictsStay

\* A merge that is rejected.
LEMMA ConflictsRejectMerge == ASSUME ConflictsInv, NEW p \in Pair, RejectMerge(p) PROVE ConflictsInv'
<1>1. ClaimsInv' /\ UNCHANGED <<claim, work, conflictItem, conflict>>
  BY ClaimsRejectMerge DEF ConflictsInv, RejectMerge
<1> QED BY <1>1, AliveStays, ConflictsStay

\* An item that a client opens, where there is none.
LEMMA ConflictsCreateItem == ASSUME ConflictsInv, NEW p \in Pair, CreateReviewItem(p) PROVE ConflictsInv'
<1> USE DEF ConflictsInv
<1>1. ClaimsInv' /\ UNCHANGED <<claim, work, conflict>>
  BY ClaimsCreateItem DEF CreateReviewItem
<1>2. \/ UNCHANGED conflictItem
      \/ conflictItem[p] = 0 /\ conflictItem' = [conflictItem EXCEPT ![p] = 1]
  BY DEF CreateReviewItem
<1>3. conflictItem \in [Pair -> 0..2]
  BY DEF TypeOK
<1>4. /\ conflictItem' \in [Pair -> 0..2]
      /\ \A q \in Pair : conflictItem'[q] = conflictItem[q] \/ (conflictItem[q] = 0 /\ conflictItem'[q] = 1)
  BY <1>2, <1>3
<1>5. \A q \in Pair : conflictItem'[q] <= 1 \/ conflictItem'[q] <= conflictItem[q]
  BY <1>3, <1>4
<1>6. \A q \in Pair :
         IF conflict'[q].open > 0
         THEN conflict[q].open > 0 /\ conflictItem'[q] > 0 /\ conflict'[q].by = conflict[q].by
         ELSE conflict'[q].by = {}
  BY <1>1, <1>3, <1>4 DEF OpenInv
<1>7. conflict' \in [Pair -> [open : 0..2, closed : 0..2, by : SUBSET Claim]] /\ VerdictIsFinal'
  BY <1>1 DEF TypeOK, VerdictIsFinal
<1> QED BY <1>1, <1>4, <1>5, <1>6, <1>7, AliveStays, ConflictsKept

\* A verdict closes what is open, once.
LEMMA ConflictsResolve == ASSUME ConflictsInv, NEW p \in Pair, ResolveConflict(p) PROVE ConflictsInv'
<1> USE DEF ConflictsInv
<1>1. /\ ClaimsInv' /\ UNCHANGED <<claim, work>>
      /\ conflictItem[p] > 0 /\ conflictItem' = [conflictItem EXCEPT ![p] = @ - 1]
      /\ conflict' = [conflict EXCEPT ![p] = [open |-> 0, closed |-> @.closed + @.open, by |-> {}]]
  BY ClaimsResolveConflict DEF ResolveConflict, MayResolve
<1>2. conflictItem \in [Pair -> 0..2] /\ conflict \in [Pair -> [open : 0..2, closed : 0..2, by : SUBSET Claim]]
  BY DEF TypeOK
<1>3. conflictItem[p] \in 1..2 /\ conflict[p].open + conflict[p].closed <= 1
  BY <1>1, <1>2 DEF VerdictIsFinal
<1>4. /\ conflictItem' \in [Pair -> 0..2]
      /\ conflictItem'[p] = conflictItem[p] - 1
      /\ \A q \in Pair : q # p => conflictItem'[q] = conflictItem[q]
  BY <1>1, <1>2, <1>3
<1>5. PICK row : row = [open |-> 0, closed |-> conflict[p].closed + conflict[p].open, by |-> {}]
  OBVIOUS
<1>6. row \in [open : 0..2, closed : 0..2, by : SUBSET Claim] /\ row.open = 0 /\ row.closed <= 1 /\ row.by = {}
  BY <1>2, <1>3, <1>5
<1>7. /\ conflict' \in [Pair -> [open : 0..2, closed : 0..2, by : SUBSET Claim]]
      /\ conflict'[p] = row
      /\ \A q \in Pair : q # p => conflict'[q] = conflict[q]
  BY <1>1, <1>2, <1>5, <1>6
<1>8. VerdictIsFinal'
  <2> SUFFICES ASSUME NEW q \in Pair PROVE conflict'[q].open + conflict'[q].closed <= 1
    BY DEF VerdictIsFinal
  <2>1. CASE q = p
    BY <1>6, <1>7, <2>1
  <2>2. CASE q # p
    BY <1>7, <2>2 DEF VerdictIsFinal
  <2> QED BY <2>1, <2>2
<1>9. \A q \in Pair :
         IF conflict'[q].open > 0
         THEN conflict[q].open > 0 /\ conflictItem'[q] > 0 /\ conflict'[q].by = conflict[q].by
         ELSE conflict'[q].by = {}
  BY <1>4, <1>6, <1>7 DEF OpenInv
<1>10. \A q \in Pair : conflictItem'[q] <= conflictItem[q]
  BY <1>2, <1>3, <1>4
<1> QED BY <1>1, <1>4, <1>7, <1>8, <1>9, <1>10, AliveStays, ConflictsKept

\* A proposal is about no pair that is under review.
LEMMA ConflictsPropose ==
    ASSUME ConflictsInv, NEW c \in Claim, NEW k \in Classes[c], ProposeSelfClaim(c, k) PROVE ConflictsInv'
<1>1. ClaimsInv' /\ UNCHANGED <<work, conflictItem, conflict>> /\ c \notin Existing
  BY ClaimsPropose DEF ConflictsInv, ProposeSelfClaim, Fresh, Existing
<1>2. \A d \in Claim : d # c => claim'[d] = claim[d]
  BY DEF ProposeSelfClaim, ConflictsInv, ClaimsInv, RowsOK
<1>3. \A d \in Existing : d \in Claim /\ claim'[d] = claim[d] /\ claim[d] # NoClaim
  BY <1>1, <1>2 DEF Existing
<1>4. Existing \subseteq Existing'
  BY <1>3 DEF Existing
<1>5. Alive' \cap Existing \subseteq Alive
  BY <1>1, <1>3, AliveShrinks DEF ConflictsInv, ClaimsInv, Alive, Live
<1> QED BY <1>1, <1>4, <1>5, ConflictsStay

\* A confirmation finds its claim alive.
LEMMA ConflictsResolveProfile ==
    ASSUME ConflictsInv, NEW c \in Claim, NEW yes \in BOOLEAN, ResolveProfile(c, yes) PROVE ConflictsInv'
<1>1. ClaimsInv' /\ UNCHANGED <<work, conflictItem, conflict>>
  BY ClaimsResolveProfile DEF ConflictsInv, ResolveProfile
<1>2. \A d \in Claim : claim'[d] = claim[d] \/ (d = c /\ claim[d].state = "candidate")
  BY DEF ResolveProfile, Awaits, ConflictsInv, ClaimsInv, RowsOK
<1>3. claim'[c].state = claim[c].state \/ claim'[c].state = "active"
  <2>1. CASE claim' = claim
    BY <2>1
  <2>2. CASE claim' # claim
    <3>1. claim[c] \in Row
      BY <1>2, <2>2, RowTypes DEF ResolveProfile, Awaits, ConflictsInv, ClaimsInv, ClaimState
    <3>2. PICK new : new = [claim[c] EXCEPT !.state = "active", !.pending = FALSE]
      OBVIOUS
    <3>3. new.state = "active"
      BY <3>1, <3>2 DEF Row
    <3>4. claim' = [claim EXCEPT ![c] = new]
      BY <2>2, <3>2 DEF ResolveProfile
    <3> QED BY <3>3, <3>4 DEF ConflictsInv, ClaimsInv, RowsOK
  <2> QED BY <2>1, <2>2
<1>4. \A d \in Existing : claim'[d].state \in ClaimState
  <2>1. \A d \in Existing : d \in Claim /\ claim[d].state \in ClaimState
    BY RowTypes DEF Existing, ConflictsInv, ClaimsInv
  <2> QED BY <1>2, <1>3, <2>1 DEF ClaimState
<1>5. \A d \in Claim : claim'[d].state \in ClaimState => d \in Existing'
  BY <1>1 DEF NoClaim, Existing, ClaimState
<1>6. Existing \subseteq Existing'
  BY <1>4, <1>5 DEF Existing
<1>7. \A d \in Existing : claim'[d].state \in {"candidate", "active", "historical"} => d \in Alive
  BY <1>2 DEF Alive, Live, Existing
<1>8. Alive' \cap Existing \subseteq Alive
  BY <1>1, <1>7, AliveShrinks DEF ConflictsInv, ClaimsInv
<1> QED BY <1>1, <1>6, <1>8, ConflictsStay

\* A deletion brings nothing back.
LEMMA ConflictsDelete == ASSUME ConflictsInv, NEW c \in Claim, DeleteClaim(c) PROVE ConflictsInv'
<1>1. ClaimsInv' /\ UNCHANGED <<work, conflictItem, conflict>> /\ claim[c] # NoClaim
  BY ClaimsDelete DEF ConflictsInv, DeleteClaim
<1>2. claim[c] \in Row
  BY <1>1, RowTypes DEF ConflictsInv, ClaimsInv
<1>3. PICK new : new = [claim[c] EXCEPT !.state = "deleted"]
  OBVIOUS
<1>4. new.state = "deleted" /\ new # NoClaim
  BY <1>2, <1>3 DEF Row, NoClaim
<1>5. claim' = [claim EXCEPT ![c] = new]
  BY <1>3 DEF DeleteClaim
<1>6. claim'[c] = new /\ \A d \in Claim : d # c => claim'[d] = claim[d]
  BY <1>5 DEF ConflictsInv, ClaimsInv, RowsOK
<1>7. Existing \subseteq Existing'
  BY <1>4, <1>6 DEF Existing
<1>8. \A d \in Existing : claim'[d].state \in {"candidate", "active", "historical"} => d \in Alive
  BY <1>4, <1>6 DEF Alive, Live, Existing
<1>9. Alive' \cap Existing \subseteq Alive
  BY <1>1, <1>8, AliveShrinks DEF ConflictsInv, ClaimsInv
<1> QED BY <1>1, <1>7, <1>9, ConflictsStay

\* Promotion writes what it read alive.
LEMMA ConflictsCommitPromotion == ASSUME ConflictsInv, NEW w \in Worker, CommitPromotion(w) PROVE ConflictsInv'
<1>1. PICK establish : Write(work[w].next, establish)
  BY DEF CommitPromotion
<1>2. /\ work[w].kind = "promote" /\ work' = [work EXCEPT ![w] = Idle]
      /\ UNCHANGED <<conflictItem, conflict>> /\ ClaimsInv' /\ RowsOK
  BY ClaimsCommitPromotion DEF CommitPromotion, items, ConflictsInv, ClaimsInv
<1>3. \A c \in Claim : work[w].next[c] # "same" => c \in Existing
  BY <1>2 DEF ConflictsInv, ClaimsInv, WorkInv, Updates
<1> QED BY <1>1, <1>2, <1>3, WritesAlive, ConflictsJobEnds

\* The sweep.
LEMMA ConflictsCommitRetention == ASSUME ConflictsInv, NEW w \in Worker, CommitRetention(w) PROVE ConflictsInv'
<1>1. /\ work[w].kind = "retain" /\ work' = [work EXCEPT ![w] = Idle] /\ Write(work[w].next, {})
      /\ UNCHANGED <<conflictItem, conflict>> /\ ClaimsInv' /\ RowsOK
  BY ClaimsCommitRetention DEF CommitRetention, items, ConflictsInv, ClaimsInv
<1>2. \A c \in Claim : work[w].next[c] # "same" => c \in Existing
  BY <1>1 DEF ConflictsInv, ClaimsInv, WorkInv, Updates
<1> QED BY <1>1, <1>2, WritesAlive, ConflictsJobEnds

\* A merge supersedes.
LEMMA ConflictsMerges ==
    ASSUME ConflictsInv, ClaimsInv', NEW a \in Worker \cup Resolver, work' = [work EXCEPT ![a] = Idle],
           \A c \in Claim : claim'[c] = claim[c] \/ claim'[c].state = "superseded",
           UNCHANGED <<conflictItem, conflict>>
    PROVE  ConflictsInv'
<1>1. \A c \in Existing : claim'[c] # NoClaim
  BY DEF Existing, NoClaim
<1>2. \A c \in Existing : claim'[c].state \in {"candidate", "active", "historical"} => c \in Alive
  BY DEF Existing, Alive, Live
<1> QED BY <1>1, <1>2, ConflictsJobEnds

\* The dedupe's merges.
LEMMA ConflictsCommitDedupe == ASSUME ConflictsInv, NEW w \in Worker, CommitDedupe(w) PROVE ConflictsInv'
<1>1. /\ work[w].kind = "dedupe" /\ Merge(work[w].into) /\ work' = [work EXCEPT ![w] = Idle]
      /\ UNCHANGED <<extracted, profileItem, conflictItem, conflict, incidents, now, confirmed>>
      /\ ClaimsInv /\ ClaimsInv'
  BY ClaimsCommitDedupe DEF CommitDedupe, ConflictsInv
<1>2. mergeItem' \in [Pair -> SUBSET Claim]
  BY <1>1 DEF ClaimsInv, RowsOK
<1> QED BY <1>1, <1>2, Merges, ConflictsMerges

\* The owner's merge.
LEMMA ConflictsCommitMerge == ASSUME ConflictsInv, NEW r \in Resolver, CommitMerge(r) PROVE ConflictsInv'
<1>1. /\ work[r].kind = "merge" /\ Merge(work[r].into) /\ work' = [work EXCEPT ![r] = Idle]
      /\ UNCHANGED <<extracted, profileItem, conflictItem, conflict, incidents, now, confirmed>>
      /\ ClaimsInv /\ ClaimsInv'
  BY ClaimsCommitMerge DEF CommitMerge, ConflictsInv
<1>2. mergeItem' \in [Pair -> SUBSET Claim]
  BY <1>1 DEF ClaimsInv, RowsOK
<1> QED BY <1>1, <1>2, Merges, ConflictsMerges

\* An extraction inserts what did not exist.
LEMMA ConflictsCommitExtraction == ASSUME ConflictsInv, NEW w \in Worker, CommitExtraction(w) PROVE ConflictsInv'
<1>1. /\ work' = [work EXCEPT ![w] = Idle] /\ UNCHANGED <<conflictItem, conflict>>
      /\ ClaimsInv' /\ \A c \in Existing : claim'[c] = claim[c]
  BY ClaimsCommitExtraction DEF CommitExtraction, items, ConflictsInv
<1>2. \A c \in Existing : /\ claim'[c] # NoClaim
                          /\ claim'[c].state \in {"candidate", "active", "historical"} => c \in Alive
  BY <1>1 DEF Existing, Alive, Live
<1> QED BY <1>1, <1>2, ConflictsJobEnds

\* A job that fails writes nothing.
LEMMA ConflictsAbort == ASSUME ConflictsInv, NEW a \in Worker \cup Resolver, Abort(a) PROVE ConflictsInv'
<1>1. /\ work' = [work EXCEPT ![a] = Idle] /\ UNCHANGED <<claim, conflictItem, conflict>> /\ ClaimsInv'
  BY ClaimsAbort DEF Abort, ConflictsInv
<1>2. \A c \in Existing : /\ claim'[c] # NoClaim
                          /\ claim'[c].state \in {"candidate", "active", "historical"} => c \in Alive
  BY <1>1 DEF Existing, Alive, Live
<1> QED BY <1>1, <1>2, ConflictsJobEnds

\* The worker that scans is the only one, so that nothing else is about to be written.
LEMMA ScanAlone ==
    ASSUME NEW w \in Worker, TakesUp(w, "conflict") PROVE Alive' = Live /\ Existing' = Existing
<1>1. \A v \in Worker : v = w
  BY OneWorker
<1>2. Live' = Live /\ Existing' = Existing
  BY DEF TakesUp, Live, Existing
<1>3. Alive' = Live'
  BY <1>1 DEF TakesUp, Alive
<1> QED BY <1>2, <1>3

\* A read of the scan leaves conflicts as they are.
LEMMA ScanReads ==
    ASSUME ConflictsInv, ClaimsInv', NEW w \in Worker, TakesUp(w, "conflict"), ScanInv'
    PROVE  ConflictsInv'
<1> USE DEF ConflictsInv
<1>1. UNCHANGED <<conflictItem, conflict>>
  BY DEF TakesUp, items
<1>2. Alive' = Live /\ Existing' = Existing /\ Live \subseteq Alive
  BY ScanAlone DEF Alive
<1>3. TypeOK' /\ VerdictIsFinal'
  BY <1>1 DEF TypeOK, VerdictIsFinal, ClaimsInv
<1>4. OpenInv'
  BY <1>1, <1>2 DEF OpenInv
<1>5. TopicsInv'
  <2> SUFFICES ASSUME NEW p \in Pair, NEW q \in Pair,
                      conflict[p].open > 0, conflict[q].open > 0, SameTopics(p, q)
               PROVE  \/ conflict[p].by = conflict[q].by
                      \/ p \cap Alive' = {} \/ q \cap Alive' = {}
    BY <1>1 DEF TopicsInv, SameTopics
  <2>1. \/ conflict[p].by = conflict[q].by
        \/ p \cap Alive = {} \/ q \cap Alive = {}
    BY DEF TopicsInv
  <2> QED BY <1>2, <2>1
<1> QED BY <1>3, <1>4, <1>5

\* What the claims say at the start of a scan.
LEMMA ConflictsBeginScan == ASSUME ConflictsInv, NEW w \in Worker, BeginConflictScan(w) PROVE ConflictsInv'
<1>1. /\ ClaimsInv'
      /\ TakesUp(w, "conflict") /\ work'[w].stage = 1 /\ work'[w].live = Live
      /\ \A p \in work'[w].pairs : p \subseteq Live /\ \A c, d \in p : Topic[c] = Topic[d]
  BY ClaimsBeginScan DEF ConflictsInv
<1>2. Live \subseteq Existing /\ Existing' = Existing /\ Alive' = Live
  BY <1>1, LiveExist, ScanAlone DEF ConflictsInv, ClaimsInv
<1>3. ScanInv'
  <2> SUFFICES ASSUME NEW v \in Worker
               PROVE  /\ work'[v].live \subseteq Existing'
                      /\ \A p \in work'[v].pairs :
                            p \subseteq work'[v].live /\ \A c, d \in p : Topic[c] = Topic[d]
                      /\ \A q \in Pair : q \cap Alive' \subseteq work'[v].live
                      /\ work'[v].stage # 2
    BY DEF ScanInv, SameTopics
  <2>1. v = w
    BY OneWorker
  <2> QED BY <1>1, <1>2, <2>1
<1> QED BY <1>1, <1>3, ScanReads

\* The topics under review are taken off its list.
LEMMA ConflictsReadOpenItems == ASSUME ConflictsInv, NEW w \in Worker, ReadOpenItems(w) PROVE ConflictsInv'
<1> USE DEF ConflictsInv
<1>1. PICK live : live = work[w].live
  OBVIOUS
<1>2. /\ ClaimsInv'
      /\ TakesUp(w, "conflict") /\ work'[w].stage = 2 /\ work'[w].live = live
      /\ work'[w].pairs = {p \in work[w].pairs : OffTopic(p, live)}
  BY <1>1, ClaimsReadOpenItems
<1>3. UNCHANGED <<conflictItem, conflict>>
  BY <1>2 DEF TakesUp, items
<1>4. work[w].kind = "conflict"
  BY DEF ReadOpenItems
<1>5. /\ live \subseteq Existing /\ live \subseteq Claim
      /\ \A p \in work[w].pairs :
            p \in Pair /\ p \subseteq live /\ \A c, d \in p : Topic[c] = Topic[d]
      /\ \A q \in Pair : conflict[q].open > 0 => q \cap Alive \subseteq live
  BY <1>1, <1>4, WorkTypes DEF ScanInv, ClaimsInv
<1>6. Alive' = Live /\ Existing' = Existing /\ Live \subseteq Alive
  BY <1>2, ScanAlone DEF Alive
<1>7. ASSUME NEW q \in Pair, conflictItem[q] > 0, NEW c \in q, c \in live
      PROVE  Topic[c] \in UnderReview(live)
  BY <1>7 DEF UnderReview
<1>8. ASSUME NEW p \in work[w].pairs, OffTopic(p, live), NEW q \in Pair, conflictItem[q] > 0, SameTopics(p, q)
      PROVE  q \cap live = {}
  <2> SUFFICES ASSUME NEW c \in q, c \in live PROVE FALSE
    OBVIOUS
  <2>1. Topic[c] \in {Topic[d] : d \in p}
    BY <1>8 DEF SameTopics
  <2>2. PICK d \in p : Topic[d] = Topic[c]
    BY <2>1
  <2>3. Topic[d] \notin UnderReview(live)
    BY <1>8 DEF OffTopic
  <2> QED BY <1>7, <1>8, <2>2, <2>3
<1>9. ASSUME NEW p \in work[w].pairs, OffTopic(p, live) PROVE conflictItem[p] <= 1
  <2>1. p \in Pair /\ p # {} /\ p \subseteq live
    BY <1>5, PairMembers
  <2>2. ~(conflictItem[p] > 0)
    BY <1>8, <1>9, <2>1 DEF SameTopics
  <2>3. conflictItem[p] \in 0..2
    BY <2>1 DEF TypeOK
  <2> QED BY <2>2, <2>3
<1>10. ScanInv'
  <2> SUFFICES ASSUME NEW v \in Worker
               PROVE  /\ work'[v].live \subseteq Existing'
                      /\ \A p \in work'[v].pairs :
                            p \subseteq work'[v].live /\ \A c, d \in p : Topic[c] = Topic[d]
                      /\ \A q \in Pair : conflict'[q].open > 0 => q \cap Alive' \subseteq work'[v].live
                      /\ \A p \in work'[v].pairs :
                            /\ conflictItem'[p] <= 1
                            /\ \A q \in Pair : conflict'[q].open > 0 /\ SameTopics(p, q) =>
                                  q \cap work'[v].live = {}
    BY DEF ScanInv, SameTopics
  <2>1. v = w
    BY OneWorker
  <2>2. \A q \in Pair : conflict[q].open > 0 => q \cap Alive' \subseteq live
    BY <1>5, <1>6
  <2>3. \A q \in Pair : conflict[q].open > 0 => conflictItem[q] > 0
    BY DEF OpenInv
  <2>4. \A p \in work'[w].pairs : p \in work[w].pairs /\ OffTopic(p, live)
    BY <1>2
  <2>5. \A p \in work'[w].pairs :
           /\ conflictItem[p] <= 1
           /\ \A q \in Pair : conflict[q].open > 0 /\ SameTopics(p, q) => q \cap live = {}
    BY <1>8, <1>9, <2>3, <2>4
  <2> QED BY <1>2, <1>3, <1>5, <1>6, <2>1, <2>2, <2>4, <2>5
<1> QED BY <1>2, <1>10, ScanReads

\* The new conflicts of a topic are about one candidate; the topic is under review by no
\* conflict before them, and none of their pairs was judged.
LEMMA ConflictsCommit == ASSUME ConflictsInv, NEW w \in Worker, CommitConflicts(w) PROVE ConflictsInv'
<1> USE DEF ConflictsInv
<1>1. PICK live : live = work[w].live
  OBVIOUS
<1>2. PICK free : free = {p \in work[w].pairs : ~Judged(p)}
  OBVIOUS
<1>3. /\ work[w].kind = "conflict" /\ work[w].stage = 2
      /\ work' = [work EXCEPT ![w] = Idle]
      /\ UNCHANGED <<claim, evidence, extracted, profileItem, mergeItem, incidents, now, confirmed>>
  BY DEF CommitConflicts
<1>4. PICK C \in SUBSET Claim :
        /\ \A c, d \in C : Topic[c] = Topic[d] => c = d
        /\ conflict' = [p \in Pair |->
              IF p \in free /\ p \cap C # {}
              THEN [conflict[p] EXCEPT !.open = @ + 1, !.by = @ \cup (p \cap C)]
              ELSE conflict[p]]
        /\ conflictItem' = [p \in Pair |->
              IF p \in free /\ p \cap C # {} THEN conflictItem[p] + 1 ELSE conflictItem[p]]
  <2>1. free = {p \in work[w].pairs : Left(2, p, work[w].live)}
    BY <1>2 DEF Left
  <2>2. work[w].candidates \subseteq Claim
    BY <1>3, WorkTypes DEF ClaimsInv
  <2> DEFINE left == {p \in work[w].pairs : Left(2, p, work[w].live)}
  <2>3. \E C \in SUBSET {c \in work[w].candidates : \E p \in left : c \in p} :
          /\ \A c, d \in C : Topic[c] = Topic[d] => c = d
          /\ conflict' = [p \in Pair |->
                IF p \in left /\ p \cap C # {}
                THEN [conflict[p] EXCEPT !.open = @ + 1, !.by = @ \cup (p \cap C)]
                ELSE conflict[p]]
          /\ conflictItem' = [p \in Pair |->
                IF p \in left /\ p \cap C # {} THEN conflictItem[p] + 1 ELSE conflictItem[p]]
    BY DEF CommitConflicts
  <2>4. left = free
    BY <2>1
  <2> HIDE DEF left
  <2>5. PICK C \in SUBSET Claim :
          /\ \A c, d \in C : Topic[c] = Topic[d] => c = d
          /\ conflict' = [p \in Pair |->
                IF p \in left /\ p \cap C # {}
                THEN [conflict[p] EXCEPT !.open = @ + 1, !.by = @ \cup (p \cap C)]
                ELSE conflict[p]]
          /\ conflictItem' = [p \in Pair |->
                IF p \in left /\ p \cap C # {} THEN conflictItem[p] + 1 ELSE conflictItem[p]]
    BY <2>2, <2>3, Zenon
  <2> QED BY <2>4, <2>5, Zenon
<1>5. PICK new : new = {p \in free : p \cap C # {}}
  OBVIOUS
<1>6. \A p \in new : p \in work[w].pairs /\ conflict[p].closed <= 0
  <2>1. \A p \in new : p \in work[w].pairs /\ ~(conflict[p].closed > 0)
    BY <1>2, <1>5 DEF Judged
  <2>2. \A p \in work[w].pairs : p \in Pair
    BY <1>3, WorkTypes DEF ClaimsInv
  <2>3. \A p \in Pair : conflict[p].closed \in 0..2
    BY DEF TypeOK
  <2> QED BY <2>1, <2>2, <2>3
<1>7. /\ live \subseteq Existing
      /\ \A p \in new : /\ p \in Pair /\ p # {} /\ p \subseteq live /\ conflictItem[p] <= 1
                        /\ p \cap C # {} /\ \A c, d \in p : Topic[c] = Topic[d]
                        /\ \A q \in Pair : conflict[q].open > 0 /\ SameTopics(p, q) => q \cap live = {}
      /\ \A q \in Pair : conflict[q].open > 0 => q \cap Alive \subseteq live
  BY <1>1, <1>3, <1>5, <1>6, WorkTypes, PairMembers DEF ScanInv, ClaimsInv
<1>8. \A p \in new : ~(conflict[p].open > 0)
  BY <1>7 DEF SameTopics
<1>9. /\ conflictItem \in [Pair -> 0..2] /\ conflict \in [Pair -> [open : 0..2, closed : 0..2, by : SUBSET Claim]]
      /\ \A p \in Pair : conflict[p].open \in 0..2 /\ conflict[p].closed \in 0..2 /\ conflictItem[p] \in 0..2
      /\ \A p \in new : conflict[p].open = 0 /\ conflict[p].closed = 0 /\ conflict[p].by = {}
  <2>1. conflictItem \in [Pair -> 0..2] /\ conflict \in [Pair -> [open : 0..2, closed : 0..2, by : SUBSET Claim]]
    BY DEF TypeOK
  <2>2. \A p \in Pair : conflict[p].open \in 0..2 /\ conflict[p].closed \in 0..2 /\ conflictItem[p] \in 0..2
    BY <2>1
  <2>3. ASSUME NEW p \in new PROVE conflict[p].open = 0 /\ conflict[p].closed = 0 /\ conflict[p].by = {}
    <3>1. p \in Pair /\ ~(conflict[p].open > 0) /\ conflict[p].closed <= 0
      BY <1>6, <1>7, <1>8
    <3>2. conflict[p].open \in 0..2 /\ conflict[p].closed \in 0..2
      BY <2>2, <3>1
    <3>3. conflict[p].by = {}
      BY <3>1 DEF OpenInv
    <3> QED BY <3>1, <3>2, <3>3
  <2> QED BY <2>1, <2>2, <2>3
<1>10. \A p \in Pair :
          /\ p \notin new => conflict'[p] = conflict[p] /\ conflictItem'[p] = conflictItem[p]
          /\ p \in new => /\ conflict'[p] \in [open : 0..2, closed : 0..2, by : SUBSET Claim]
                          /\ conflict'[p].open = 1 /\ conflict'[p].closed = 0 /\ conflict'[p].by = p \cap C
                          /\ conflictItem'[p] = conflictItem[p] + 1
  <2>1. ASSUME NEW p \in Pair, p \notin new PROVE conflict'[p] = conflict[p] /\ conflictItem'[p] = conflictItem[p]
    BY <1>4, <1>5, <2>1
  <2>2. ASSUME NEW p \in Pair, p \in new
        PROVE  /\ conflict'[p] \in [open : 0..2, closed : 0..2, by : SUBSET Claim]
               /\ conflict'[p].open = 1 /\ conflict'[p].closed = 0 /\ conflict'[p].by = p \cap C
               /\ conflictItem'[p] = conflictItem[p] + 1
    <3>1. /\ conflict[p] \in [open : 0..2, closed : 0..2, by : SUBSET Claim]
          /\ conflict[p].open = 0 /\ conflict[p].closed = 0 /\ conflict[p].by = {}
      BY <1>9, <2>2
    <3>2. conflict'[p] = [conflict[p] EXCEPT !.open = conflict[p].open + 1, !.by = conflict[p].by \cup (p \cap C)]
      BY <1>4, <1>5, <2>2
    <3>3. conflictItem'[p] = conflictItem[p] + 1
      BY <1>4, <1>5, <2>2
    <3>4. conflict[p].by \cup (p \cap C) = p \cap C /\ p \cap C \in SUBSET Claim
      BY <3>1
    <3>5. PICK named : named = conflict[p].by \cup (p \cap C)
      OBVIOUS
    <3>6. conflict'[p] = [conflict[p] EXCEPT !.open = 1, !.by = named] /\ named \in SUBSET Claim
      BY <3>1, <3>2, <3>4, <3>5
    <3>7. conflict[p] = [open |-> conflict[p].open, closed |-> conflict[p].closed, by |-> conflict[p].by]
      BY <3>1
    <3>8. conflict'[p] = [open |-> 1, closed |-> 0, by |-> named]
      BY <3>1, <3>6, <3>7
    <3>9. /\ conflict'[p] \in [open : 0..2, closed : 0..2, by : SUBSET Claim]
          /\ conflict'[p].open = 1 /\ conflict'[p].closed = 0 /\ conflict'[p].by = named
      <4>1. PICK row : row = [open |-> 1, closed |-> 0, by |-> named]
        OBVIOUS
      <4>2. /\ row \in [open : 0..2, closed : 0..2, by : SUBSET Claim]
            /\ row.open = 1 /\ row.closed = 0 /\ row.by = named
        BY <3>6, <4>1
      <4> QED BY <3>8, <4>1, <4>2, Zenon
    <3> QED BY <3>3, <3>4, <3>5, <3>9
  <2> QED BY <2>1, <2>2
<1>11. ClaimsInv'
  BY ClaimsCommitConflicts
<1>12. TypeOK'
  <2>1. \A p \in Pair : conflictItem'[p] \in 0..2 /\ conflict'[p] \in [open : 0..2, closed : 0..2, by : SUBSET Claim]
    <3> SUFFICES ASSUME NEW p \in Pair
                 PROVE  conflictItem'[p] \in 0..2 /\ conflict'[p] \in [open : 0..2, closed : 0..2, by : SUBSET Claim]
      OBVIOUS
    <3>1. CASE p \in new
      <4>1. conflictItem'[p] \in 0..2
        BY <1>7, <1>9, <1>10, <3>1
      <4>2. conflict'[p] \in [open : 0..2, closed : 0..2, by : SUBSET Claim]
        BY <1>10, <3>1
      <4> QED BY <4>1, <4>2
    <3>2. CASE p \notin new
      BY <1>9, <1>10, <3>2
    <3> QED BY <3>1, <3>2
  <2>2. DOMAIN conflict' = Pair /\ DOMAIN conflictItem' = Pair
    BY <1>4
  <2>3. conflictItem' = [p \in Pair |-> conflictItem'[p]] /\ conflict' = [p \in Pair |-> conflict'[p]]
    BY <1>4
  <2>4. conflictItem' \in [Pair -> 0..2] /\ conflict' \in [Pair -> [open : 0..2, closed : 0..2, by : SUBSET Claim]]
    BY <2>1, <2>2, <2>3
  <2> QED BY <1>11, <2>4 DEF TypeOK, ClaimsInv
<1>13. VerdictIsFinal'
  <2> SUFFICES ASSUME NEW p \in Pair PROVE conflict'[p].open + conflict'[p].closed <= 1
    BY DEF VerdictIsFinal
  <2>1. CASE p \in new
    BY <1>10, <2>1
  <2>2. CASE p \notin new
    BY <1>10, <2>2 DEF VerdictIsFinal
  <2> QED BY <2>1, <2>2
<1>14. Existing' = Existing /\ Live' = Live
  BY <1>3 DEF Existing, Live
<1>15. \A v \in Worker : v = w
  BY OneWorker
<1>16. Alive' = Live /\ Live \subseteq Alive
  <2>1. work'[w] = Idle
    BY <1>3, WorkEnds DEF ClaimsInv
  <2> QED BY <1>14, <1>15, <2>1 DEF Alive, Idle
<1>17. OpenInv'
  <2> SUFFICES ASSUME NEW p \in Pair
               PROVE  IF conflict'[p].open > 0 THEN conflictItem'[p] > 0 /\ p \subseteq Existing'
                      ELSE conflict'[p].by = {}
    BY DEF OpenInv
  <2>1. CASE p \in new
    BY <1>7, <1>9, <1>10, <1>14, <2>1
  <2>2. CASE p \notin new
    BY <1>10, <1>14, <2>2 DEF OpenInv
  <2> QED BY <2>1, <2>2
<1>18. ASSUME NEW p \in new, NEW q \in Pair, q \notin new, conflict'[q].open > 0, SameTopics(p, q)
       PROVE  q \cap Alive' = {}
  <2>1. conflict[q].open > 0
    BY <1>10, <1>18
  <2>2. q \cap live = {} /\ q \cap Alive \subseteq live
    BY <1>7, <1>18, <2>1
  <2> QED BY <1>16, <2>2
<1>19. TopicsInv'
  <2> SUFFICES ASSUME NEW p \in Pair, NEW q \in Pair,
                      conflict'[p].open > 0, conflict'[q].open > 0, SameTopics(p, q)
               PROVE  \/ conflict'[p].by = conflict'[q].by
                      \/ p \cap Alive' = {} \/ q \cap Alive' = {}
    BY DEF TopicsInv, SameTopics
  <2>1. CASE p \in new /\ q \in new
    <3>1. ASSUME NEW c \in p \cap C, NEW d \in q \cap C PROVE c = d
      <4>1. Topic[c] \in {Topic[e] : e \in q}
        BY DEF SameTopics
      <4>2. Topic[c] = Topic[d]
        BY <1>7, <2>1, <4>1
      <4> QED BY <1>4, <4>2
    <3>2. p \cap C # {} /\ q \cap C # {}
      BY <1>7, <2>1
    <3>3. p \cap C = q \cap C
      BY <3>1, <3>2
    <3>4. conflict'[p].by = p \cap C /\ conflict'[q].by = q \cap C
      BY <1>10, <2>1
    <3> QED BY <3>3, <3>4
  <2>2. CASE p \in new /\ q \notin new
    BY <1>18, <2>2
  <2>3. CASE p \notin new /\ q \in new
    <3>1. SameTopics(q, p)
      BY DEF SameTopics
    <3> QED BY <1>18, <2>3, <3>1
  <2>4. CASE p \notin new /\ q \notin new
    <3>1. conflict[p].open > 0 /\ conflict[q].open > 0
      BY <1>10, <2>4
    <3>2. \/ conflict[p].by = conflict[q].by
          \/ p \cap Alive = {} \/ q \cap Alive = {}
      BY <3>1 DEF TopicsInv
    <3> QED BY <1>10, <1>16, <2>4, <3>2
  <2> QED BY <2>1, <2>2, <2>3, <2>4
<1>20. ScanInv'
  <2>1. work'[w] = Idle
    BY <1>3, WorkEnds DEF ClaimsInv
  <2>2. \A v \in Worker : work'[v].kind # "conflict"
    BY <1>15, <2>1 DEF Idle
  <2> QED BY <2>2 DEF ScanInv
<1> QED BY <1>11, <1>12, <1>13, <1>17, <1>19, <1>20

\* Every step keeps the invariant.
LEMMA ConflictsNext == ASSUME ConflictsInv, Next PROVE ConflictsInv'
<1>1. ClaimsInv
  BY DEF ConflictsInv
<1>2. CASE TimePasses
  BY <1>2, ConflictsTime
<1>3. ASSUME NEW r \in Resolver, NEW p \in Pair, BeginMerge(r, p) PROVE ConflictsInv'
  BY <1>1, <1>3, ClaimsBeginMerge, ConflictsTakeUp
<1>4. CASE Server
  BY <1>3, <1>4, ConflictsPropose, ConflictsResolveProfile, ConflictsDelete, ConflictsCreateItem,
     ConflictsResolve, ConflictsRejectMerge, ConflictsCommitMerge DEF Server
<1>5. ASSUME NEW w \in Worker, StartJob(w) PROVE ConflictsInv'
  <2>1. CASE BeginPromotion(w)
    BY <1>1, <2>1, ClaimsBeginPromotion, ConflictsTakeUp
  <2>2. CASE BeginRetention(w)
    BY <1>1, <2>2, ClaimsBeginRetention, ConflictsTakeUp
  <2>3. CASE BeginConflictScan(w)
    BY <2>3, ConflictsBeginScan
  <2>4. CASE BeginDedupe(w)
    BY <1>1, <2>4, ClaimsBeginDedupe, ConflictsTakeUp
  <2>5. ASSUME NEW s \in RawInput, BeginExtraction(w, s) PROVE ConflictsInv'
    BY <1>1, <2>5, ClaimsBeginExtraction, ConflictsTakeUp
  <2> QED BY <1>5, <2>1, <2>2, <2>3, <2>4, <2>5 DEF StartJob
<1>6. ASSUME NEW w \in Worker, Step(w) PROVE ConflictsInv'
  BY <1>6, ConflictsCommitPromotion, ConflictsCommitRetention, ConflictsReadOpenItems, ConflictsCommit,
     ConflictsCommitDedupe, ConflictsCommitExtraction DEF Step
<1>7. ASSUME NEW a \in Worker \cup Resolver, Abort(a) PROVE ConflictsInv'
  BY <1>7, ConflictsAbort
<1> QED BY <1>2, <1>4, <1>5, <1>6, <1>7 DEF Next

\* Steps and stutters keep the invariants.
LEMMA NoticesStep == ASSUME N!IndInv, [N!Next]_(N!vars) PROVE N!IndInv'
<1>1. CASE UNCHANGED N!vars
  <2>1. UNCHANGED <<tick, open, notices, job, run>>
    BY <1>1 DEF N!vars
  <2>2. N!TypeOK'
    BY <2>1 DEF N!IndInv, N!TypeOK
  <2>3. N!RunsInv'
    BY <2>1, RunsStay DEF N!IndInv, N!RunsInv
  <2>4. N!JobsInv' /\ N!RepeatsOverlap' /\ N!OwnerLearns'
    BY <2>1 DEF N!IndInv, N!JobsInv, N!RepeatsOverlap, N!OwnerLearns
  <2> QED BY <2>2, <2>3, <2>4 DEF N!IndInv
<1>2. CASE N!Next
  BY <1>2, NoticesNext
<1> QED BY <1>1, <1>2

\* The claims, with any number of workers.
LEMMA ClaimsStep == ASSUME ClaimsInv, [Next]_vars PROVE ClaimsInv'
<1>1. CASE UNCHANGED vars
  <2>1. RowsOK'
    BY <1>1 DEF vars, items, ClaimsInv, RowsOK
  <2> QED BY <1>1, <2>1, ClaimsStay DEF vars
<1> QED BY <1>1, ClaimsNext

\* The conflicts.
LEMMA ConflictsStep == ASSUME ConflictsInv, [Next]_vars PROVE ConflictsInv'
<1>1. CASE UNCHANGED vars
  <2>1. ClaimsInv' /\ UNCHANGED <<claim, work, conflictItem, conflict>>
    BY <1>1, ClaimsStep DEF vars, items, ConflictsInv
  <2> QED BY <2>1, AliveStays, ConflictsStay
<1> QED BY <1>1, ConflictsNext

\* What is alive includes what is live.
LEMMA TopicsOnce == TopicsInv => OneCandidatePerTopic
<1>1. Live \subseteq Alive
  BY DEF Alive
<1> QED BY <1>1 DEF TopicsInv, OneCandidatePerTopic, SameTopics

-----------------------------------------------------------------------------
(***************************************************************************)
(* The theorems.                                                           *)
(***************************************************************************)
\* The notices keep their inductive invariant: what a run that will insert a notice has
\* seen, what one that is over did, and what the jobs say of it.
THEOREM NoticesCorrect == N!Spec => [](N!IndInv)
<1> QED BY NoticesInit, NoticesStep, PTL DEF N!Spec

\* A claim of class C is active, established or historical only if the owner approved
\* it, with any number of workers that promote, age, merge and extract at once.
THEOREM Confirmations == Spec => []ConfirmedByOwner
<1>1. ClaimsInv => ConfirmedByOwner
  BY DEF ClaimsInv
<1> QED BY ClaimsInit, ClaimsStep, <1>1, PTL DEF Spec

\* With the one worker that is deployed a verdict is final, and the open conflicts of a
\* topic, however many a scan raised, are about one candidate, unless all claims of one
\* of them are gone.
THEOREM Conflicts == Spec => [](VerdictIsFinal /\ OneCandidatePerTopic)
<1>1. ConflictsInv => VerdictIsFinal /\ OneCandidatePerTopic
  BY TopicsOnce DEF ConflictsInv
<1> QED BY ConflictsInit, ConflictsStep, <1>1, PTL DEF Spec

\* The invariants of both desks, in the specification of the run: a topic is under
\* review for one candidate at a time.
THEOREM TopicsHold == ReviewSpec => []OneCandidateReviewed
<1> DEFINE Inv == desk \in {"claims", "notices"} /\ OneCandidateReviewed
<1>1. ReviewInit => Inv
  BY ConflictsInit, NoticesInit, TopicsOnce DEF ReviewInit, OneCandidateReviewed, ConflictsInv
<1>2. Inv /\ [ReviewNext]_reviewVars => Inv'
  <2> SUFFICES ASSUME Inv, [ReviewNext]_reviewVars
               PROVE  Inv'
    OBVIOUS
  <2>1. desk' = desk
    BY DEF ReviewNext, reviewVars
  <2>2. CASE desk = "claims"
    <3>1. [Next]_vars
      BY <2>2 DEF ReviewNext, reviewVars
    <3>2. ConflictsInv'
      BY <2>2, <3>1, ConflictsStep DEF OneCandidateReviewed
    <3>3. OneCandidatePerTopic'
      <4>1. TopicsInv'
        BY <3>2 DEF ConflictsInv
      <4>2. Live' \subseteq Alive'
        BY DEF Alive
      <4> QED BY <4>1, <4>2 DEF TopicsInv, OneCandidatePerTopic, SameTopics
    <3> QED BY <2>1, <2>2, <3>2, <3>3 DEF OneCandidateReviewed
  <2>3. CASE desk = "notices"
    <3>1. [N!Next]_(N!vars)
      BY <2>3 DEF ReviewNext, reviewVars, noticeVars, N!vars
    <3>2. N!IndInv'
      BY <2>3, <3>1, NoticesStep DEF OneCandidateReviewed
    <3> QED BY <2>1, <2>3, <3>2 DEF OneCandidateReviewed
  <2> QED BY <2>2, <2>3
<1> QED BY <1>1, <1>2, PTL DEF ReviewSpec

\* A pair that was judged, even while a scan was under way, is never raised again.
THEOREM VerdictsHold == ReviewSpec => []VerdictsAreFinal
<1>1. OneCandidateReviewed => VerdictsAreFinal
  BY DEF OneCandidateReviewed, VerdictsAreFinal, ConflictsInv
<1> QED BY <1>1, TopicsHold, PTL

\* A claim of class C is not active without its confirmation, in the specification of
\* the run; the argument needs no bound on the workers.
THEOREM ConfirmationsHold == ReviewSpec => []ConfirmedByTheOwner
<1>1. OneCandidateReviewed => ConfirmedByTheOwner
  BY DEF OneCandidateReviewed, ConfirmedByTheOwner, ConflictsInv, ClaimsInv
<1> QED BY <1>1, TopicsHold, PTL

\* Two notices with one key are a cooldown apart within their day, or come from runs
\* that overlapped.
THEOREM RepeatsHold == ReviewSpec => []RepeatsOverlap
<1>1. OneCandidateReviewed => RepeatsOverlap
  BY DEF OneCandidateReviewed, RepeatsOverlap, N!IndInv
<1> QED BY <1>1, TopicsHold, PTL

\* An open item whose job succeeded has a notice, and a notice is delivered once its
\* dispatch is over, unless the attempts were used up.
THEOREM OwnerIsTold == ReviewSpec => []OwnerLearns
<1>1. OneCandidateReviewed => OwnerLearns
  BY DEF OneCandidateReviewed, OwnerLearns, N!IndInv
<1> QED BY <1>1, TopicsHold, PTL
=============================================================================

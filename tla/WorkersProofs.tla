--------------------------- MODULE WorkersProofs ---------------------------
(***************************************************************************)
(* Proofs about the worker's day, for any schedules, workers, days, jobs   *)
(* and scopes: the scheduler enqueues a job once a day and forgets none,   *)
(* the budget of a day holds, and digests that were gone through are       *)
(* complete.                                                               *)
(***************************************************************************)
EXTENDS MCWorkers, FiniteSetTheorems, TLAPS

-----------------------------------------------------------------------------
(***************************************************************************)
(* The scheduler.                                                          *)
(***************************************************************************)
\* Instants are numbers, and a day begins right after the one before ends.
LEMMA Instants ==
    /\ \A d, s \in Nat : Instant(d, s) \in Nat
    /\ \A d \in Nat : Instant(d + 1, 0) = Instant(d, LastSlot) + 1
    /\ \A d, s, t \in Nat : s <= t => Instant(d, s) <= Instant(d, t)
    /\ \A d, s \in Nat : Instant(d, s + 1) = Instant(d, s) + 1
<1> LastSlot \in Nat
  BY ScheduleAssumption
<1>1. \A d, s \in Nat : d * (LastSlot + 1) \in Nat /\ Instant(d, s) = d * (LastSlot + 1) + s
  BY DEF Instant
<1>2. \A d \in Nat : (d + 1) * (LastSlot + 1) = d * (LastSlot + 1) + LastSlot + 1
  OBVIOUS
<1>3. ASSUME NEW d \in Nat, NEW s \in Nat
      PROVE  Instant(d, s) \in Nat /\ Instant(d, s + 1) = Instant(d, s) + 1
  <2> DEFINE start == d * (LastSlot + 1)
  <2>1. start \in Nat /\ Instant(d, s) = start + s /\ Instant(d, s + 1) = start + (s + 1)
    BY DEF Instant
  <2> HIDE DEF start
  <2> QED BY <2>1
<1>4. ASSUME NEW d \in Nat
      PROVE  Instant(d + 1, 0) = Instant(d, LastSlot) + 1
  <2> DEFINE start == d * (LastSlot + 1)
  <2>1. start \in Nat /\ Instant(d, LastSlot) = start + LastSlot
        /\ Instant(d + 1, 0) = start + LastSlot + 1 + 0
    BY <1>2 DEF Instant
  <2> HIDE DEF start
  <2> QED BY <2>1
<1>5. ASSUME NEW d \in Nat, NEW s \in Nat, NEW t \in Nat, s <= t
      PROVE  Instant(d, s) <= Instant(d, t)
  <2> DEFINE start == d * (LastSlot + 1)
  <2>1. start \in Nat /\ Instant(d, s) = start + s /\ Instant(d, t) = start + t
    BY DEF Instant
  <2> HIDE DEF start
  <2> QED BY <2>1, <1>5
<1> QED BY <1>3, <1>4, <1>5

\* The last slot of the last day is the latest instant.
LEMMA LastInstant == \A d \in Day, s \in Slot : Instant(d, s) <= Instant(LastDay, LastSlot)
<1> SUFFICES ASSUME NEW d \in Day, NEW s \in Slot
             PROVE  Instant(d, s) <= Instant(LastDay, LastSlot)
  OBVIOUS
<1> LastSlot \in Nat /\ LastDay \in Nat /\ d \in Nat /\ s \in Nat /\ d <= LastDay /\ s <= LastSlot
  BY ScheduleAssumption DEF Day, Slot
<1> DEFINE width == LastSlot + 1
<1>1. d * width <= LastDay * width
  OBVIOUS
<1>2. d * width \in Nat /\ LastDay * width \in Nat
  OBVIOUS
<1> QED BY <1>1, <1>2 DEF Instant

\* The present is an instant of the days of the model.
LEMMA Present == TypeOK => Now \in 0..Instant(LastDay, LastSlot) /\ Instant(LastDay, LastSlot) \in Nat
<1> SUFFICES ASSUME TypeOK
             PROVE  Now \in 0..Instant(LastDay, LastSlot) /\ Instant(LastDay, LastSlot) \in Nat
  OBVIOUS
<1>1. day \in Day /\ slot \in Slot /\ day \in Nat /\ slot \in Nat /\ LastDay \in Nat /\ LastSlot \in Nat
  BY ScheduleAssumption DEF TypeOK, Day, Slot
<1> QED BY <1>1, Instants, LastInstant DEF Now

\* At first there is nothing to go through.
LEMMA ScheduleInit == Init => IndInv
<1> SUFFICES ASSUME Init
             PROVE  IndInv
  OBVIOUS
<1> USE DEF Init
<1>1. 0 \in Day /\ slot \in Slot /\ 0 \in 0..MaxFailures
  BY ScheduleAssumption DEF Day, Slot
<1>2. Instant(LastDay, LastSlot) + 1 \in Nat
  BY ScheduleAssumption, Instants
<1>3. TypeOK
  BY <1>1, <1>2 DEF TypeOK
<1>4. TickInv /\ CatchesUp /\ LocksInv
  BY DEF TickInv, CatchesUp, LocksInv
<1>5. OncePerDay /\ NothingDueIsMissed /\ NeverEarly
  BY DEF OncePerDay, NothingDueIsMissed, NeverEarly
<1> QED BY <1>3, <1>4, <1>5 DEF IndInv

\* Time goes on by one instant.
LEMMA TimeGoesOn == IndInv /\ TimePasses => IndInv'
<1> SUFFICES ASSUME IndInv, TimePasses
             PROVE  IndInv'
  OBVIOUS
<1> USE DEF IndInv, TimePasses
<1>1. day \in Nat /\ slot \in Nat /\ LastDay \in Nat /\ LastSlot \in Nat /\ day <= LastDay /\ slot <= LastSlot
  BY ScheduleAssumption DEF TypeOK, Day, Slot
<1>2. day' \in Day /\ slot' \in Slot
  BY <1>1 DEF Day, Slot
<1>3. TypeOK'
  BY <1>2 DEF TypeOK
<1>4. Now' = Now + 1 /\ Now \in Nat
  BY <1>1, Instants DEF Now
<1>5. TickInv'
  <2> SUFFICES ASSUME NEW w \in Worker, started[w] # Never
               PROVE  Instant(started[w][1], started[w][2]) <= Now'
    BY DEF TickInv
  <2>1. started[w][1] \in Nat /\ started[w][2] \in Nat
    BY DEF TypeOK, Day, Slot
  <2>2. Instant(started[w][1], started[w][2]) \in Nat
    BY <2>1, Instants
  <2>3. Instant(started[w][1], started[w][2]) <= Now
    BY DEF TickInv
  <2> QED BY <2>2, <2>3, <1>4
<1>6. CatchesUp' /\ LocksInv' /\ OncePerDay' /\ NothingDueIsMissed'
  BY DEF CatchesUp, LocksInv, OncePerDay, NothingDueIsMissed
<1>7. NeverEarly'
  <2> SUFFICES ASSUME NEW k \in Key, rows[k] > 0 \/ k \in ran
               PROVE  Instant(k[2], At[k[1]]) <= available[k] /\ Instant(k[2], At[k[1]]) <= Now'
    BY DEF NeverEarly
  <2>1. Instant(k[2], At[k[1]]) <= available[k] /\ Instant(k[2], At[k[1]]) <= Now
    BY DEF NeverEarly
  <2>2. Instant(k[2], At[k[1]]) \in Nat
    BY ScheduleAssumption, Instants DEF Key, Day
  <2> QED BY <2>1, <2>2, <1>4
<1> QED BY <1>3, <1>5, <1>6, <1>7

\* A tick notes when it began and what is due by then.
LEMMA TickStarts == ASSUME IndInv, NEW w \in Worker, StartTick(w) PROVE IndInv'
<1> USE DEF IndInv, StartTick
<1>1. day \in Day /\ slot \in Slot /\ day \in Nat /\ slot \in Nat
  BY ScheduleAssumption DEF TypeOK, Day, Slot
<1>2. {s \in Schedule : Due(s)} \X {day} \in SUBSET Key
  BY <1>1 DEF Key
<1>3. TypeOK'
  BY <1>1, <1>2 DEF TypeOK
<1>4. Now' = Now
  BY DEF Now
<1>5. <<day, slot>> # Never
  BY DEF Never
<1>6. \A v \in Worker \ {w} : started'[v] = started[v] /\ todo'[v] = todo[v] /\ pc'[v] = pc[v]
  BY DEF TypeOK
<1>7. started'[w] = <<day, slot>> /\ todo'[w] = {s \in Schedule : Due(s)} \X {day} /\ pc'[w] = "tick"
  BY DEF TypeOK
<1>8. fresh[w] = {}
  BY DEF TickInv
<1>9. TickInv'
  <2> SUFFICES ASSUME NEW v \in Worker
               PROVE  /\ started'[v] # Never => Instant(started'[v][1], started'[v][2]) <= Now
                      /\ pc'[v] = "idle" => todo'[v] = {} /\ fresh[v] = {}
                      /\ pc'[v] = "tick" => started'[v] # Never
                      /\ \A k \in todo'[v] \cup fresh[v] :
                            k[2] = started'[v][1] /\ At[k[1]] <= started'[v][2]
    BY <1>4 DEF TickInv
  <2>1. CASE v = w
    <3>1. Instant(day, slot) <= Now
      BY <1>1, Instants DEF Now
    <3>2. \A k \in todo'[w] : k[2] = day /\ At[k[1]] <= slot
      BY <1>7, <1>1, ScheduleAssumption DEF Due, Slot
    <3> QED BY <2>1, <3>1, <3>2, <1>5, <1>7, <1>8
  <2>2. CASE v # w
    BY <2>2, <1>6 DEF TickInv
  <2> QED BY <2>1, <2>2
<1>10. CatchesUp'
  <2> SUFFICES ASSUME NEW v \in Worker, pc'[v] = "tick", NEW s \in Schedule, At[s] <= started'[v][2]
               PROVE  <<s, started'[v][1]>> \in todo'[v] \cup fresh[v] \/ rows[<<s, started'[v][1]>>] > 0
    BY DEF CatchesUp
  <2>1. CASE v = w
    <3>1. At[s] <= slot /\ At[s] \in Nat
      BY <2>1, <1>7, ScheduleAssumption DEF Slot
    <3> QED BY <2>1, <3>1, <1>1, <1>7 DEF Due
  <2>2. CASE v # w
    BY <2>2, <1>6 DEF CatchesUp
  <2> QED BY <2>1, <2>2
<1>11. LocksInv' /\ OncePerDay' /\ NothingDueIsMissed'
  BY DEF LocksInv, OncePerDay, NothingDueIsMissed
<1>12. NeverEarly'
  BY <1>4 DEF NeverEarly
<1> QED BY <1>3, <1>9, <1>10, <1>11, <1>12

\* A key is locked, and its row is counted.
LEMMA KeyVisited == ASSUME IndInv, NEW w \in Worker, NEW k \in Key, VisitKey(w, k) PROVE IndInv'
<1> USE DEF IndInv, VisitKey
<1>1. TypeOK'
  <2>1. lock' \in [Key -> SUBSET Worker] /\ todo' \in [Worker -> SUBSET Key]
        /\ fresh' \in [Worker -> SUBSET Key]
    BY DEF TypeOK
  <2> QED BY <2>1 DEF TypeOK
<1>2. Now' = Now
  BY DEF Now
<1>3. \A v \in Worker \ {w} : todo'[v] = todo[v] /\ fresh'[v] = fresh[v]
  BY DEF TypeOK
<1>4. todo'[w] = todo[w] \ {k} /\ fresh'[w] = IF rows[k] = 0 THEN fresh[w] \cup {k} ELSE fresh[w]
  BY DEF TypeOK
<1>5. lock'[k] = {w} /\ \A j \in Key : j # k => lock'[j] = lock[j]
  BY DEF TypeOK, LockFree
<1>6. TickInv'
  <2>1. \A v \in Worker : todo'[v] \cup fresh'[v] \subseteq todo[v] \cup fresh[v]
    BY <1>3, <1>4
  <2>2. \A v \in Worker : pc[v] = "idle" => todo'[v] = {} /\ fresh'[v] = {}
    BY <1>3 DEF TickInv
  <2> QED BY <2>1, <2>2, <1>2 DEF TickInv
<1>7. CatchesUp'
  <2> SUFFICES ASSUME NEW v \in Worker, pc[v] = "tick", NEW s \in Schedule, At[s] <= started[v][2]
               PROVE  <<s, started[v][1]>> \in todo'[v] \cup fresh'[v] \/ rows[<<s, started[v][1]>>] > 0
    BY DEF CatchesUp
  <2>1. <<s, started[v][1]>> \in todo[v] \cup fresh[v] \/ rows[<<s, started[v][1]>>] > 0
    BY DEF CatchesUp
  <2>2. rows[k] \in Nat
    BY DEF TypeOK
  <2>3. CASE v = w
    BY <2>1, <2>2, <2>3, <1>4
  <2>4. CASE v # w
    BY <2>1, <2>4, <1>3
  <2> QED BY <2>3, <2>4
<1>8. LocksInv'
  <2>1. \A j \in Key : \A u, v \in lock'[j] : u = v
    BY <1>5 DEF LocksInv
  <2> SUFFICES ASSUME NEW v \in Worker, NEW j \in fresh'[v]
               PROVE  v \in lock'[j] /\ rows[j] = 0
    BY <2>1 DEF LocksInv
  <2>2. j \in Key
    BY <1>1 DEF TypeOK
  <2>3. CASE j \in fresh[v]
    <3>1. v \in lock[j] /\ rows[j] = 0
      BY <2>3 DEF LocksInv
    <3>2. j # k
      BY <3>1 DEF LockFree
    <3> QED BY <3>1, <3>2, <2>2, <1>5
  <2>4. CASE j \notin fresh[v]
    <3>1. v = w /\ j = k /\ rows[k] = 0
      BY <2>4, <1>3, <1>4
    <3> QED BY <3>1, <1>5
  <2> QED BY <2>3, <2>4
<1>9. OncePerDay' /\ NothingDueIsMissed'
  BY DEF OncePerDay, NothingDueIsMissed
<1>10. NeverEarly'
  BY <1>2 DEF NeverEarly
<1> QED BY <1>1, <1>6, <1>7, <1>8, <1>9, <1>10

\* The end of a tick, whether it commits or not: the worker holds nothing any more.
LEMMA TickEnds ==
    ASSUME IndInv, NEW w \in Worker, EndTick(w)
    PROVE  /\ lock' \in [Key -> SUBSET Worker] /\ pc' \in [Worker -> {"idle", "tick"}]
           /\ todo' \in [Worker -> SUBSET Key] /\ fresh' \in [Worker -> SUBSET Key]
           /\ pc'[w] = "idle" /\ todo'[w] = {} /\ fresh'[w] = {}
           /\ \A v \in Worker \ {w} : pc'[v] = pc[v] /\ todo'[v] = todo[v] /\ fresh'[v] = fresh[v]
           /\ \A k \in Key : lock'[k] = lock[k] \ {w}
BY DEF IndInv, TypeOK, EndTick

\* A tick that commits leaves one row under each key it went through.
LEMMA TickCommits == ASSUME IndInv, NEW w \in Worker, CommitTick(w) PROVE IndInv'
<1> USE DEF IndInv, CommitTick
<1> DEFINE moment == Instant(started[w][1], started[w][2])
<1>1. started[w] # Never /\ started[w][1] \in Day /\ started[w][2] \in Slot
      /\ started[w][1] \in Nat /\ started[w][2] \in Nat
  BY DEF TypeOK, TickInv, Day, Slot
<1>2. moment \in Nat /\ moment <= Now /\ moment <= Instant(LastDay, LastSlot)
  BY <1>1, Instants, LastInstant DEF TickInv
<1>3. Now' = Now /\ Now \in Nat /\ Instant(LastDay, LastSlot) \in Nat
  BY Present DEF Now
<1>4. fresh[w] \subseteq Key
  BY DEF TypeOK
<1>5. \A k \in Key : /\ rows'[k] = rows[k] + IF k \in fresh[w] THEN 1 ELSE 0
                     /\ available'[k] = IF k \in fresh[w] THEN moment ELSE available[k]
                     /\ rows[k] \in Nat
  BY DEF Written, TypeOK
<1>6. \A k \in fresh[w] : rows[k] = 0 /\ lock[k] = {w}
  BY <1>4 DEF LocksInv, TypeOK
<1>7. \A k \in Key : rows'[k] \in Nat /\ rows'[k] >= rows[k]
  BY <1>5
<1> HIDE DEF moment
<1>8. TypeOK'
  <2>1. rows' \in [Key -> Nat]
    BY <1>7
  <2>2. available' \in [Key -> 0..(Instant(LastDay, LastSlot) + 1)]
    BY <1>2, <1>3, <1>5 DEF TypeOK
  <2>3. ticked' \in SUBSET (Day \X Slot)
    BY <1>1 DEF TypeOK
  <2> QED BY <2>1, <2>2, <2>3, TickEnds DEF TypeOK
<1>9. TickInv'
  BY <1>3, TickEnds DEF TickInv
<1>10. CatchesUp'
  <2> SUFFICES ASSUME NEW v \in Worker, pc'[v] = "tick", NEW s \in Schedule, At[s] <= started[v][2]
               PROVE  \/ <<s, started[v][1]>> \in todo'[v] \cup fresh'[v]
                      \/ rows'[<<s, started[v][1]>>] > 0
    BY DEF CatchesUp
  <2>1. v # w /\ pc[v] = "tick"
    BY TickEnds
  <2>2. <<s, started[v][1]>> \in todo[v] \cup fresh[v] \/ rows[<<s, started[v][1]>>] > 0
    BY <2>1 DEF CatchesUp
  <2>3. <<s, started[v][1]>> \in Key
    BY <2>1 DEF TypeOK, TickInv, Key
  <2> QED BY <2>1, <2>2, <2>3, <1>5, <1>7, TickEnds
<1>11. LocksInv'
  <2>1. \A k \in Key : \A u, v \in lock'[k] : u = v
    BY TickEnds DEF LocksInv
  <2>2. ASSUME NEW v \in Worker, NEW k \in fresh'[v]
        PROVE  v \in lock'[k] /\ rows'[k] = 0
    <3>1. v # w /\ k \in fresh[v] /\ k \in Key
      BY TickEnds DEF TypeOK
    <3>2. v \in lock[k] /\ rows[k] = 0
      BY <3>1 DEF LocksInv
    <3>3. k \notin fresh[w]
      BY <3>1, <3>2, <1>6
    <3> QED BY <3>1, <3>2, <3>3, <1>5, TickEnds
  <2> QED BY <2>1, <2>2 DEF LocksInv
<1>12. OncePerDay'
  <2> SUFFICES ASSUME NEW k \in Key
               PROVE  rows'[k] <= 1
    BY DEF OncePerDay
  <2> QED BY <1>5, <1>6 DEF OncePerDay
<1>13. NothingDueIsMissed'
  <2> SUFFICES ASSUME NEW t \in ticked', NEW s \in Schedule, At[s] <= t[2]
               PROVE  rows'[<<s, t[1]>>] > 0
    BY DEF NothingDueIsMissed
  <2>1. <<s, t[1]>> \in Key
    BY <1>1 DEF TypeOK, Key
  <2>2. CASE t \in ticked
    BY <2>1, <2>2, <1>5, <1>7 DEF NothingDueIsMissed
  <2>3. CASE t = started[w]
    BY <2>1, <2>3, <1>5, <1>7 DEF CatchesUp
  <2> QED BY <2>2, <2>3
<1>14. NeverEarly'
  <2> SUFFICES ASSUME NEW k \in Key, rows'[k] > 0 \/ k \in ran
               PROVE  Instant(k[2], At[k[1]]) <= available'[k] /\ Instant(k[2], At[k[1]]) <= Now
    BY <1>3 DEF NeverEarly
  <2>1. CASE k \in fresh[w]
    <3>1. k[2] = started[w][1] /\ At[k[1]] <= started[w][2] /\ At[k[1]] \in Nat
      BY <2>1, ScheduleAssumption DEF TickInv, Key, Slot
    <3>2. Instant(k[2], At[k[1]]) <= moment /\ Instant(k[2], At[k[1]]) \in Nat
      BY <3>1, <1>1, Instants DEF moment
    <3> QED BY <3>2, <2>1, <1>2, <1>3, <1>5
  <2>2. CASE k \notin fresh[w]
    BY <2>2, <1>5 DEF NeverEarly
  <2> QED BY <2>1, <2>2
<1> QED BY <1>8, <1>9, <1>10, <1>11, <1>12, <1>13, <1>14

\* A tick that fails leaves nothing behind.
LEMMA TickFails == ASSUME IndInv, NEW w \in Worker, FailTick(w) PROVE IndInv'
<1> USE DEF IndInv, FailTick
<1>1. started' \in [Worker -> (Day \X Slot) \cup {Never}] /\ started'[w] = Never
      /\ \A v \in Worker \ {w} : started'[v] = started[v]
  BY DEF TypeOK
<1>2. failures' \in 0..MaxFailures
  BY ScheduleAssumption DEF TypeOK
<1>3. TypeOK'
  BY <1>1, <1>2, TickEnds DEF TypeOK
<1>4. Now' = Now
  BY DEF Now
<1>5. TickInv'
  BY <1>1, <1>4, TickEnds DEF TickInv
<1>6. CatchesUp'
  BY <1>1, TickEnds DEF CatchesUp
<1>7. LocksInv'
  <2>1. \A k \in Key : \A u, v \in lock'[k] : u = v
    BY TickEnds DEF LocksInv
  <2>2. ASSUME NEW v \in Worker, NEW k \in fresh'[v]
        PROVE  v \in lock'[k] /\ rows[k] = 0
    <3>1. v # w /\ k \in fresh[v] /\ k \in Key
      BY TickEnds DEF TypeOK
    <3> QED BY <3>1, TickEnds DEF LocksInv
  <2> QED BY <2>1, <2>2 DEF LocksInv
<1>8. OncePerDay' /\ NothingDueIsMissed' /\ NeverEarly'
  BY <1>4 DEF OncePerDay, NothingDueIsMissed, NeverEarly
<1> QED BY <1>3, <1>5, <1>6, <1>7, <1>8

\* A job runs, or is put off, after the time at which it became available.
LEMMA JobRuns == ASSUME IndInv, NEW k \in Key, RunJob(k) \/ RetryJob(k) PROVE IndInv'
<1> USE DEF IndInv
<1>1. UNCHANGED <<day, slot, rows, lock, pc, started, todo, fresh, ticked>>
  BY DEF RunJob, RetryJob
<1>2. Now' = Now /\ Now \in 0..Instant(LastDay, LastSlot) /\ Instant(LastDay, LastSlot) \in Nat
  BY <1>1, Present DEF Now
<1>3. ran' \subseteq ran \cup {k} /\ rows[k] > 0 /\ failures' \in 0..MaxFailures
  BY ScheduleAssumption DEF RunJob, RetryJob, Claimable, Waiting, TypeOK
<1>4. available' \in [Key -> 0..(Instant(LastDay, LastSlot) + 1)]
      /\ \A j \in Key : available'[j] = available[j] \/ available'[j] = Now + 1
  BY <1>2 DEF RunJob, RetryJob, RetryAt, TypeOK
<1>5. TypeOK'
  BY <1>1, <1>3, <1>4 DEF TypeOK
<1>6. TickInv' /\ CatchesUp' /\ LocksInv' /\ OncePerDay' /\ NothingDueIsMissed'
  BY <1>1, <1>2 DEF TickInv, CatchesUp, LocksInv, OncePerDay, NothingDueIsMissed
<1>7. NeverEarly'
  <2> SUFFICES ASSUME NEW j \in Key, rows[j] > 0 \/ j \in ran'
               PROVE  Instant(j[2], At[j[1]]) <= available'[j] /\ Instant(j[2], At[j[1]]) <= Now
    BY <1>1, <1>2 DEF NeverEarly
  <2>1. Instant(j[2], At[j[1]]) <= available[j] /\ Instant(j[2], At[j[1]]) <= Now
    BY <1>3 DEF NeverEarly
  <2>2. Instant(j[2], At[j[1]]) \in Nat
    BY ScheduleAssumption, Instants DEF Key, Day, Slot
  <2> QED BY <2>1, <2>2, <1>2, <1>4
<1> QED BY <1>5, <1>6, <1>7

\* Every step of the scheduler keeps the invariant.
LEMMA ScheduleStep == IndInv /\ [Next]_vars => IndInv'
<1> SUFFICES ASSUME IndInv, [Next]_vars
             PROVE  IndInv'
  OBVIOUS
<1>1. CASE UNCHANGED vars
  BY <1>1 DEF vars, IndInv, TypeOK, TickInv, CatchesUp, LocksInv, OncePerDay, NothingDueIsMissed,
              NeverEarly, Now
<1>2. CASE Next
  BY <1>2, TimeGoesOn, TickStarts, KeyVisited, TickCommits, TickFails, JobRuns DEF Next
<1> QED BY <1>1, <1>2

-----------------------------------------------------------------------------
(***************************************************************************)
(* The jobs that call a model.                                             *)
(***************************************************************************)
\* The instance counts as the library does.
LEMMA ModelsCount == \A S : L!Cardinality(S) = Cardinality(S)
<1>1. ASSUME NEW S PROVE L!Cardinality(S) = Cardinality(S)
  BY DEF L!Cardinality, Cardinality, L!IsFiniteSet, IsFiniteSet
<1> QED BY <1>1

\* There are finitely many jobs, so that those of a day can be counted.
LEMMA JobsAreFinite ==
    \A S \in SUBSET L!LlmJob :
        /\ L!Cardinality(S) \in Nat
        /\ \A T \in SUBSET S : L!Cardinality(T) \in Nat /\ L!Cardinality(T) <= L!Cardinality(S)
<1>2. IsFiniteSet(L!LlmJob)
  BY FS_Union, ModelsAssumption DEF L!LlmJob
<1> SUFFICES ASSUME NEW S \in SUBSET L!LlmJob
             PROVE  /\ L!Cardinality(S) \in Nat
                    /\ \A T \in SUBSET S : L!Cardinality(T) \in Nat /\ L!Cardinality(T) <= L!Cardinality(S)
  OBVIOUS
<1>3. IsFiniteSet(S)
  BY <1>2, FS_Subset
<1> QED BY <1>3, FS_Subset, FS_CardinalityType, ModelsCount

\* At first no job has run.
LEMMA ModelsInit == L!Init => L!IndInv
<1> SUFFICES ASSUME L!Init
             PROVE  L!IndInv
  OBVIOUS
<1> USE DEF L!Init
<1>1. L!TypeOK
  BY ModelsAssumption DEF L!TypeOK, L!Day, L!LlmJob
<1>2. L!AdmittedInv /\ L!CoveredInv
  BY DEF L!AdmittedInv, L!CoveredInv, L!AdmittedOn
<1>3. L!RunsInv /\ L!DerivedInv /\ L!DigestsAreComplete
  BY DEF L!RunsInv, L!RunIsSound, L!DerivedInv, L!DigestsAreComplete
<1> QED BY <1>1, <1>2, <1>3 DEF L!IndInv

\* A worker without a run is idle.
LEMMA NothingRuns == L!NoRun.stage = "idle"
BY DEF L!NoRun

\* A worker's run, if it is at something, has the fields of one.
LEMMA RunFields ==
    ASSUME L!TypeOK, NEW w \in Worker, run[w] # L!NoRun
    PROVE  /\ run[w] \in L!Run
           /\ run[w].job \in L!LlmJob /\ run[w].moment \in L!Day
           /\ run[w].left \subseteq Scope /\ run[w].at \subseteq Scope
           /\ run[w].moment \in Nat /\ L!Window(run[w].moment) = run[w].moment - 1
BY DEF L!TypeOK, L!Run, L!Day, L!Window

\* A run that goes on to another stage.
LEMMA StageFields ==
    ASSUME L!TypeOK, NEW w \in Worker, run[w] # L!NoRun,
           NEW st \in {"read", "quota", "next", "insert", "index", "settle"}, L!To(w, st)
    PROVE  /\ run' \in [Worker -> L!Run \cup {L!NoRun}]
           /\ run'[w] = [run[w] EXCEPT !.stage = st]
           /\ run'[w] # L!NoRun
           /\ run'[w].stage = st /\ run'[w].job = run[w].job /\ run'[w].moment = run[w].moment
           /\ run'[w].left = run[w].left /\ run'[w].at = run[w].at
           /\ \A v \in Worker \ {w} : run'[v] = run[v]
<1>1. run[w] \in L!Run
  BY RunFields
<1>2. run' = [run EXCEPT ![w] = [run[w] EXCEPT !.stage = st]]
  BY DEF L!To
<1> DEFINE next == [run[w] EXCEPT !.stage = st]
<1>3. /\ next \in L!Run
      /\ next.stage = st /\ next.job = run[w].job /\ next.moment = run[w].moment
      /\ next.left = run[w].left /\ next.at = run[w].at
  BY <1>1 DEF L!Run
<1>4. next # L!NoRun
  BY <1>3 DEF L!NoRun
<1> HIDE DEF next
<1>5. run' = [run EXCEPT ![w] = next]
  BY <1>2 DEF next
<1>6. run'[w] = next /\ \A v \in Worker \ {w} : run'[v] = run[v]
  BY <1>5 DEF L!TypeOK
<1>7. run' \in [Worker -> L!Run \cup {L!NoRun}]
  BY <1>3, <1>5 DEF L!TypeOK
<1> QED BY <1>3, <1>4, <1>6, <1>7 DEF next

\* A digest with its card, or with a run about to index it, stays so, if a run that was
\* about to index goes on only once the card is there or the run is noted as struck.
LEMMA DigestedStays ==
    ASSUME NEW d, NEW s, L!Digested(d, s),
           derived \subseteq derived', cards \cup struck \subseteq cards' \cup struck',
           \A v \in Worker : run[v].stage = "index" =>
              run'[v] = run[v] \/ \A x \in run[v].at :
                                      <<L!Window(run[v].moment), x>> \in cards' \cup struck'
    PROVE  L!Digested(d, s)'
<1>1. <<d, s>> \in derived'
  BY DEF L!Digested
<1>2. CASE <<d, s>> \in cards \cup struck
  BY <1>1, <1>2 DEF L!Digested
<1>3. CASE <<d, s>> \notin cards \cup struck
  <2>1. PICK v \in Worker : run[v].stage = "index" /\ run[v].at = {s} /\ L!Window(run[v].moment) = d
    BY <1>3 DEF L!Digested, L!AtStage
  <2>2. CASE run'[v] = run[v]
    BY <1>1, <2>1, <2>2 DEF L!Digested, L!AtStage, L!Window
  <2>3. CASE run'[v] # run[v]
    <3>1. <<d, s>> \in cards' \cup struck'
      BY <2>1, <2>3
    <3> QED BY <1>1, <3>1 DEF L!Digested
  <2> QED BY <2>2, <2>3
<1> QED BY <1>2, <1>3

\* The budget's side is not touched but by leases of the day.
LEMMA AdmittedStays ==
    ASSUME L!AdmittedInv, UNCHANGED <<llmDay, admitted>>,
           \A j \in Extract : job'[j].started = job[j].started \/ job'[j].started = llmDay
    PROVE  L!AdmittedInv'
<1>1. \A x \in admitted' : x[2] <= llmDay'
  BY DEF L!AdmittedInv
<1>2. \A j \in Extract : <<j, llmDay'>> \in admitted' => job'[j].started = llmDay'
  BY DEF L!AdmittedInv
<1>3. ASSUME NEW d \in L!Day
      PROVE  (L!AdmittedOn(d) # {} => L!Cardinality(L!AdmittedOn(d) \cap Extract) < Quota)'
  <2>1. L!AdmittedOn(d)' = L!AdmittedOn(d)
    BY DEF L!AdmittedOn
  <2> QED BY <2>1 DEF L!AdmittedInv
<1> QED BY <1>1, <1>2, <1>3 DEF L!AdmittedInv

\* A worker that does nothing has a sound run still, while digests are only added and
\* notes are those of the day.
LEMMA OthersStaySound ==
    ASSUME L!TypeOK, NEW w \in Worker, L!RunIsSound(w), run'[w] = run[w], llmDay' \in Nat, llmDay <= llmDay',
           derived \subseteq derived', \A x \in noted' \ noted : x[1] = llmDay
    PROVE  L!RunIsSound(w)'
<1> SUFFICES ASSUME run[w] # L!NoRun
             PROVE  L!RunIsSound(w)'
  BY DEF L!RunIsSound
<1>1. run[w].moment \in Nat /\ L!Window(run[w].moment) = run[w].moment - 1 /\ llmDay \in Nat
  BY RunFields DEF L!TypeOK, L!Day
<1>2. run[w].moment <= llmDay'
  BY <1>1 DEF L!RunIsSound
<1>3. \A s : <<L!Window(run[w].moment), s>> \in noted' => <<L!Window(run[w].moment), s>> \in noted
  BY <1>1 DEF L!RunIsSound
<1>4. L!Digesting(w)' <=> L!Digesting(w)
  BY DEF L!Digesting
<1> QED BY <1>2, <1>3, <1>4 DEF L!RunIsSound, L!Window

\* What a worker's step leaves true when it looked after its own run.
LEMMA OneActs ==
    ASSUME L!IndInv, NEW w \in Worker, \A v \in Worker \ {w} : run'[v] = run[v],
           UNCHANGED <<llmDay, noted>>, derived \subseteq derived', cards \cup struck \subseteq cards' \cup struck',
           run[w].stage = "index" => \A x \in run[w].at : <<L!Window(run[w].moment), x>> \in cards' \cup struck',
           L!RunIsSound(w)'
    PROVE  /\ L!RunsInv'
           /\ \A d, s : L!Digested(d, s) => L!Digested(d, s)'
<1>1. ASSUME NEW v \in Worker PROVE L!RunIsSound(v)'
  <2>1. CASE v = w
    BY <2>1
  <2>2. CASE v # w
    <3>1. L!TypeOK /\ L!RunIsSound(v) /\ run'[v] = run[v] /\ llmDay' = llmDay /\ llmDay \in Nat
      BY <2>2 DEF L!IndInv, L!RunsInv, L!TypeOK, L!Day
    <3> QED BY <3>1, OthersStaySound
  <2> QED BY <2>1, <2>2
<1>2. ASSUME NEW d, NEW s, L!Digested(d, s) PROVE L!Digested(d, s)'
  <2>1. \A v \in Worker : run[v].stage = "index" =>
            run'[v] = run[v] \/ \A x \in run[v].at :
                                    <<L!Window(run[v].moment), x>> \in cards' \cup struck'
    OBVIOUS
  <2> QED BY <1>2, <2>1, DigestedStays
<1> QED BY <1>1, <1>2 DEF L!RunsInv

\* A step that adds no digest and ends no day leaves the rest as it is.
LEMMA OneActsQuietly ==
    ASSUME L!IndInv, L!RunsInv', \A d, s : L!Digested(d, s) => L!Digested(d, s)',
           UNCHANGED <<llmDay, noted, derived, covered>>
    PROVE  L!RunsInv' /\ L!DerivedInv' /\ L!CoveredInv' /\ L!DigestsAreComplete'
<1>1. ASSUME NEW d \in L!Day, NEW s \in Scope, <<d, s>> \in derived
      PROVE  L!Digested(d, s)'
  BY <1>1 DEF L!IndInv, L!DerivedInv
<1>2. ASSUME NEW d \in covered, NEW s \in Scope, <<d, s>> \in noted
      PROVE  L!Digested(d, s)'
  BY <1>2 DEF L!IndInv, L!DigestsAreComplete
<1>3. L!CoveredInv'
  BY DEF L!IndInv, L!CoveredInv
<1>4. L!DerivedInv'
  BY <1>1 DEF L!DerivedInv
<1>5. L!DigestsAreComplete'
  BY <1>2 DEF L!DigestsAreComplete
<1> QED BY <1>3, <1>4, <1>5

\* A scope records something, or the day ends: what is digested is of days before.
LEMMA DayGoesOn == L!IndInv /\ (L!Midnight \/ \E s \in Scope : L!Record(s)) => L!IndInv'
<1> SUFFICES ASSUME L!IndInv, L!Midnight \/ \E s \in Scope : L!Record(s)
             PROVE  L!IndInv'
  OBVIOUS
<1>1. UNCHANGED <<job, run, derived, cards, admitted, covered, struck>>
  BY DEF L!Midnight, L!Record
<1>2. llmDay \in Nat /\ llmDay' \in Nat /\ llmDay <= llmDay' /\ llmDay' \in L!Day /\ llmDay < LlmDays
      /\ LlmDays \in Nat
  BY ModelsAssumption DEF L!IndInv, L!TypeOK, L!Day, L!Midnight, L!Record
<1>3. \A x \in noted' \ noted : x[1] = llmDay
  BY DEF L!Midnight, L!Record
<1>4. noted' \in SUBSET L!DigestId /\ noted \subseteq noted'
  BY <1>2 DEF L!IndInv, L!TypeOK, L!Midnight, L!Record, L!DigestId
<1>5. L!TypeOK'
  BY <1>1, <1>2, <1>4 DEF L!IndInv, L!TypeOK
<1>6. L!AdmittedInv'
  <2>1. CASE llmDay' = llmDay
    BY <2>1, <1>1, AdmittedStays DEF L!IndInv
  <2>2. CASE llmDay' # llmDay
    <3>1. \A x \in admitted' : x[2] <= llmDay /\ x[2] \in Nat
      BY <1>1 DEF L!IndInv, L!AdmittedInv, L!TypeOK, L!Day
    <3>2. llmDay < llmDay'
      BY <2>2, <1>2
    <3>3. \A j \in Extract : <<j, llmDay'>> \notin admitted'
      BY <3>1, <3>2, <1>2
    <3>4. \A x \in admitted' : x[2] <= llmDay'
      BY <3>1, <3>2, <1>2
    <3>5. ASSUME NEW d \in L!Day
          PROVE  (L!AdmittedOn(d) # {} => L!Cardinality(L!AdmittedOn(d) \cap Extract) < Quota)'
      <4>1. L!AdmittedOn(d)' = L!AdmittedOn(d)
        BY <1>1 DEF L!AdmittedOn
      <4> QED BY <4>1 DEF L!IndInv, L!AdmittedInv
    <3> QED BY <3>3, <3>4, <3>5 DEF L!AdmittedInv
  <2> QED BY <2>1, <2>2
<1>7. L!RunsInv'
  <2> SUFFICES ASSUME NEW w \in Worker PROVE L!RunIsSound(w)'
    BY DEF L!RunsInv
  <2>1. L!TypeOK /\ L!RunIsSound(w) /\ run'[w] = run[w]
    BY <1>1 DEF L!IndInv, L!RunsInv
  <2> QED BY <2>1, <1>1, <1>2, <1>3, OthersStaySound
<1>8. ASSUME NEW d, NEW s, L!Digested(d, s) PROVE L!Digested(d, s)'
  BY <1>8, <1>1 DEF L!Digested, L!AtStage, L!Window
<1>9. L!DerivedInv'
  BY <1>1, <1>8 DEF L!IndInv, L!DerivedInv
<1>10. L!CoveredInv'
  BY <1>1, <1>2 DEF L!IndInv, L!CoveredInv, L!TypeOK, L!Day
<1>11. L!DigestsAreComplete'
  <2> SUFFICES ASSUME NEW d \in covered, NEW s \in Scope, <<d, s>> \in noted'
               PROVE  L!Digested(d, s)'
    BY <1>1 DEF L!DigestsAreComplete
  <2>1. d < llmDay /\ d \in Nat
    BY DEF L!IndInv, L!CoveredInv, L!TypeOK, L!Day
  <2>2. <<d, s>> \in noted
    BY <2>1, <1>2, <1>3
  <2> QED BY <2>2, <1>8 DEF L!IndInv, L!DigestsAreComplete
<1> QED BY <1>5, <1>6, <1>7, <1>9, <1>10, <1>11 DEF L!IndInv

\* A worker leases a job.
LEMMA JobLeased ==
    ASSUME L!IndInv, NEW w \in Worker, NEW j \in L!LlmJob, L!ClaimJob(w, j) PROVE L!IndInv'
<1> USE DEF L!ClaimJob
<1> DEFINE new == [stage |-> "read", job |-> j, moment |-> llmDay, left |-> {}, at |-> {}]
<1> DEFINE leased == [state |-> "leased", holder |-> {w}, runs |-> job[j].runs + 1, started |-> llmDay]
<1>1. llmDay \in L!Day /\ llmDay \in Nat /\ llmDay \in 0..LlmDays /\ L!TypeOK
  BY ModelsAssumption DEF L!IndInv, L!TypeOK, L!Day
<1>2. new \in L!Run /\ new # L!NoRun /\ new.stage = "read" /\ new.at = {} /\ new.moment = llmDay
  BY <1>1 DEF L!Run, L!NoRun
<1>3. leased \in [state : {"queued", "leased", "succeeded", "dead"},
                  holder : SUBSET Worker, runs : 0..MaxRuns, started : 0..LlmDays]
      /\ leased.started = llmDay
  BY <1>1, ModelsAssumption DEF L!TypeOK
<1>4. run' = [run EXCEPT ![w] = new] /\ job' = [job EXCEPT ![j] = leased]
  OBVIOUS
<1> HIDE DEF new, leased
<1>5. run'[w] = new /\ \A v \in Worker \ {w} : run'[v] = run[v]
  BY <1>1, <1>4 DEF L!TypeOK
<1>6. L!TypeOK'
  <2>1. run' \in [Worker -> L!Run \cup {L!NoRun}]
    BY <1>1, <1>2, <1>4 DEF L!TypeOK
  <2>2. job' \in [L!LlmJob -> [state : {"queued", "leased", "succeeded", "dead"},
                               holder : SUBSET Worker, runs : 0..MaxRuns, started : 0..LlmDays]]
    BY <1>1, <1>3, <1>4 DEF L!TypeOK
  <2> QED BY <2>1, <2>2 DEF L!IndInv, L!TypeOK
<1>7. L!AdmittedInv'
  <2>1. \A i \in Extract : job'[i].started = job[i].started \/ job'[i].started = llmDay
    BY <1>1, <1>3, <1>4 DEF L!TypeOK, L!LlmJob
  <2> QED BY <2>1, AdmittedStays DEF L!IndInv
<1>8. L!RunIsSound(w)'
  BY <1>1, <1>2, <1>5 DEF L!RunIsSound, L!Digesting
<1>9. run[w].stage = "idle"
  BY DEF L!NoRun
<1>10. L!RunsInv' /\ \A d, s : L!Digested(d, s) => L!Digested(d, s)'
  BY <1>5, <1>8, <1>9, OneActs
<1> QED BY <1>6, <1>7, <1>10, OneActsQuietly DEF L!IndInv

\* A lease is lost; the run that had it goes on.
LEMMA LeaseLost == ASSUME L!IndInv, NEW j \in L!LlmJob, L!LoseLease(j) PROVE L!IndInv'
<1> USE DEF L!LoseLease
<1>1. L!TypeOK /\ job[j] \in [state : {"queued", "leased", "succeeded", "dead"},
                holder : SUBSET Worker, runs : 0..MaxRuns, started : 0..LlmDays]
  BY DEF L!IndInv, L!TypeOK
<1> DEFINE lost == [job[j] EXCEPT !.holder = {}, !.state = IF job[j].runs < MaxRuns THEN "queued" ELSE "dead"]
<1>2. lost \in [state : {"queued", "leased", "succeeded", "dead"},
                holder : SUBSET Worker, runs : 0..MaxRuns, started : 0..LlmDays]
      /\ lost.started = job[j].started
  BY <1>1
<1>3. job' = [job EXCEPT ![j] = lost]
  BY <1>1 DEF L!TypeOK
<1> HIDE DEF lost
<1>4. L!TypeOK'
  BY <1>1, <1>2, <1>3 DEF L!TypeOK
<1>5. L!AdmittedInv'
  <2>1. \A i \in Extract : job'[i].started = job[i].started
    BY <1>1, <1>2, <1>3 DEF L!TypeOK, L!LlmJob
  <2> QED BY <2>1, AdmittedStays DEF L!IndInv
<1>6. L!RunsInv'
  <2> SUFFICES ASSUME NEW w \in Worker PROVE L!RunIsSound(w)'
    BY DEF L!RunsInv
  <2>1. L!RunIsSound(w) /\ run'[w] = run[w] /\ llmDay' = llmDay /\ llmDay \in Nat
    BY DEF L!IndInv, L!RunsInv, L!TypeOK, L!Day
  <2> QED BY <1>1, <2>1, OthersStaySound
<1>7. ASSUME NEW d, NEW s, L!Digested(d, s) PROVE L!Digested(d, s)'
  BY <1>7 DEF L!Digested, L!AtStage, L!Window
<1>8. L!DerivedInv' /\ L!CoveredInv' /\ L!DigestsAreComplete'
  BY <1>6, <1>7, OneActsQuietly
<1> QED BY <1>4, <1>5, <1>6, <1>8 DEF L!IndInv

\* extract_raw_input reads its note.
LEMMA NoteIsRead ==
    ASSUME L!IndInv, NEW w \in Worker, NEW fit \in BOOLEAN, L!ReadNote(w, fit) PROVE L!IndInv'
<1> USE DEF L!ReadNote, L!AtStage
<1>1. L!TypeOK /\ L!RunIsSound(w) /\ run[w] # L!NoRun /\ run[w].stage = "read"
  BY DEF L!IndInv, L!RunsInv, L!NoRun
<1>2. PICK st \in {"quota", "settle"} : L!To(w, st)
  OBVIOUS
<1>3. /\ run' \in [Worker -> L!Run \cup {L!NoRun}]
      /\ run'[w].stage = st /\ run'[w].job = run[w].job /\ run'[w].moment = run[w].moment
      /\ run'[w].at = run[w].at
      /\ \A v \in Worker \ {w} : run'[v] = run[v]
  BY <1>1, <1>2, StageFields
<1>4. L!TypeOK'
  BY <1>3 DEF L!IndInv, L!TypeOK
<1>5. L!AdmittedInv'
  BY AdmittedStays DEF L!IndInv
<1>6. L!RunIsSound(w)'
  BY <1>1, <1>3 DEF L!RunIsSound, L!Digesting
<1>7. L!RunsInv' /\ \A d, s : L!Digested(d, s) => L!Digested(d, s)'
  BY <1>1, <1>3, <1>6, OneActs
<1> QED BY <1>4, <1>5, <1>7, OneActsQuietly DEF L!IndInv

\* daily_digest reads what was recorded the day before.
LEMMA WindowIsRead ==
    ASSUME L!IndInv, NEW w \in Worker, L!ReadWindow(w) PROVE L!IndInv'
<1> USE DEF L!ReadWindow, L!AtStage
<1>1. L!TypeOK /\ L!RunIsSound(w) /\ run[w] # L!NoRun /\ run[w].stage = "read"
      /\ llmDay \in L!Day /\ llmDay \in Nat
  <2>1. run[w].stage = "read"
    OBVIOUS
  <2>2. run[w] # L!NoRun
    BY <2>1, NothingRuns
  <2> HIDE DEF L!ReadWindow
  <2>3. L!TypeOK /\ L!RunIsSound(w)
    BY DEF L!IndInv, L!RunsInv
  <2>4. llmDay \in L!Day /\ llmDay \in Nat
    BY <2>3 DEF L!TypeOK, L!Day
  <2> QED BY <2>1, <2>2, <2>3, <2>4
<1> DEFINE scopes == {s \in Scope : <<L!Window(llmDay), s>> \in noted}
<1> DEFINE st == IF scopes = {} THEN "settle" ELSE "quota"
<1> DEFINE new == [run[w] EXCEPT !.stage = st, !.moment = llmDay, !.left = scopes]
<1>2. run[w] \in L!Run
  BY <1>1, RunFields
<1>3. scopes \subseteq Scope /\ st \in {"settle", "quota"}
  OBVIOUS
<1>4. /\ new \in L!Run
      /\ new.stage = st /\ new.moment = llmDay /\ new.left = scopes
      /\ new.at = run[w].at /\ new.job = run[w].job
  BY <1>1, <1>2, <1>3 DEF L!Run
<1>5. run' = [run EXCEPT ![w] = new]
  BY <1>1, <1>2
<1>6. \A s \in Scope : <<L!Window(llmDay), s>> \in noted => s \in scopes
  OBVIOUS
<1>7. st = "quota" => L!Window(llmDay) \in L!Day
  BY DEF L!IndInv, L!TypeOK, L!DigestId
<1>13. UNCHANGED <<llmDay, noted, derived>>
  OBVIOUS
<1> HIDE DEF new, scopes, st, L!ReadWindow
<1>8. run'[w] = new /\ \A v \in Worker \ {w} : run'[v] = run[v]
  BY <1>1, <1>5 DEF L!TypeOK
<1>9. L!TypeOK'
  <2>1. run' \in [Worker -> L!Run \cup {L!NoRun}]
    BY <1>1, <1>4, <1>5 DEF L!TypeOK
  <2> QED BY <2>1 DEF L!IndInv, L!TypeOK, L!ReadWindow
<1>10. L!AdmittedInv'
  BY AdmittedStays DEF L!IndInv, L!ReadWindow
<1>11. L!RunIsSound(w)'
  <2>1. run[w].at = {}
    BY <1>1 DEF L!RunIsSound
  <2>2. st # "next" /\ st # "index" /\ st # "insert"
    BY <1>3
  <2>3. run'[w].stage = st /\ run'[w].moment = llmDay /\ run'[w].at = {} /\ run'[w].left = scopes
    BY <2>1, <1>4, <1>8
  <2>4. L!Window(run'[w].moment) = L!Window(llmDay)
    BY <2>3
  <2>5. L!Digesting(w)' => st = "quota"
    BY <1>3, <2>3 DEF L!Digesting
  <2>6. L!Digesting(w)' =>
            /\ run'[w].at \subseteq run'[w].left
            /\ L!Window(run'[w].moment) \in L!Day
            /\ \A s \in Scope : <<L!Window(run'[w].moment), s>> \in noted =>
                  s \in run'[w].left \/ <<L!Window(run'[w].moment), s>> \in derived
    BY <2>3, <2>4, <2>5, <1>6, <1>7
  <2> QED BY <2>2, <2>3, <2>6, <1>1, <1>13 DEF L!RunIsSound, L!Window
<1>12. L!RunsInv' /\ \A d, s : L!Digested(d, s) => L!Digested(d, s)'
  BY <1>1, <1>8, <1>11, OneActs DEF L!ReadWindow
<1> QED BY <1>9, <1>10, <1>12, OneActsQuietly DEF L!IndInv, L!ReadWindow

\* The budget is checked: a job that is let through was leased while there was room.
LEMMA QuotaChecked ==
    ASSUME L!IndInv, NEW w \in Worker, L!CheckQuota(w) PROVE L!IndInv'
<1> USE DEF L!CheckQuota, L!AtStage
<1>1. L!TypeOK /\ L!RunIsSound(w) /\ run[w] # L!NoRun /\ run[w].stage = "quota"
      /\ llmDay \in L!Day /\ llmDay \in Nat /\ Quota \in Nat
  BY ModelsAssumption DEF L!IndInv, L!RunsInv, L!NoRun, L!TypeOK, L!Day
<1> DEFINE j == run[w].job
<1> DEFINE m == L!Moment(w)
<1>2. j \in L!LlmJob /\ m \in L!Day /\ m \in Nat /\ m <= llmDay /\ (j \in Extract => m = llmDay)
  BY <1>1, RunFields DEF L!Moment, L!RunIsSound
<1>3. PICK st \in {"settle", "insert", "next"} :
        L!To(w, st) /\ (st = "insert" => j \in Extract) /\ (st = "next" => j \notin Extract)
  OBVIOUS
<1>4. /\ run' \in [Worker -> L!Run \cup {L!NoRun}]
      /\ run'[w].stage = st /\ run'[w].job = j /\ run'[w].moment = run[w].moment
      /\ run'[w].at = run[w].at /\ run'[w].left = run[w].left /\ run'[w] # L!NoRun
      /\ \A v \in Worker \ {w} : run'[v] = run[v]
  BY <1>1, <1>3, StageFields
<1>5. admitted' \subseteq admitted \cup {<<j, m>>}
  OBVIOUS
<1>6. admitted' # admitted =>
        job[j].started = m /\ L!Cardinality(L!Started(m)) < Quota
  <2>1. L!Started(m) \in SUBSET L!LlmJob
    BY DEF L!Started
  <2>2. L!Cardinality(L!Started(m)) \in Nat
    BY <2>1, JobsAreFinite
  <2> QED BY <2>2, <1>1
<1>7. L!TypeOK'
  <2>1. admitted' \subseteq L!LlmJob \X L!Day
    BY <1>2, <1>5 DEF L!IndInv, L!TypeOK
  <2> QED BY <1>4, <2>1 DEF L!IndInv, L!TypeOK
<1>8. L!RunIsSound(w)'
  <2>1. run[w].at = {}
    BY <1>1 DEF L!RunIsSound
  <2>2. L!Digesting(w)' => L!Digesting(w)
    BY <1>1, <1>4 DEF L!Digesting
  <2> QED BY <2>1, <2>2, <1>1, <1>3, <1>4 DEF L!RunIsSound, L!Window
<1>9. L!RunsInv' /\ \A d, s : L!Digested(d, s) => L!Digested(d, s)'
  BY <1>1, <1>4, <1>8, OneActs
<1>10. L!AdmittedInv'
  <2>1. CASE admitted' = admitted
    BY <2>1, AdmittedStays DEF L!IndInv
  <2>2. CASE admitted' # admitted
    <3>1. \A x \in admitted' : x[2] <= llmDay
      BY <1>2, <1>5 DEF L!IndInv, L!AdmittedInv
    <3>2. \A i \in Extract : <<i, llmDay>> \in admitted' => job[i].started = llmDay
      BY <2>2, <1>5, <1>6 DEF L!IndInv, L!AdmittedInv
    <3>3. ASSUME NEW d \in L!Day, L!AdmittedOn(d)' # {}
          PROVE  L!Cardinality(L!AdmittedOn(d)' \cap Extract) < Quota
      <4>1. CASE d # m
        <5>1. L!AdmittedOn(d)' = L!AdmittedOn(d)
          BY <4>1, <1>5 DEF L!AdmittedOn
        <5> QED BY <5>1, <3>3 DEF L!IndInv, L!AdmittedInv
      <4>2. CASE d = m /\ j \in Extract
        <5>1. L!AdmittedOn(d)' \cap Extract \subseteq L!Started(m)
          <6>1. ASSUME NEW i \in L!AdmittedOn(d)', i \in Extract
                PROVE  i \in L!Started(m)
            <7>1. m = llmDay /\ i \in L!LlmJob /\ <<i, llmDay>> \in admitted'
              BY <6>1, <4>2, <1>2 DEF L!AdmittedOn
            <7>2. job[i].started = m
              BY <7>1, <6>1, <3>2
            <7> QED BY <7>1, <7>2 DEF L!Started
          <6> QED BY <6>1
        <5>2. L!Started(m) \in SUBSET L!LlmJob
          BY DEF L!Started
        <5>3. L!Cardinality(L!AdmittedOn(d)' \cap Extract) \in Nat
              /\ L!Cardinality(L!AdmittedOn(d)' \cap Extract) <= L!Cardinality(L!Started(m))
              /\ L!Cardinality(L!Started(m)) \in Nat
          BY <5>1, <5>2, JobsAreFinite
        <5> QED BY <5>3, <2>2, <1>1, <1>6
      <4>3. CASE d = m /\ j \notin Extract
        <5>1. L!AdmittedOn(d)' \cap Extract = L!AdmittedOn(d) \cap Extract
          <6>1. admitted \subseteq admitted'
            OBVIOUS
          <6> QED BY <6>1, <4>3, <1>5 DEF L!AdmittedOn
        <5>2. CASE L!AdmittedOn(d) # {}
          BY <5>1, <5>2 DEF L!IndInv, L!AdmittedInv
        <5>3. CASE L!AdmittedOn(d) = {}
          <6>1. L!AdmittedOn(d)' \cap Extract = {}
            BY <5>1, <5>3
          <6>2. L!Cardinality({}) = 0
            BY FS_EmptySet, ModelsCount
          <6>3. L!Started(m) \in SUBSET L!LlmJob
            BY DEF L!Started
          <6>4. L!Cardinality(L!Started(m)) \in Nat /\ L!Cardinality(L!Started(m)) < Quota
            BY <6>3, <2>2, <1>6, JobsAreFinite
          <6> QED BY <6>1, <6>2, <6>4, <1>1
        <5> QED BY <5>2, <5>3
      <4> QED BY <4>1, <4>2, <4>3
    <3> QED BY <3>1, <3>2, <3>3 DEF L!AdmittedInv
  <2> QED BY <2>1, <2>2
<1> QED BY <1>7, <1>9, <1>10, OneActsQuietly DEF L!IndInv

\* The digest's loop: its end, a scope that has a digest, or one that needs it.
LEMMA ScopeIsNext ==
    ASSUME L!IndInv, NEW w \in Worker, L!NextScope(w) PROVE L!IndInv'
<1>1. run[w].stage = "next" /\ UNCHANGED <<llmDay, noted, job, derived, cards, admitted, struck>>
  BY DEF L!NextScope, L!AtStage
<1>2. L!TypeOK /\ L!RunIsSound(w) /\ run[w] # L!NoRun /\ llmDay \in L!Day /\ llmDay \in Nat
  <2>1. run[w] # L!NoRun
    BY <1>1, NothingRuns
  <2>2. L!TypeOK /\ L!RunIsSound(w)
    BY DEF L!IndInv, L!RunsInv
  <2> QED BY <2>1, <2>2 DEF L!TypeOK, L!Day
<1> DEFINE d == L!Window(run[w].moment)
<1>3. /\ run[w] \in L!Run /\ run[w].left \subseteq Scope /\ run[w].moment \in Nat
      /\ d = run[w].moment - 1 /\ run[w].moment <= llmDay /\ d \in L!Day
      /\ run[w].at = {} /\ run[w].job \notin Extract
      /\ \A s \in Scope : <<d, s>> \in noted => s \in run[w].left \/ <<d, s>> \in derived
  <2>1. L!Digesting(w)
    BY <1>1, <1>2 DEF L!Digesting, L!RunIsSound
  <2>2. run[w].at = {} /\ run[w].job \notin Extract
    BY <1>1, <1>2 DEF L!RunIsSound
  <2>3. d \in L!Day /\ run[w].moment <= llmDay
        /\ \A s \in Scope : <<d, s>> \in noted => s \in run[w].left \/ <<d, s>> \in derived
    BY <1>2, <2>1 DEF L!RunIsSound
  <2> QED BY <1>2, <2>2, <2>3, RunFields
<1>4. L!AdmittedInv'
  BY <1>1, AdmittedStays DEF L!IndInv
<1> HIDE DEF d
<1>5. CASE run[w].left = {} /\ L!To(w, "settle") /\ covered' = covered \cup {d}
  <2>1. /\ run' \in [Worker -> L!Run \cup {L!NoRun}]
        /\ run'[w].stage = "settle" /\ run'[w].job = run[w].job /\ run'[w].moment = run[w].moment
        /\ run'[w].at = run[w].at
        /\ \A v \in Worker \ {w} : run'[v] = run[v]
    BY <1>2, <1>5, StageFields
  <2>2. L!TypeOK'
    BY <1>1, <1>3, <1>5, <2>1 DEF L!IndInv, L!TypeOK
  <2>3. L!RunIsSound(w)'
    BY <1>1, <1>3, <2>1 DEF L!RunIsSound, L!Digesting
  <2>4. L!RunsInv' /\ \A c, s : L!Digested(c, s) => L!Digested(c, s)'
    BY <1>1, <2>1, <2>3, OneActs
  <2>5. L!DerivedInv'
    BY <1>1, <2>4 DEF L!IndInv, L!DerivedInv
  <2>6. L!CoveredInv'
    <3>1. d < llmDay
      BY <1>2, <1>3
    <3> QED BY <3>1, <1>1, <1>5 DEF L!IndInv, L!CoveredInv
  <2>7. L!DigestsAreComplete'
    <3> SUFFICES ASSUME NEW c \in covered', NEW s \in Scope, <<c, s>> \in noted
                 PROVE  L!Digested(c, s)
      BY <1>1, <2>4 DEF L!DigestsAreComplete
    <3>1. CASE c \in covered
      BY <3>1 DEF L!IndInv, L!DigestsAreComplete
    <3>2. CASE c = d
      BY <3>2, <1>3, <1>5 DEF L!IndInv, L!DerivedInv
    <3> QED BY <3>1, <3>2, <1>5
  <2> QED BY <1>4, <2>2, <2>4, <2>5, <2>6, <2>7 DEF L!IndInv
<1>6. ASSUME NEW s \in run[w].left, UNCHANGED covered,
             run' = IF <<d, s>> \in derived
                    THEN [run EXCEPT ![w].left = @ \ {s}]
                    ELSE [run EXCEPT ![w].stage = "insert", ![w].at = {s}]
      PROVE  L!IndInv'
  <2> DEFINE new == IF <<d, s>> \in derived THEN [run[w] EXCEPT !.left = run[w].left \ {s}]
                    ELSE [run[w] EXCEPT !.stage = "insert", !.at = {s}]
  <2>1. /\ new \in L!Run
        /\ new.job = run[w].job /\ new.moment = run[w].moment
        /\ new.stage \in {"next", "insert"}
        /\ <<d, s>> \in derived => new.stage = "next" /\ new.at = {} /\ new.left = run[w].left \ {s}
        /\ <<d, s>> \notin derived => new.stage = "insert" /\ new.at = {s} /\ new.left = run[w].left
    BY <1>1, <1>3 DEF L!Run
  <2>2. run' = [run EXCEPT ![w] = new]
    BY <1>2, <1>6
  <2> HIDE DEF new
  <2>3. run'[w] = new /\ \A v \in Worker \ {w} : run'[v] = run[v]
    BY <1>2, <2>2 DEF L!TypeOK
  <2>4. L!TypeOK'
    <3>1. run' \in [Worker -> L!Run \cup {L!NoRun}]
      BY <1>2, <2>1, <2>2 DEF L!TypeOK
    <3> QED BY <3>1, <1>1, <1>6 DEF L!IndInv, L!TypeOK
  <2>5. L!RunIsSound(w)'
    <3>1. L!Window(run'[w].moment) = d
      BY <2>1, <2>3 DEF d
    <3>2. \A x \in Scope : <<d, x>> \in noted => x \in new.left \/ <<d, x>> \in derived
      BY <1>3, <2>1
    <3>3. new.at \subseteq new.left /\ \A x \in new.at : new.at = {x}
      BY <2>1
    <3> QED BY <3>1, <3>2, <3>3, <1>1, <1>3, <2>1, <2>3 DEF L!RunIsSound, L!Digesting, L!Window
  <2>6. L!RunsInv' /\ \A c, x : L!Digested(c, x) => L!Digested(c, x)'
    BY <1>1, <2>3, <2>5, OneActs
  <2> QED BY <1>1, <1>4, <1>6, <2>4, <2>6, OneActsQuietly DEF L!IndInv
<1> QED BY <1>5, <1>6 DEF L!NextScope, L!DigestOf, d

\* An extraction inserts what it derived from a note.
LEMMA NoteIsInserted ==
    ASSUME L!IndInv, NEW w \in Worker, L!InsertNote(w) PROVE L!IndInv'
<1>1. run[w].stage = "insert" /\ run[w].job \in Extract /\ derived' = derived \cup {run[w].job}
      /\ L!To(w, "settle") /\ UNCHANGED <<llmDay, noted, job, cards, admitted, covered, struck>>
  BY DEF L!InsertNote, L!AtStage
<1>2. L!TypeOK /\ L!RunIsSound(w) /\ run[w] # L!NoRun
  BY <1>1, NothingRuns DEF L!IndInv, L!RunsInv
<1>3. /\ run' \in [Worker -> L!Run \cup {L!NoRun}]
      /\ run'[w].stage = "settle" /\ run'[w].job = run[w].job /\ run'[w].moment = run[w].moment
      /\ run'[w].at = run[w].at
      /\ \A v \in Worker \ {w} : run'[v] = run[v]
  BY <1>1, <1>2, StageFields
<1>4. L!TypeOK'
  BY <1>1, <1>3 DEF L!IndInv, L!TypeOK
<1>5. L!AdmittedInv'
  BY <1>1, AdmittedStays DEF L!IndInv
<1>6. L!RunIsSound(w)'
  BY <1>1, <1>2, <1>3 DEF L!RunIsSound, L!Digesting
<1>7. L!RunsInv' /\ \A d, s : L!Digested(d, s) => L!Digested(d, s)'
  BY <1>1, <1>3, <1>6, OneActs
<1>8. \A d \in L!Day, s \in Scope : <<d, s>> \in derived' => <<d, s>> \in derived
  BY <1>1, ModelsAssumption DEF L!Day
<1>9. L!DerivedInv'
  BY <1>7, <1>8 DEF L!IndInv, L!DerivedInv
<1>10. L!CoveredInv'
  BY <1>1 DEF L!IndInv, L!CoveredInv
<1>11. L!DigestsAreComplete'
  BY <1>1, <1>7 DEF L!IndInv, L!DigestsAreComplete
<1> QED BY <1>4, <1>5, <1>7, <1>9, <1>10, <1>11 DEF L!IndInv

\* A digest is inserted, whose run is then about to index it.
LEMMA DigestIsInserted ==
    ASSUME L!IndInv, NEW w \in Worker, L!InsertDigest(w) PROVE L!IndInv'
<1>0. PICK d : d = L!Window(run[w].moment)
  OBVIOUS
<1>1. PICK s \in run[w].at : derived' = derived \cup {<<d, s>>}
  BY <1>0 DEF L!InsertDigest, L!DigestOf
<1>2. run[w].stage = "insert" /\ L!To(w, "index")
      /\ UNCHANGED <<llmDay, noted, job, cards, admitted, covered, struck>>
  BY DEF L!InsertDigest, L!AtStage
<1>3. L!TypeOK /\ L!RunIsSound(w) /\ run[w] # L!NoRun
  BY <1>2, NothingRuns DEF L!IndInv, L!RunsInv
<1>4. /\ run' \in [Worker -> L!Run \cup {L!NoRun}]
      /\ run'[w].stage = "index" /\ run'[w].job = run[w].job /\ run'[w].moment = run[w].moment
      /\ run'[w].at = run[w].at /\ run'[w].left = run[w].left
      /\ \A v \in Worker \ {w} : run'[v] = run[v]
  BY <1>2, <1>3, StageFields
<1>5. run[w].job \notin Extract /\ run[w].at = {s} /\ s \in Scope /\ L!Digesting(w)
  BY <1>1, <1>2, <1>3, RunFields DEF L!RunIsSound, L!Digesting
<1>6. d \in L!Day
  BY <1>0, <1>3, <1>5 DEF L!RunIsSound
<1>7. L!Window(run'[w].moment) = d
  BY <1>0, <1>4
<1>8. L!TypeOK'
  <2>1. <<d, s>> \in L!DigestId
    BY <1>5, <1>6 DEF L!DigestId
  <2> QED BY <1>1, <1>2, <1>4, <2>1 DEF L!IndInv, L!TypeOK
<1>9. L!AdmittedInv'
  BY <1>2, AdmittedStays DEF L!IndInv
<1>10. L!RunIsSound(w)'
  <2>1. /\ run[w].moment <= llmDay
        /\ run[w].at \subseteq run[w].left
        /\ \A x \in Scope : <<d, x>> \in noted => x \in run[w].left \/ <<d, x>> \in derived
    BY <1>0, <1>3, <1>5 DEF L!RunIsSound
  <2> QED BY <2>1, <1>1, <1>2, <1>4, <1>5, <1>6, <1>7 DEF L!RunIsSound, L!Window
<1>11. L!RunsInv' /\ \A c, x : L!Digested(c, x) => L!Digested(c, x)'
  BY <1>1, <1>2, <1>4, <1>10, OneActs
<1>12. L!Digested(d, s)'
  BY <1>1, <1>4, <1>5, <1>7 DEF L!Digested, L!AtStage, L!Window
<1>13. L!DerivedInv'
  <2> SUFFICES ASSUME NEW c \in L!Day, NEW x \in Scope, <<c, x>> \in derived'
               PROVE  L!Digested(c, x)'
    BY DEF L!DerivedInv
  <2>1. CASE <<c, x>> \in derived
    BY <2>1, <1>11 DEF L!IndInv, L!DerivedInv
  <2>2. CASE <<c, x>> \notin derived
    BY <2>2, <1>1, <1>12
  <2> QED BY <2>1, <2>2
<1>14. L!CoveredInv'
  BY <1>2 DEF L!IndInv, L!CoveredInv
<1>15. L!DigestsAreComplete'
  BY <1>2, <1>11 DEF L!IndInv, L!DigestsAreComplete
<1> QED BY <1>8, <1>9, <1>11, <1>13, <1>14, <1>15 DEF L!IndInv

\* The digest is indexed, and the loop goes on without its scope.
LEMMA DigestIsIndexed ==
    ASSUME L!IndInv, NEW w \in Worker, L!IndexDigest(w) PROVE L!IndInv'
<1> DEFINE d == L!Window(run[w].moment)
<1>1. PICK s \in run[w].at :
        /\ cards' = cards \cup {<<d, s>>}
        /\ run' = [run EXCEPT ![w].stage = "next", ![w].left = run[w].left \ {s}, ![w].at = {}]
  BY DEF L!IndexDigest, L!DigestOf, L!LeftAfter
<1>2. run[w].stage = "index" /\ UNCHANGED <<llmDay, noted, job, derived, admitted, covered, struck>>
  BY DEF L!IndexDigest, L!AtStage
<1>3. L!TypeOK /\ L!RunIsSound(w) /\ run[w] # L!NoRun
  BY <1>2, NothingRuns DEF L!IndInv, L!RunsInv
<1>4. /\ run[w] \in L!Run /\ run[w].left \subseteq Scope
      /\ run[w].job \notin Extract /\ run[w].at = {s} /\ s \in Scope /\ L!Digesting(w)
      /\ <<d, s>> \in derived
  BY <1>1, <1>2, <1>3, RunFields DEF L!RunIsSound, L!Digesting
<1>5. /\ d \in L!Day /\ run[w].moment <= llmDay
      /\ \A x \in Scope : <<d, x>> \in noted => x \in run[w].left \/ <<d, x>> \in derived
  BY <1>3, <1>4 DEF L!RunIsSound
<1> DEFINE new == [run[w] EXCEPT !.stage = "next", !.left = run[w].left \ {s}, !.at = {}]
<1>6. /\ new \in L!Run
      /\ new.stage = "next" /\ new.job = run[w].job /\ new.moment = run[w].moment
      /\ new.at = {} /\ new.left = run[w].left \ {s}
  BY <1>4 DEF L!Run
<1>7. run' = [run EXCEPT ![w] = new]
  BY <1>1, <1>3
<1> HIDE DEF new, d
<1>8. run'[w] = new /\ \A v \in Worker \ {w} : run'[v] = run[v]
  BY <1>3, <1>7 DEF L!TypeOK
<1>9. L!TypeOK'
  <2>1. <<d, s>> \in L!DigestId
    BY <1>4, <1>5 DEF L!DigestId
  <2>2. run' \in [Worker -> L!Run \cup {L!NoRun}]
    BY <1>3, <1>6, <1>7 DEF L!TypeOK
  <2> QED BY <1>1, <1>2, <2>1, <2>2 DEF L!IndInv, L!TypeOK
<1>10. L!AdmittedInv'
  BY <1>2, AdmittedStays DEF L!IndInv
<1>11. L!RunIsSound(w)'
  <2>1. L!Window(run'[w].moment) = d
    BY <1>6, <1>8 DEF d
  <2>2. \A x \in Scope : <<d, x>> \in noted => x \in new.left \/ <<d, x>> \in derived
    BY <1>4, <1>5, <1>6
  <2> QED BY <2>1, <2>2, <1>2, <1>4, <1>5, <1>6, <1>8 DEF L!RunIsSound, L!Window
<1>12. \A x \in run[w].at : <<L!Window(run[w].moment), x>> \in cards' \cup struck'
  BY <1>1, <1>4 DEF d
<1>13. L!RunsInv' /\ \A c, x : L!Digested(c, x) => L!Digested(c, x)'
  BY <1>1, <1>2, <1>8, <1>11, <1>12, OneActs
<1> QED BY <1>2, <1>9, <1>10, <1>13, OneActsQuietly DEF L!IndInv

\* A run ends, and the job with it if the lease is still its own.
LEMMA JobSettled ==
    ASSUME L!IndInv, NEW w \in Worker, L!Settle(w) PROVE L!IndInv'
<1>1. /\ run[w].stage = "settle" /\ run' = [run EXCEPT ![w] = L!NoRun]
      /\ UNCHANGED <<llmDay, noted, derived, cards, admitted, covered, struck>>
  BY DEF L!Settle, L!AtStage
<1>2. L!TypeOK /\ run[w] # L!NoRun
  BY <1>1, NothingRuns DEF L!IndInv
<1> DEFINE Rec == [state : {"queued", "leased", "succeeded", "dead"},
                   holder : SUBSET Worker, runs : 0..MaxRuns, started : 0..LlmDays]
<1>3. PICK j \in L!LlmJob : j = run[w].job
  BY <1>2, RunFields
<1> DEFINE done == [job[j] EXCEPT !.state = "succeeded", !.holder = {}]
<1>4. job[j] \in Rec
  BY <1>2 DEF L!TypeOK
<1>5. done \in Rec /\ done.started = job[j].started
  BY <1>4
<1>6. job' = job \/ job' = [job EXCEPT ![j] = done]
  BY <1>2, <1>3 DEF L!Settle, L!TypeOK
<1>7. job \in [L!LlmJob -> Rec]
  BY <1>2 DEF L!TypeOK
<1> HIDE DEF done, Rec
<1>8. job' \in [L!LlmJob -> Rec]
  BY <1>5, <1>6, <1>7
<1>9. \A i \in Extract : job'[i].started = job[i].started
  BY <1>5, <1>6, <1>7 DEF L!LlmJob
<1>10. run'[w] = L!NoRun /\ \A v \in Worker \ {w} : run'[v] = run[v]
  BY <1>1, <1>2 DEF L!TypeOK
<1>11. L!TypeOK'
  <2>1. run' \in [Worker -> L!Run \cup {L!NoRun}]
    BY <1>1, <1>2 DEF L!TypeOK
  <2> QED BY <1>1, <1>8, <2>1 DEF L!IndInv, L!TypeOK, Rec
<1>12. L!AdmittedInv'
  BY <1>1, <1>9, AdmittedStays DEF L!IndInv
<1>13. L!RunIsSound(w)'
  BY <1>10 DEF L!RunIsSound
<1>14. L!RunsInv' /\ \A d, s : L!Digested(d, s) => L!Digested(d, s)'
  BY <1>1, <1>10, <1>13, OneActs
<1> QED BY <1>1, <1>11, <1>12, <1>14, OneActsQuietly DEF L!IndInv

\* A run stops in the middle; a digest without its card is noted.
LEMMA RunStops ==
    ASSUME L!IndInv, NEW w \in Worker, L!Crash(w) PROVE L!IndInv'
<1> DEFINE marks == {<<L!Window(run[w].moment), s>> : s \in run[w].at}
<1>1. /\ run[w] # L!NoRun /\ run' = [run EXCEPT ![w] = L!NoRun]
      /\ UNCHANGED <<llmDay, noted, job, derived, cards, admitted, covered>>
      /\ struck \subseteq struck' /\ struck' \subseteq struck \cup marks
      /\ run[w].stage = "index" => marks \subseteq struck'
      /\ run[w].stage # "index" => struck' = struck
  BY DEF L!Crash, L!AtStage, L!DigestOf
<1>2. L!TypeOK /\ L!RunIsSound(w)
  BY DEF L!IndInv, L!RunsInv
<1>3. run'[w] = L!NoRun /\ \A v \in Worker \ {w} : run'[v] = run[v]
  BY <1>1, <1>2 DEF L!TypeOK
<1>4. run[w].stage = "index" => marks \subseteq L!DigestId
  <2> SUFFICES ASSUME run[w].stage = "index", NEW s \in run[w].at
               PROVE  <<L!Window(run[w].moment), s>> \in L!DigestId
    OBVIOUS
  <2>1. L!Digesting(w)
    BY <1>1, <1>2 DEF L!RunIsSound, L!Digesting
  <2>2. L!Window(run[w].moment) \in L!Day /\ s \in Scope
    BY <2>1, <1>1, <1>2, RunFields DEF L!RunIsSound
  <2> QED BY <2>2 DEF L!DigestId
<1>5. L!TypeOK'
  <2>1. run' \in [Worker -> L!Run \cup {L!NoRun}]
    BY <1>1, <1>2 DEF L!TypeOK
  <2>2. struck' \subseteq L!DigestId
    BY <1>1, <1>2, <1>4 DEF L!TypeOK
  <2> QED BY <1>1, <2>1, <2>2 DEF L!IndInv, L!TypeOK
<1>6. L!AdmittedInv'
  BY <1>1, AdmittedStays DEF L!IndInv
<1>7. L!RunIsSound(w)'
  BY <1>3 DEF L!RunIsSound
<1>8. run[w].stage = "index" => \A x \in run[w].at : <<L!Window(run[w].moment), x>> \in cards' \cup struck'
  BY <1>1
<1> HIDE DEF marks
<1>9. L!RunsInv' /\ \A d, s : L!Digested(d, s) => L!Digested(d, s)'
  BY <1>1, <1>3, <1>7, <1>8, OneActs
<1> QED BY <1>1, <1>5, <1>6, <1>9, OneActsQuietly DEF L!IndInv

\* Every step of the jobs keeps the invariant.
LEMMA ModelsStep == L!IndInv /\ [L!Next]_(L!vars) => L!IndInv'
<1> SUFFICES ASSUME L!IndInv, [L!Next]_(L!vars)
             PROVE  L!IndInv'
  OBVIOUS
<1>1. CASE UNCHANGED L!vars
  <2>1. UNCHANGED <<llmDay, noted, job, run, derived, cards, admitted, covered, struck>>
    BY <1>1 DEF L!vars
  <2>2. L!TypeOK'
    BY <2>1 DEF L!IndInv, L!TypeOK
  <2>3. L!AdmittedInv'
    BY <2>1, AdmittedStays DEF L!IndInv
  <2>4. L!RunsInv'
    BY <2>1 DEF L!IndInv, L!RunsInv, L!RunIsSound, L!Digesting, L!Window
  <2>5. \A d, s : L!Digested(d, s) => L!Digested(d, s)'
    BY <2>1 DEF L!Digested, L!AtStage, L!Window
  <2> QED BY <2>1, <2>2, <2>3, <2>4, <2>5, OneActsQuietly DEF L!IndInv
<1>2. CASE L!Next
  BY <1>2, DayGoesOn, JobLeased, LeaseLost, NoteIsRead, WindowIsRead, QuotaChecked, ScopeIsNext,
     NoteIsInserted, DigestIsInserted, DigestIsIndexed, JobSettled, RunStops DEF L!Next
<1> QED BY <1>1, <1>2

\* What the budget rests on: extractions count on the day that it is, and there is one
\* digest at most.
LEMMA BudgetIsKept == L!IndInv => L!BudgetHolds
<1> SUFFICES ASSUME L!IndInv, NEW d \in L!Day
             PROVE  L!Cardinality(L!AdmittedOn(d)) <= Quota
  BY DEF L!BudgetHolds
<1> DEFINE S == L!AdmittedOn(d)
<1>1. S \in SUBSET L!LlmJob /\ Quota \in Nat
  BY ModelsAssumption DEF L!AdmittedOn
<1>2. CASE S = {}
  BY <1>1, <1>2, FS_EmptySet, ModelsCount
<1>3. CASE S # {}
  <2>1. Cardinality(S \cap Extract) < Quota /\ Cardinality(S \cap Extract) \in Nat
    BY <1>1, <1>3, ModelsCount, JobsAreFinite DEF L!IndInv, L!AdmittedInv
  <2>2. IsFiniteSet(S \cap Extract)
    BY FS_Subset, ModelsAssumption
  <2>3. CASE S \subseteq Extract
    <3>1. S \cap Extract = S
      BY <2>3
    <3> QED BY <2>1, <3>1, <1>1, ModelsCount
  <2>4. CASE ~(S \subseteq Extract)
    <3>1. PICK g \in S : g \notin Extract
      BY <2>4
    <3>2. S = (S \cap Extract) \cup {g}
      BY <3>1, <1>1, OneDigest DEF L!LlmJob
    <3>3. Cardinality(S) = Cardinality(S \cap Extract) + 1
      BY <3>1, <3>2, <2>2, FS_AddElement
    <3> QED BY <3>3, <2>1, <1>1, ModelsCount
  <2> QED BY <2>3, <2>4
<1> QED BY <1>2, <1>3

-----------------------------------------------------------------------------
(***************************************************************************)
(* The theorems.                                                           *)
(***************************************************************************)
\* The scheduler keeps its inductive invariant: a key of a day has one row at most,
\* what was due when a committed tick began has its row, and none is early.
THEOREM ScheduleCorrect == Spec => []IndInv
<1> QED BY ScheduleInit, ScheduleStep, PTL DEF Spec

\* The jobs that call a model keep theirs, whatever runs crash or lose their leases.
THEOREM ModelsCorrect == L!Spec => [](L!IndInv)
<1> QED BY ModelsInit, ModelsStep, PTL DEF L!Spec

\* The invariants of both sides, in the specification of the run: each job once a day,
\* none forgotten and none before its time.
THEOREM SchedulesHold == WorkersSpec => []ScheduleSound
<1> DEFINE Inv == desk \in {"schedule", "models"} /\ ScheduleSound
<1>1. WorkersInit => Inv
  BY ScheduleInit, ModelsInit DEF WorkersInit, ScheduleSound
<1>2. Inv /\ [WorkersNext]_workersVars => Inv'
  <2> SUFFICES ASSUME Inv, [WorkersNext]_workersVars
               PROVE  Inv'
    OBVIOUS
  <2>1. desk' = desk
    BY DEF WorkersNext, workersVars
  <2>2. CASE desk = "schedule"
    <3>1. [Next]_vars
      BY <2>2 DEF WorkersNext, workersVars
    <3>2. IndInv'
      BY <2>2, <3>1, ScheduleStep DEF ScheduleSound
    <3> QED BY <2>1, <2>2, <3>2 DEF ScheduleSound
  <2>3. CASE desk = "models"
    <3>1. [L!Next]_(L!vars)
      BY <2>3 DEF WorkersNext, workersVars, llmVars, L!vars
    <3>2. L!IndInv'
      BY <2>3, <3>1, ModelsStep DEF ScheduleSound
    <3> QED BY <2>1, <2>3, <3>2 DEF ScheduleSound
  <2> QED BY <2>2, <2>3
<1> QED BY <1>1, <1>2, PTL DEF WorkersSpec

\* Extractions, of any number of digests beside them, are let through within the quota
\* of a day: each counts itself when it asks, so fewer than the quota are.
THEOREM ExtractionsFit ==
    WorkersSpec => [](desk = "models" => \A d \in L!Day :
        L!AdmittedOn(d) # {} => L!Cardinality(L!AdmittedOn(d) \cap Extract) < Quota)
<1>1. ScheduleSound => (desk = "models" => \A d \in L!Day :
        L!AdmittedOn(d) # {} => L!Cardinality(L!AdmittedOn(d) \cap Extract) < Quota)
  BY DEF ScheduleSound, L!IndInv, L!AdmittedInv
<1> QED BY <1>1, SchedulesHold, PTL

\* Where one digest is at work, as the daily schedule has it, the budget holds: of the
\* jobs leased on a day no more than the quota are let through on that day, with
\* retries, lost leases and checks after midnight.
THEOREM BudgetIsHeld == WorkersSpec => []BudgetHolds
<1>1. ScheduleSound => BudgetHolds
  BY BudgetIsKept DEF ScheduleSound, BudgetHolds
<1> QED BY <1>1, SchedulesHold, PTL

\* A day whose digest was gone through has a digest for each scope, and its card unless
\* a run stopped just before.
THEOREM DigestsComplete == WorkersSpec => []DigestsAreComplete
<1>1. ScheduleSound => DigestsAreComplete
  BY DEF ScheduleSound, DigestsAreComplete, L!IndInv
<1> QED BY <1>1, SchedulesHold, PTL
=============================================================================

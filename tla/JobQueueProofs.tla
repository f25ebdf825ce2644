--------------------------- MODULE JobQueueProofs ---------------------------
(***************************************************************************)
(* The safety of the job queue for any set of jobs and workers, any retry  *)
(* bound and any number of crashes.  IndInv of JobQueue is inductive; the  *)
(* checked invariants are conjuncts of it, the finality of ends and the    *)
(* refinement of JobLifecycle follow from it step by step.                 *)
(***************************************************************************)
EXTENDS JobQueue, TLAPS

USE DEF JobState, Row, Claim, Stage, tableVars, workerVars, vars

\* The initial states satisfy the inductive invariant.
LEMMA InitInd == Init => IndInv
BY ConstantsAssumption
   DEF Init, IndInv, TypeOK, OneHolderPerToken, TokensCountAttempts,
       SucceededUnderItsToken, LiveClaimsAreLeased, MemoryInv, SnapshotInv,
       WaitingInv, Held, NoRows, NoRow, Fenced

\* Every action keeps the types of the table and of the workers' memory.
LEMMA TypeStep == TypeOK /\ [Next]_vars => TypeOK'
<1> SUFFICES ASSUME TypeOK, [Next]_vars PROVE TypeOK'
  OBVIOUS
<1> USE DEF TypeOK
<1>1. ASSUME NEW j \in Job, Enqueue(j) PROVE TypeOK'
  BY <1>1 DEF Enqueue
<1>2. ASSUME NEW j \in Job, TimeElapses(j) PROVE TypeOK'
  BY <1>2 DEF TimeElapses
<1>3. ASSUME NEW j \in Job, PruneRebuildable(j) PROVE TypeOK'
  BY <1>3 DEF PruneRebuildable
<1>4. ASSUME NEW w \in Worker, SelectCandidates(w) PROVE TypeOK'
  BY <1>4 DEF SelectCandidates, RowOf, NoRow
<1>5. ASSUME NEW w \in Worker, ClaimReadyJobs(w) PROVE TypeOK'
  <2>1. StillMine(w) \subseteq Job /\ Won(w) \subseteq Job
    BY DEF StillMine, Won
  <2>2. state' \in [Job -> JobState] /\ attempts' \in [Job -> Nat]
        /\ claim_token' \in [Job -> Nat] /\ elapsed' \in [Job -> BOOLEAN]
    BY <1>5 DEF ClaimReadyJobs
  <2>3. batch' \in [Worker -> SUBSET Claim]
    BY <1>5, <2>1 DEF ClaimReadyJobs
  <2>4. snapshot' \in [Worker -> [Job -> Row]] /\ pc' \in [Worker -> Stage]
    BY <1>5 DEF ClaimReadyJobs, NoRows, NoRow
  <2> QED BY <1>5, <2>2, <2>3, <2>4 DEF ClaimReadyJobs
<1>6. ASSUME NEW w \in Worker, PollReturns(w) PROVE TypeOK'
  BY <1>6 DEF PollReturns
<1>7. ASSUME NEW w \in Worker, StartJob(w) PROVE TypeOK'
  BY <1>7 DEF StartJob
<1>8. ASSUME NEW w \in Worker, HandlerReturns(w) PROVE TypeOK'
  BY <1>8 DEF HandlerReturns
<1>9. ASSUME NEW w \in Worker, HandlerRaises(w) PROVE TypeOK'
  BY <1>9 DEF HandlerRaises
<1>10. ASSUME NEW w \in Worker, CompleteJob(w) PROVE TypeOK'
  BY <1>10 DEF CompleteJob
<1>11. ASSUME NEW c \in Claim, NEW r \in BOOLEAN, FailRow(c, r)
       PROVE /\ state' \in [Job -> JobState] /\ elapsed' \in [Job -> BOOLEAN]
             /\ attempts' \in [Job -> Nat] /\ claim_token' \in [Job -> Nat]
  BY <1>11 DEF FailRow
<1>12. ASSUME NEW w \in Worker, SettleFailure(w) PROVE TypeOK'
  BY <1>11, <1>12 DEF SettleFailure
<1>13. ASSUME NEW w \in Worker, RejectUnhandled(w) PROVE TypeOK'
  BY <1>11, <1>13 DEF RejectUnhandled
<1>14. ASSUME NEW w \in Worker, Heartbeat(w) PROVE TypeOK'
  BY <1>14 DEF Heartbeat
<1>15. ASSUME NEW w \in Worker, Crash(w) PROVE TypeOK'
  BY <1>15 DEF Crash, NoRows, NoRow
<1>16. CASE UNCHANGED vars
  BY <1>16
<1> QED
  BY <1>1, <1>2, <1>3, <1>4, <1>5, <1>6, <1>7, <1>8, <1>9, <1>10, <1>12, <1>13,
     <1>14, <1>15, <1>16 DEF Next, PollStep

\* The columns and the memory of the job queue always have their types.
THEOREM TypeCorrect == Spec => []TypeOK
<1>1. Init => TypeOK
  BY InitInd DEF IndInv
<1> QED BY <1>1, TypeStep, PTL DEF Spec

-----------------------------------------------------------------------------
\* The parts of IndInv that a step is shown to preserve besides TypeOK.
Rest ==
    /\ OneHolderPerToken /\ TokensCountAttempts /\ SucceededUnderItsToken
    /\ LiveClaimsAreLeased /\ MemoryInv /\ SnapshotInv /\ WaitingInv

LEMMA IndInvParts == IndInv <=> TypeOK /\ Rest
BY DEF IndInv, Rest

\* Inserting a row: no claim of it is live, and it has every attempt left.
LEMMA EnqueueInd ==
    ASSUME NEW j \in Job, IndInv, IndInv => TypeOK', Enqueue(j)
    PROVE  Rest'
<1> USE DEF IndInv, TypeOK, Enqueue
<1>1. OneHolderPerToken' BY DEF OneHolderPerToken, Held
<1>2. TokensCountAttempts' BY DEF TokensCountAttempts, Held
<1>3. SucceededUnderItsToken' BY DEF SucceededUnderItsToken
<1>4. LiveClaimsAreLeased' BY DEF LiveClaimsAreLeased, Held, Fenced
<1>5. MemoryInv' BY DEF MemoryInv, Held
<1>6. SnapshotInv' BY DEF SnapshotInv
<1>7. WaitingInv' BY ConstantsAssumption DEF WaitingInv
<1> QED BY <1>1, <1>2, <1>3, <1>4, <1>5, <1>6, <1>7 DEF Rest

\* Passing time and renewing a lease touch no column of the invariant.
LEMMA ClockInd ==
    ASSUME IndInv, UNCHANGED <<state, attempts, claim_token, workerVars, applied>>
    PROVE  Rest'
BY DEF IndInv, Rest, OneHolderPerToken, TokensCountAttempts, SucceededUnderItsToken,
       LiveClaimsAreLeased, MemoryInv, SnapshotInv, WaitingInv, Held, Fenced

\* Pruning a row that nobody holds.
LEMMA PruneInd ==
    ASSUME NEW j \in Job, IndInv, PruneRebuildable(j)
    PROVE  Rest'
<1> USE DEF IndInv, TypeOK, PruneRebuildable
<1>1. OneHolderPerToken' BY DEF OneHolderPerToken, Held
<1>2. TokensCountAttempts' BY DEF TokensCountAttempts, Held
<1>3. SucceededUnderItsToken' BY DEF SucceededUnderItsToken
<1>4. LiveClaimsAreLeased' BY DEF LiveClaimsAreLeased, Held, Fenced
<1>5. MemoryInv' BY DEF MemoryInv, Held
<1>6. SnapshotInv' BY DEF SnapshotInv
<1>7. WaitingInv' BY DEF WaitingInv
<1> QED BY <1>1, <1>2, <1>3, <1>4, <1>5, <1>6, <1>7 DEF Rest

\* Reading candidates: the rows read are the present ones.
LEMMA SelectInd ==
    ASSUME NEW w \in Worker, IndInv, SelectCandidates(w)
    PROVE  Rest'
<1> USE DEF IndInv, TypeOK, SelectCandidates
<1>1. OneHolderPerToken' BY DEF OneHolderPerToken, Held
<1>2. TokensCountAttempts' BY DEF TokensCountAttempts, Held
<1>3. SucceededUnderItsToken' BY DEF SucceededUnderItsToken
<1>4. LiveClaimsAreLeased' BY DEF LiveClaimsAreLeased, Held, Fenced
<1>5. MemoryInv' BY DEF MemoryInv, Held
<1>6. SnapshotInv'
  BY DEF SnapshotInv, TokensCountAttempts, RowOf, NoRow
<1>7. WaitingInv' BY DEF WaitingInv
<1> QED BY <1>1, <1>2, <1>3, <1>4, <1>5, <1>6, <1>7 DEF Rest

\* Claiming: a won row gets a token nobody has seen, an exhausted one is at the
\* bound, and every other row is left alone.
LEMMA ClaimInd ==
    ASSUME NEW w \in Worker, IndInv, ClaimReadyJobs(w)
    PROVE  Rest'
<1> USE DEF IndInv, TypeOK
<1>1. /\ StillMine(w) \subseteq Job
      /\ Won(w) \subseteq StillMine(w) /\ Exhausted(w) \subseteq StillMine(w)
      /\ Won(w) \cap Exhausted(w) = {}
  BY DEF StillMine, Won, Exhausted
<1>2. \A j \in StillMine(w) :
         /\ snapshot[w][j].token = claim_token[j]
         /\ snapshot[w][j].attempts = attempts[j]
         /\ state[j] \in {"queued", "retry_wait", "leased"}
  BY <1>1 DEF StillMine, SnapshotInv, TokensCountAttempts, Ready
<1>3. \A j \in Won(w) : attempts[j] < MaxAttempts
  BY <1>1, <1>2, ConstantsAssumption DEF Won, Exhausted
<1>4. \A j \in Exhausted(w) : attempts[j] = MaxAttempts
  BY <1>1, <1>2, ConstantsAssumption DEF Exhausted, TokensCountAttempts
<1>5. \A j \in Job :
         /\ j \in Won(w) => /\ attempts'[j] = attempts[j] + 1
                            /\ claim_token'[j] = claim_token[j] + 1
                            /\ state'[j] = "leased"
         /\ j \in Exhausted(w) => state'[j] = "dead_letter"
         /\ j \notin Won(w) => attempts'[j] = attempts[j] /\ claim_token'[j] = claim_token[j]
         /\ j \notin StillMine(w) => state'[j] = state[j]
  BY <1>1, <1>2 DEF ClaimReadyJobs, Won
<1>6. /\ \A v \in Worker : v # w => batch'[v] = batch[v]
      /\ running' = running /\ applied' = applied
      /\ \A v \in Worker : v # w => snapshot'[v] = snapshot[v] /\ pc'[v] = pc[v]
      /\ pc'[w] = "between" /\ pc[w] = "candidates"
      /\ snapshot'[w] = NoRows
  BY DEF ClaimReadyJobs
<1>7. batch'[w] = {[job |-> j, token |-> claim_token[j] + 1] : j \in Won(w)}
  BY <1>1, <1>2 DEF ClaimReadyJobs
<1>8. running[w] = {} /\ batch[w] = {}
  BY <1>6 DEF MemoryInv, Held
<1>9. \A v \in Worker : \A c \in Held(v) : c \in Claim /\ c.token <= claim_token[c.job]
  BY DEF TokensCountAttempts, Held
<1>10. OneHolderPerToken'
  <2> SUFFICES ASSUME NEW u \in Worker, NEW v \in Worker, u # v,
                      NEW c \in Held(u)', NEW d \in Held(v)', c = d
               PROVE  FALSE
    BY DEF OneHolderPerToken
  <2>1. CASE u = w
    <3>1. c \in batch'[w] /\ d \in Held(v)
      BY <2>1, <1>6, <1>8 DEF Held
    <3> QED BY <3>1, <1>1, <1>7, <1>9
  <2>2. CASE v = w
    <3>1. d \in batch'[w] /\ c \in Held(u)
      BY <2>2, <1>6, <1>8 DEF Held
    <3> QED BY <3>1, <1>1, <1>7, <1>9
  <2>3. CASE u # w /\ v # w
    BY <2>3, <1>6 DEF OneHolderPerToken, Held
  <2> QED BY <2>1, <2>2, <2>3
<1>11. \A v \in Worker : \A c \in Held(v)' :
          \/ v = w /\ c.job \in Won(w) /\ c.token = claim_token'[c.job]
          \/ v # w /\ c \in Held(v)
  <2> SUFFICES ASSUME NEW v \in Worker, NEW c \in Held(v)'
               PROVE  \/ v = w /\ c.job \in Won(w) /\ c.token = claim_token'[c.job]
                      \/ v # w /\ c \in Held(v)
    OBVIOUS
  <2>1. CASE v = w
    <3>1. c \in batch'[w] BY <2>1, <1>6, <1>8 DEF Held
    <3> QED BY <3>1, <2>1, <1>1, <1>5, <1>7
  <2>2. CASE v # w
    BY <2>2, <1>6 DEF Held
  <2> QED BY <2>1, <2>2
<1>12. TokensCountAttempts'
  <2>1. \A j \in Job : claim_token'[j] = attempts'[j] /\ attempts'[j] <= MaxAttempts
    <3> SUFFICES ASSUME NEW j \in Job
                 PROVE  claim_token'[j] = attempts'[j] /\ attempts'[j] <= MaxAttempts
      OBVIOUS
    <3>1. claim_token[j] = attempts[j] /\ attempts[j] <= MaxAttempts
          /\ attempts[j] \in Nat /\ MaxAttempts \in Nat
      BY ConstantsAssumption DEF TokensCountAttempts
    <3>2. CASE j \in Won(w) BY <3>1, <3>2, <1>3, <1>5
    <3>3. CASE j \notin Won(w) BY <3>1, <3>3, <1>5
    <3> QED BY <3>2, <3>3
  <2>2. ASSUME NEW v \in Worker, NEW c \in Held(v)' PROVE c.token <= claim_token'[c.job]
    <3>1. CASE v = w
      BY <3>1, <1>1, <1>5, <1>11
    <3>2. CASE v # w
      BY <3>2, <1>5, <1>9, <1>11
    <3> QED BY <3>1, <3>2
  <2> QED BY <2>1, <2>2 DEF TokensCountAttempts
<1>13. SucceededUnderItsToken'
  <2> SUFFICES ASSUME NEW j \in Job, state'[j] \in {"succeeded", "pruned"}
               PROVE  [job |-> j, token |-> claim_token'[j]] \in applied'
    BY DEF SucceededUnderItsToken
  <2>1. j \notin Won(w) /\ j \notin Exhausted(w)
    BY <1>5
  <2>2. j \notin StillMine(w)
    BY <2>1 DEF Won
  <2>3. state'[j] = state[j] /\ claim_token'[j] = claim_token[j]
    BY <2>1, <2>2, <1>5
  <2> QED BY <2>3, <1>6 DEF SucceededUnderItsToken
<1>14. LiveClaimsAreLeased'
  <2> SUFFICES ASSUME NEW v \in Worker, NEW c \in Held(v)', claim_token'[c.job] = c.token
               PROVE  \/ state'[c.job] = "leased"
                      \/ state'[c.job] = "dead_letter" /\ attempts'[c.job] = MaxAttempts
    BY DEF LiveClaimsAreLeased, Fenced
  <2>1. CASE v = w
    BY <2>1, <1>1, <1>5, <1>11
  <2>2. CASE v # w
    <3>1. c \in Held(v) /\ c \in Claim /\ c.token <= claim_token[c.job]
      BY <2>2, <1>9, <1>11
    <3>2. c.job \notin Won(w) /\ claim_token[c.job] = c.token
      BY <3>1, <1>5
    <3>3. \/ state[c.job] = "leased"
          \/ state[c.job] = "dead_letter" /\ attempts[c.job] = MaxAttempts
      BY <3>1, <3>2 DEF LiveClaimsAreLeased, Fenced
    <3>4. CASE c.job \in Exhausted(w)
      BY <3>1, <3>2, <3>4, <1>4, <1>5
    <3>5. CASE c.job \notin Exhausted(w)
      <4>1. c.job \notin StillMine(w)
        BY <3>2, <3>5 DEF Won
      <4> QED BY <4>1, <3>1, <3>2, <3>3, <1>5
    <3> QED BY <3>4, <3>5
  <2> QED BY <2>1, <2>2
<1>15. MemoryInv'
  BY <1>6, <1>8 DEF MemoryInv, Held
<1>16. SnapshotInv'
  <2> SUFFICES ASSUME NEW v \in Worker, NEW j \in Job
               PROVE  /\ snapshot'[v][j].token <= claim_token'[j]
                      /\ snapshot'[v][j].attempts = snapshot'[v][j].token
    BY DEF SnapshotInv
  <2>1. claim_token'[j] \in Nat /\ claim_token[j] <= claim_token'[j]
    <3>1. claim_token[j] \in Nat OBVIOUS
    <3>2. claim_token'[j] = claim_token[j] \/ claim_token'[j] = claim_token[j] + 1
      BY <1>5
    <3> QED BY <3>1, <3>2
  <2>2. CASE v = w
    BY <2>1, <2>2, <1>6 DEF NoRows, NoRow
  <2>3. CASE v # w
    BY <2>1, <2>3, <1>6 DEF SnapshotInv
  <2> QED BY <2>2, <2>3
<1>17. WaitingInv'
  <2> SUFFICES ASSUME NEW j \in Job
               PROVE  /\ state'[j] \in {"queued", "retry_wait"} => attempts'[j] < MaxAttempts
                      /\ state'[j] = "absent" => attempts'[j] = 0
    BY DEF WaitingInv
  <2>1. CASE j \in StillMine(w)
    <3>1. j \in Won(w) \/ j \in Exhausted(w) BY <2>1 DEF Won
    <3> QED BY <3>1, <1>5
  <2>2. CASE j \notin StillMine(w)
    <3>1. state'[j] = state[j] /\ attempts'[j] = attempts[j]
      BY <2>2, <1>1, <1>5
    <3> QED BY <3>1 DEF WaitingInv
  <2> QED BY <2>1, <2>2
<1> QED BY <1>10, <1>12, <1>13, <1>14, <1>15, <1>16, <1>17 DEF Rest

\* A worker that only moves claims within its memory, or drops some.
LEMMA MemoryInd ==
    ASSUME NEW w \in Worker, IndInv,
           UNCHANGED <<state, attempts, claim_token, snapshot>>,
           applied \subseteq applied',
           \A v \in Worker : v # w => batch'[v] = batch[v] /\ running'[v] = running[v]
                                      /\ pc'[v] = pc[v],
           Held(w)' \subseteq Held(w),
           pc'[w] \in {"idle", "candidates"} => Held(w)' = {},
           pc'[w] = "between" => running'[w] = {},
           pc'[w] = "commit" => running'[w] \subseteq applied',
           batch'[w] \cap running'[w] = {}
    PROVE  Rest'
<1> USE DEF IndInv, TypeOK
<1>0. \A v \in Worker : Held(v)' \subseteq Held(v)
  BY DEF Held
<1>1. OneHolderPerToken' BY <1>0 DEF OneHolderPerToken
<1>2. TokensCountAttempts' BY <1>0 DEF TokensCountAttempts
<1>3. SucceededUnderItsToken' BY DEF SucceededUnderItsToken
<1>4. LiveClaimsAreLeased' BY <1>0 DEF LiveClaimsAreLeased, Fenced
<1>5. MemoryInv' BY <1>0 DEF MemoryInv, Held
<1>6. SnapshotInv' BY DEF SnapshotInv
<1>7. WaitingInv' BY DEF WaitingInv
<1> QED BY <1>1, <1>2, <1>3, <1>4, <1>5, <1>6, <1>7 DEF Rest

\* The steps of poll() that change the memory of one worker only.
LEMMA MemorySteps ==
    ASSUME NEW w \in Worker, IndInv,
           PollReturns(w) \/ StartJob(w) \/ HandlerReturns(w) \/ HandlerRaises(w)
    PROVE  Rest'
<1> USE DEF IndInv, TypeOK
<1>1. CASE PollReturns(w)
  <2>1. batch[w] = {} /\ running[w] = {} /\ UNCHANGED <<batch, running>>
    BY <1>1 DEF PollReturns, MemoryInv
  <2>2. Held(w)' = {} /\ batch'[w] \cap running'[w] = {}
    BY <2>1 DEF Held
  <2> QED BY <1>1, <2>1, <2>2, MemoryInd DEF PollReturns
<1>2. CASE StartJob(w)
  <2>1. PICK c \in batch[w] : /\ batch' = [batch EXCEPT ![w] = @ \ {c}]
                              /\ running' = [running EXCEPT ![w] = {c}]
    BY <1>2 DEF StartJob
  <2>2. Held(w)' \subseteq Held(w) /\ batch'[w] \cap running'[w] = {}
    BY <2>1 DEF Held
  <2> QED BY <1>2, <2>1, <2>2, MemoryInd DEF StartJob
<1>3. CASE HandlerReturns(w)
  BY <1>3, MemoryInd DEF HandlerReturns, MemoryInv, Held
<1>4. CASE HandlerRaises(w)
  BY <1>4, MemoryInd DEF HandlerRaises, MemoryInv, Held
<1> QED BY <1>1, <1>2, <1>3, <1>4

\* Settling a claim: the row moves only if the claim is live, and then nobody
\* holds a live claim of it any more.
LEMMA SettleInd ==
    ASSUME NEW w \in Worker, NEW c \in Held(w), IndInv,
           UNCHANGED <<attempts, claim_token, snapshot, applied>>,
           \A v \in Worker : v # w => batch'[v] = batch[v] /\ running'[v] = running[v],
           \A v \in Worker : v # w => pc'[v] = pc[v],
           pc'[w] = "between", running'[w] = {},
           Held(w)' \subseteq Held(w) \ {c},
           NEW s, state' = [state EXCEPT ![c.job] = s],
           s # state[c.job] => Fenced(c),
           s \in {"succeeded", "pruned"} => s = state[c.job] \/ c \in applied,
           s \in {"queued", "retry_wait"} => attempts[c.job] < MaxAttempts,
           s = "absent" => attempts[c.job] = 0
    PROVE  Rest'
<1> USE DEF IndInv, TypeOK
<1>0. \A v \in Worker : Held(v)' \subseteq Held(v) /\ c \notin Held(v)'
  BY DEF Held, OneHolderPerToken
<1>00. c \in Claim
  BY DEF Held
<1>1. OneHolderPerToken' BY <1>0 DEF OneHolderPerToken
<1>2. TokensCountAttempts' BY <1>0 DEF TokensCountAttempts
<1>3. SucceededUnderItsToken'
  <2> SUFFICES ASSUME NEW j \in Job, state'[j] \in {"succeeded", "pruned"}
               PROVE  [job |-> j, token |-> claim_token[j]] \in applied
    BY DEF SucceededUnderItsToken
  <2>1. CASE j = c.job /\ s # state[c.job]
    <3>1. c = [job |-> j, token |-> claim_token[j]]
      BY <1>00, <2>1 DEF Fenced
    <3> QED BY <3>1, <2>1, <1>00
  <2>2. CASE j # c.job \/ s = state[c.job]
    BY <1>00, <2>2 DEF SucceededUnderItsToken
  <2> QED BY <2>1, <2>2
<1>4. LiveClaimsAreLeased'
  <2> SUFFICES ASSUME NEW v \in Worker, NEW d \in Held(v)', claim_token[d.job] = d.token
               PROVE  \/ state'[d.job] = "leased"
                      \/ state'[d.job] = "dead_letter" /\ attempts[d.job] = MaxAttempts
    BY DEF LiveClaimsAreLeased, Fenced
  <2>1. d \in Held(v) /\ d \in Claim /\ d # c
    BY <1>0 DEF Held
  <2>2. \/ state[d.job] = "leased"
        \/ state[d.job] = "dead_letter" /\ attempts[d.job] = MaxAttempts
    BY <2>1 DEF LiveClaimsAreLeased, Fenced
  <2>3. CASE d.job = c.job /\ s # state[c.job]
    <3>1. c.token = d.token
      BY <2>3 DEF Fenced
    <3>2. c = [job |-> c.job, token |-> c.token] /\ d = [job |-> d.job, token |-> d.token]
      BY <2>1, <1>00
    <3> QED BY <3>1, <3>2, <2>1, <2>3
  <2>4. CASE d.job # c.job \/ s = state[c.job]
    BY <2>1, <2>2, <2>4, <1>00
  <2> QED BY <2>3, <2>4
<1>5. MemoryInv'
  <2>1. \A v \in Worker : v # w => Held(v)' = Held(v)
    BY DEF Held
  <2>2. batch'[w] \cap running'[w] = {}
    OBVIOUS
  <2> QED BY <2>1, <2>2 DEF MemoryInv, Held
<1>6. SnapshotInv' BY DEF SnapshotInv
<1>7. WaitingInv' BY <1>00 DEF WaitingInv
<1> QED BY <1>1, <1>2, <1>3, <1>4, <1>5, <1>6, <1>7 DEF Rest

\* What fail_job does to the row of a claim.
LEMMA FailRowEffect ==
    ASSUME NEW c \in Claim, NEW r \in BOOLEAN, TypeOK, FailRow(c, r)
    PROVE  \E s \in JobState :
              /\ state' = [state EXCEPT ![c.job] = s]
              /\ s # state[c.job] => Fenced(c)
              /\ s = "retry_wait" => s = state[c.job] \/ attempts[c.job] < MaxAttempts
              /\ s = "dead_letter" \/ s = state[c.job] \/ s = "retry_wait"
<1> USE DEF TypeOK
<1>1. CASE ~Fenced(c)
  <2>1. state' = [state EXCEPT ![c.job] = state[c.job]]
    BY <1>1 DEF FailRow
  <2> QED BY <2>1
<1>2. CASE Fenced(c) /\ (~r \/ attempts[c.job] >= MaxAttempts)
  <2>1. state' = [state EXCEPT ![c.job] = "dead_letter"]
    BY <1>2 DEF FailRow
  <2> QED BY <2>1, <1>2
<1>3. CASE Fenced(c) /\ ~(~r \/ attempts[c.job] >= MaxAttempts)
  <2>1. state' = [state EXCEPT ![c.job] = "retry_wait"]
    BY <1>3 DEF FailRow
  <2>2. attempts[c.job] < MaxAttempts
    BY <1>3, ConstantsAssumption
  <2> QED BY <2>1, <2>2, <1>3
<1> QED BY <1>1, <1>2, <1>3

\* The three steps that settle a claim.
LEMMA SettleSteps ==
    ASSUME NEW w \in Worker, IndInv,
           CompleteJob(w) \/ SettleFailure(w) \/ RejectUnhandled(w)
    PROVE  Rest'
<1> USE DEF IndInv, TypeOK
<1>1. CASE CompleteJob(w)
  <2>1. PICK c \in running[w] :
           state' = IF MayCommit(c) THEN [state EXCEPT ![c.job] = "succeeded"] ELSE state
    BY <1>1 DEF CompleteJob
  <2> DEFINE s == IF MayCommit(c) THEN "succeeded" ELSE state[c.job]
  <2>2. c \in Claim /\ c \in Held(w) /\ c \in applied /\ c \notin batch[w]
    BY <1>1 DEF CompleteJob, Held, MemoryInv
  <2>3. state' = [state EXCEPT ![c.job] = s]
    BY <2>1, <2>2
  <2>4. Held(w)' \subseteq Held(w) \ {c}
    BY <1>1, <2>2 DEF CompleteJob, Held
  <2>5. s # state[c.job] => Fenced(c)
    BY DEF MayCommit
  <2>6. /\ s \in {"queued", "retry_wait"} => attempts[c.job] < MaxAttempts
        /\ s = "absent" => attempts[c.job] = 0
    BY <2>2 DEF WaitingInv
  <2> HIDE DEF s
  <2>7. s \in {"succeeded", "pruned"} => s = state[c.job] \/ c \in applied
    BY <2>2
  <2>8. /\ UNCHANGED <<attempts, claim_token, snapshot, applied>>
        /\ \A v \in Worker : v # w => batch'[v] = batch[v] /\ running'[v] = running[v]
        /\ \A v \in Worker : v # w => pc'[v] = pc[v]
        /\ pc'[w] = "between" /\ running'[w] = {}
    BY <1>1 DEF CompleteJob
  <2> QED BY <2>2, <2>3, <2>4, <2>5, <2>6, <2>7, <2>8, SettleInd
<1>2. ASSUME NEW c \in Held(w), NEW r \in BOOLEAN, FailRow(c, r),
             UNCHANGED <<snapshot, applied>>,
             \A v \in Worker : v # w => batch'[v] = batch[v] /\ running'[v] = running[v],
             \A v \in Worker : v # w => pc'[v] = pc[v],
             pc'[w] = "between", running'[w] = {},
             Held(w)' \subseteq Held(w) \ {c}
      PROVE  Rest'
  <2>1. c \in Claim
    BY DEF Held
  <2>2. PICK s \in JobState :
              /\ state' = [state EXCEPT ![c.job] = s]
              /\ s # state[c.job] => Fenced(c)
              /\ s = "retry_wait" => s = state[c.job] \/ attempts[c.job] < MaxAttempts
              /\ s = "dead_letter" \/ s = state[c.job] \/ s = "retry_wait"
    <3>1. TypeOK OBVIOUS
    <3> HIDE DEF TypeOK
    <3> QED BY <2>1, <1>2, <3>1, FailRowEffect
  <2>3. /\ s \in {"queued", "retry_wait"} => attempts[c.job] < MaxAttempts
        /\ s = "absent" => attempts[c.job] = 0
    BY <2>1, <2>2 DEF WaitingInv
  <2>4. s \in {"succeeded", "pruned"} => s = state[c.job] \/ c \in applied
    BY <2>2
  <2>5. UNCHANGED <<attempts, claim_token>>
    BY <1>2 DEF FailRow
  <2> QED BY <1>2, <2>2, <2>3, <2>4, <2>5, SettleInd
<1>3. CASE SettleFailure(w)
  <2>1. PICK c \in running[w] : FailRow(c, pc[w] = "retry")
    BY <1>3 DEF SettleFailure
  <2>2. c \in Held(w) /\ Held(w)' \subseteq Held(w) \ {c}
    BY <1>3, <2>1 DEF SettleFailure, Held, MemoryInv
  <2>3. (pc[w] = "retry") \in BOOLEAN
    OBVIOUS
  <2> QED BY <1>2, <1>3, <2>1, <2>2, <2>3 DEF SettleFailure
<1>4. CASE RejectUnhandled(w)
  <2>1. PICK c \in batch[w] : /\ batch' = [batch EXCEPT ![w] = @ \ {c}]
                              /\ FailRow(c, FALSE)
    BY <1>4 DEF RejectUnhandled
  <2>2. running[w] = {} /\ running' = running /\ pc' = pc /\ pc[w] = "between"
    BY <1>4 DEF RejectUnhandled, MemoryInv
  <2>3. c \in Held(w) /\ Held(w)' \subseteq Held(w) \ {c}
    BY <2>1, <2>2 DEF Held
  <2> QED BY <1>2, <1>4, <2>1, <2>2, <2>3 DEF RejectUnhandled
<1> QED BY <1>1, <1>3, <1>4

\* A crash forgets everything the worker held.
LEMMA CrashInd ==
    ASSUME NEW w \in Worker, IndInv, Crash(w)
    PROVE  Rest'
<1> USE DEF IndInv, TypeOK, Crash
<1>0. /\ \A v \in Worker : Held(v)' \subseteq Held(v)
      /\ \A v \in Worker : v # w => Held(v)' = Held(v) /\ pc'[v] = pc[v]
      /\ Held(w)' = {} /\ running'[w] = {} /\ batch'[w] = {} /\ pc'[w] = "idle"
  BY DEF Held
<1>1. OneHolderPerToken' BY <1>0 DEF OneHolderPerToken
<1>2. TokensCountAttempts' BY <1>0 DEF TokensCountAttempts
<1>3. SucceededUnderItsToken' BY DEF SucceededUnderItsToken
<1>4. LiveClaimsAreLeased' BY <1>0 DEF LiveClaimsAreLeased, Fenced
<1>5. MemoryInv' BY <1>0 DEF MemoryInv, Held
<1>6. SnapshotInv' BY DEF SnapshotInv, NoRows, NoRow
<1>7. WaitingInv' BY DEF WaitingInv
<1> QED BY <1>1, <1>2, <1>3, <1>4, <1>5, <1>6, <1>7 DEF Rest

\* IndInv is preserved by every step.
LEMMA IndStep == IndInv /\ [Next]_vars => IndInv'
<1> SUFFICES ASSUME IndInv, [Next]_vars PROVE Rest'
  BY TypeStep DEF IndInv, Rest
<1>1. ASSUME NEW j \in Job, Enqueue(j) PROVE Rest'
  BY <1>1, EnqueueInd, TypeStep DEF IndInv
<1>2. ASSUME NEW j \in Job, TimeElapses(j) PROVE Rest'
  BY <1>2, ClockInd DEF TimeElapses
<1>3. ASSUME NEW j \in Job, PruneRebuildable(j) PROVE Rest'
  BY <1>3, PruneInd
<1>4. ASSUME NEW w \in Worker, PollStep(w) PROVE Rest'
  BY <1>4, SelectInd, ClaimInd, MemorySteps, SettleSteps DEF PollStep
<1>5. ASSUME NEW w \in Worker, Heartbeat(w) PROVE Rest'
  BY <1>5, ClockInd DEF Heartbeat
<1>6. ASSUME NEW w \in Worker, Crash(w) PROVE Rest'
  BY <1>6, CrashInd
<1>7. CASE UNCHANGED vars
  BY <1>7, ClockInd
<1> QED BY <1>1, <1>2, <1>3, <1>4, <1>5, <1>6, <1>7 DEF Next

\* The inductive invariant holds throughout.
THEOREM IndCorrect == Spec => []IndInv
BY InitInd, IndStep, PTL DEF Spec

\* No two workers ever hold the same claim of a job, whatever the number of
\* workers, crashes and lost leases: the fencing of claim_ready_jobs.
THEOREM Fencing == Spec => []OneHolderPerToken
<1>1. IndInv => OneHolderPerToken BY DEF IndInv
<1> QED BY <1>1, IndCorrect, PTL

\* Every claim is an attempt, and no job has more attempts than the policy allows.
THEOREM AttemptsBounded == Spec => []TokensCountAttempts
<1>1. IndInv => TokensCountAttempts BY DEF IndInv
<1> QED BY <1>1, IndCorrect, PTL

\* A recorded success comes from the claim whose token the row carries.
THEOREM StaleWorkersCannotCommit == Spec => []SucceededUnderItsToken
<1>1. IndInv => SucceededUnderItsToken BY DEF IndInv
<1> QED BY <1>1, IndCorrect, PTL

\* A live claim is a lease, or the lost last attempt of a dead letter.
THEOREM LiveClaims == Spec => []LiveClaimsAreLeased
<1>1. IndInv => LiveClaimsAreLeased BY DEF IndInv
<1> QED BY <1>1, IndCorrect, PTL

-----------------------------------------------------------------------------
\* The edges a row may take in one step.
RowMove(j) ==
    \/ state'[j] = state[j] /\ attempts'[j] = attempts[j]
    \/ state[j] = "absent" /\ state'[j] = "queued" /\ attempts'[j] = attempts[j]
    \/ /\ state[j] \in {"queued", "retry_wait", "leased"} /\ state'[j] = "leased"
       /\ attempts[j] < MaxAttempts /\ attempts'[j] = attempts[j] + 1
    \/ state[j] = "leased" /\ state'[j] \in {"succeeded", "dead_letter"} /\ attempts'[j] = attempts[j]
    \/ /\ state[j] = "leased" /\ state'[j] = "retry_wait"
       /\ attempts[j] < MaxAttempts /\ attempts'[j] = attempts[j]
    \/ state[j] = "succeeded" /\ state'[j] = "pruned" /\ attempts'[j] = attempts[j]

\* fail_job moves a leased row only: the one other row that a live claim can
\* have, a dead letter at the attempt bound, stays as it is.
LEMMA FailRowMoves ==
    ASSUME NEW w \in Worker, NEW c \in Held(w), NEW r \in BOOLEAN, IndInv, FailRow(c, r),
           NEW j \in Job
    PROVE  RowMove(j)
<1>1. TypeOK /\ c \in Claim
  BY DEF IndInv, TypeOK, Held
<1>2. PICK s \in JobState :
          /\ state' = [state EXCEPT ![c.job] = s]
          /\ s # state[c.job] => Fenced(c)
          /\ s = "retry_wait" => s = state[c.job] \/ attempts[c.job] < MaxAttempts
          /\ s = "dead_letter" \/ s = state[c.job] \/ s = "retry_wait"
  BY <1>1, FailRowEffect
<1>3. attempts' = attempts
  BY DEF FailRow
<1>4. CASE j # c.job \/ s = state[c.job]
  <2>1. state'[j] = state[j]
    BY <1>1, <1>2, <1>4 DEF TypeOK
  <2> QED BY <2>1, <1>3 DEF RowMove
<1>5. CASE j = c.job /\ s # state[c.job]
  <2>1. \/ state[j] = "leased"
        \/ state[j] = "dead_letter" /\ attempts[j] = MaxAttempts
    BY <1>2, <1>5 DEF IndInv, LiveClaimsAreLeased
  <2>2. state'[j] = s
    BY <1>1, <1>2, <1>5 DEF TypeOK
  <2>3. attempts[j] = MaxAttempts => ~(attempts[j] < MaxAttempts)
    BY ConstantsAssumption
  <2> QED BY <1>2, <1>3, <1>5, <2>1, <2>2, <2>3 DEF RowMove
<1> QED BY <1>4, <1>5

\* Every step of the queue moves every row along one of these edges.
LEMMA RowMoves == IndInv /\ [Next]_vars => \A j \in Job : RowMove(j)
<1> SUFFICES ASSUME IndInv, [Next]_vars, NEW j \in Job PROVE RowMove(j)
  OBVIOUS
<1>0. TypeOK
  BY DEF IndInv
<1>1. ASSUME NEW i \in Job, Enqueue(i) PROVE RowMove(j)
  BY <1>0, <1>1 DEF Enqueue, RowMove, TypeOK
<1>2. ASSUME NEW i \in Job, TimeElapses(i) PROVE RowMove(j)
  BY <1>2 DEF TimeElapses, RowMove
<1>3. ASSUME NEW i \in Job, PruneRebuildable(i) PROVE RowMove(j)
  BY <1>0, <1>3 DEF PruneRebuildable, RowMove, TypeOK
<1>4. ASSUME NEW w \in Worker, ClaimReadyJobs(w) PROVE RowMove(j)
  <2>1. CASE j \notin StillMine(w)
    <3>1. state'[j] = state[j] /\ attempts'[j] = attempts[j]
      BY <1>4, <2>1 DEF ClaimReadyJobs, Won, Exhausted
    <3> QED BY <3>1 DEF RowMove
  <2>2. CASE j \in StillMine(w)
    <3>1. /\ snapshot[w][j].attempts = attempts[j] /\ attempts[j] \in Nat
          /\ attempts[j] <= MaxAttempts
          /\ state[j] \in {"queued", "retry_wait", "leased"}
      BY <1>0, <2>2 DEF StillMine, IndInv, SnapshotInv, TokensCountAttempts, Ready, TypeOK
    <3>2. CASE j \in Exhausted(w)
      <4>1. attempts[j] >= MaxAttempts
        BY <3>1, <3>2 DEF Exhausted
      <4>2. state[j] = "leased"
        BY <3>1, <4>1, ConstantsAssumption DEF IndInv, WaitingInv
      <4>3. state'[j] = "dead_letter" /\ attempts'[j] = attempts[j]
        BY <1>4, <3>2 DEF ClaimReadyJobs, Won
      <4> QED BY <4>2, <4>3 DEF RowMove
    <3>3. CASE j \notin Exhausted(w)
      <4>1. attempts[j] < MaxAttempts
        BY <2>2, <3>1, <3>3, ConstantsAssumption DEF Exhausted
      <4>2. state'[j] = "leased" /\ attempts'[j] = attempts[j] + 1
        BY <1>4, <2>2, <3>1, <3>3 DEF ClaimReadyJobs, Won
      <4> QED BY <3>1, <4>1, <4>2 DEF RowMove
    <3> QED BY <3>2, <3>3
  <2> QED BY <2>1, <2>2
<1>5. ASSUME NEW w \in Worker,
             SelectCandidates(w) \/ PollReturns(w) \/ StartJob(w)
             \/ HandlerReturns(w) \/ HandlerRaises(w) \/ Heartbeat(w) \/ Crash(w)
      PROVE  RowMove(j)
  <2>1. UNCHANGED <<state, attempts>>
    BY <1>5 DEF SelectCandidates, PollReturns, StartJob, HandlerReturns, HandlerRaises,
                Heartbeat, Crash
  <2> QED BY <2>1 DEF RowMove
<1>6. ASSUME NEW w \in Worker, CompleteJob(w) PROVE RowMove(j)
  BY <1>0, <1>6 DEF CompleteJob, MayCommit, RowMove, TypeOK
<1>7. ASSUME NEW w \in Worker, SettleFailure(w) PROVE RowMove(j)
  <2>1. PICK c \in running[w] : FailRow(c, pc[w] = "retry")
    BY <1>7 DEF SettleFailure
  <2>2. c \in Held(w) /\ (pc[w] = "retry") \in BOOLEAN
    BY <2>1 DEF Held
  <2> QED BY <2>1, <2>2, FailRowMoves
<1>8. ASSUME NEW w \in Worker, RejectUnhandled(w) PROVE RowMove(j)
  <2>1. PICK c \in batch[w] : FailRow(c, FALSE)
    BY <1>8 DEF RejectUnhandled
  <2>2. c \in Held(w)
    BY <2>1 DEF Held
  <2> QED BY <2>1, <2>2, FailRowMoves
<1>9. CASE UNCHANGED vars
  BY <1>9 DEF RowMove
<1> QED
  BY <1>1, <1>2, <1>3, <1>4, <1>5, <1>6, <1>7, <1>8, <1>9 DEF Next, PollStep

\* A dead letter stays one and a success is only ever pruned, although fail_job
\* checks the token alone.
THEOREM EndsFinal == Spec => EndsAreFinal
<1>1. IndInv /\ [Next]_vars =>
        [\A j \in Job :
            /\ state[j] = "dead_letter" => state'[j] = "dead_letter"
            /\ state[j] = "succeeded" => state'[j] \in {"succeeded", "pruned"}]_vars
  BY RowMoves DEF RowMove
<1> QED BY <1>1, IndCorrect, PTL DEF Spec, EndsAreFinal

\* The queue with its leases, tokens, batches and crashes implements the
\* lifecycle it promises: bounded tries and one final end per job.
THEOREM Refinement == Spec => ImplementsSafeLifecycle
<1>1. Init => Lifecycle!Init
  BY DEF Init, Lifecycle!Init, LifecyclePhase
<1>2. IndInv /\ [Next]_vars => [Lifecycle!Next]_Lifecycle!lifecycleVars
  <2> SUFFICES ASSUME IndInv, [Next]_vars, NEW j \in Job PROVE Lifecycle!JobStep(j)
    BY DEF Lifecycle!Next
  <2>1. RowMove(j)
    BY RowMoves
  <2> QED BY <2>1 DEF RowMove, LifecyclePhase, Lifecycle!JobStep, Lifecycle!Submit,
        Lifecycle!Try, Lifecycle!Succeed, Lifecycle!Requeue, Lifecycle!GiveUp,
        Lifecycle!Prune, Lifecycle!Stays, Lifecycle!Moves, Lifecycle!SameTries
<1> QED BY <1>1, <1>2, IndCorrect, PTL
    DEF Spec, ImplementsSafeLifecycle, Lifecycle!SafeSpec
=============================================================================

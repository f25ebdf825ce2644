------------------------- MODULE IdempotencyProofs -------------------------
(***************************************************************************)
(* Exactly-once requests for any set of keys, payloads and executions.     *)
(* IndInv of Idempotency is inductive: a committed row stands for the one  *)
(* effect of its key (RowsInv), and a transaction past its claim is alone  *)
(* on its key (HoldersInv).  The finality of tombstones and the refinement *)
(* of ExactlyOnce follow from it step by step.                             *)
(***************************************************************************)
EXTENDS Idempotency, TLAPS

USE DEF vars, NoRow, Tombstone, Completed, Claimed, Stage, Body, NoAnswer,
        Success, Refusal, Effect

\* The initial states satisfy the inductive invariant.
LEMMA InitInd == Init => IndInv
BY DEF Init, IndInv, TypeOK, OneEffectPerKey, AnswersReportTheEffect, Succeeded,
       NoAbandonedClaim, RowsInv, RequestsInv, HoldersInv

\* Every action keeps the types of the rows and of the requests.
LEMMA TypeStep == IndInv /\ [Next]_vars => TypeOK'
<1> SUFFICES ASSUME IndInv, [Next]_vars PROVE TypeOK'
  OBVIOUS
<1> USE DEF IndInv, TypeOK
<1>1. ASSUME NEW r \in Request, NEW b \in Body, Enter(r, b) PROVE TypeOK'
  BY <1>1 DEF Enter
<1>2. ASSUME NEW r \in Request, ClaimCreated(r) PROVE TypeOK'
  BY <1>2 DEF ClaimCreated
<1>3. ASSUME NEW r \in Request, ClaimLost(r) PROVE TypeOK'
  BY <1>3 DEF ClaimLost
<1>4. ASSUME NEW r \in Request, Resolve(r) PROVE TypeOK'
  <2>1. PICK b \in asked[r] : answer' = [answer EXCEPT ![r] = Resolution(b)]
    BY <1>4 DEF Resolve
  <2>2. b \in Body
    OBVIOUS
  <2>3. Resolution(b) \in Success \cup Refusal
    BY <2>2 DEF Resolution
  <2> QED BY <1>4, <2>1, <2>3 DEF Resolve
<1>5. ASSUME NEW r \in Request, WriteAndComplete(r) PROVE TypeOK'
  BY <1>5 DEF WriteAndComplete
<1>6. ASSUME NEW r \in Request, Commit(r) PROVE TypeOK'
  BY <1>6 DEF Commit, CommittedRow
<1>7. ASSUME NEW r \in Request, Rollback(r) PROVE TypeOK'
  BY <1>7 DEF Rollback, Release
<1>8. ASSUME NEW e \in stored, DeleteRecord(e) PROVE TypeOK'
  BY <1>8 DEF DeleteRecord
<1>9. ASSUME NEW k \in Key, TombstoneClaim(k) PROVE TypeOK'
  BY <1>9 DEF TombstoneClaim, TombstonedRow
<1>10. CASE UNCHANGED vars
  BY <1>10
<1> QED BY <1>1, <1>2, <1>3, <1>4, <1>5, <1>6, <1>7, <1>8, <1>9, <1>10
        DEF Next, ServerNext, Advance

-----------------------------------------------------------------------------
\* What a step preserves besides the types.
Rest ==
    /\ OneEffectPerKey /\ AnswersReportTheEffect /\ NoAbandonedClaim
    /\ RowsInv /\ RequestsInv /\ HoldersInv

\* A request arrives with one body.
LEMMA EnterInd ==
    ASSUME IndInv, NEW r \in Request, NEW b \in Body, Enter(r, b)
    PROVE  Rest'
<1> USE DEF IndInv, TypeOK, Enter
<1>1. OneEffectPerKey' BY DEF OneEffectPerKey
<1>2. AnswersReportTheEffect' BY DEF AnswersReportTheEffect, Succeeded, RequestsInv
<1>3. NoAbandonedClaim' BY DEF NoAbandonedClaim
<1>4. RowsInv' BY DEF RowsInv
<1>5. RequestsInv' BY DEF RequestsInv
<1>6. HoldersInv' BY DEF HoldersInv, NoAbandonedClaim
<1> QED BY <1>1, <1>2, <1>3, <1>4, <1>5, <1>6 DEF Rest

\* A claim is created on a key that nobody holds and that has no row.
LEMMA ClaimCreatedInd ==
    ASSUME IndInv, NEW r \in Request, ClaimCreated(r)
    PROVE  Rest'
<1> USE DEF IndInv, TypeOK, ClaimCreated, KeyFree
<1>1. PICK b \in asked[r] : KeyFree(b.key) /\ holder' = [holder EXCEPT ![b.key] = @ \cup {r}]
  OBVIOUS
<1>2. b \in Body /\ b.key \in Key
  OBVIOUS
<1>3. holder' = [holder EXCEPT ![b.key] = {r}]
  BY <1>1, <1>2
<1>4. OneEffectPerKey' BY DEF OneEffectPerKey
<1>5. AnswersReportTheEffect' BY DEF AnswersReportTheEffect, Succeeded
<1>6. NoAbandonedClaim' BY <1>2, <1>3 DEF NoAbandonedClaim
<1>7. RowsInv' BY <1>1, <1>2, <1>3 DEF RowsInv
<1>8. RequestsInv' BY DEF RequestsInv
<1>9. HoldersInv' BY <1>1, <1>2, <1>3 DEF HoldersInv, RequestsInv
<1> QED BY <1>4, <1>5, <1>6, <1>7, <1>8, <1>9 DEF Rest

\* The insert failed: the key has a committed row.
LEMMA ClaimLostInd ==
    ASSUME IndInv, NEW r \in Request, ClaimLost(r)
    PROVE  Rest'
<1> USE DEF IndInv, TypeOK, ClaimLost
<1>1. OneEffectPerKey' BY DEF OneEffectPerKey
<1>2. AnswersReportTheEffect' BY DEF AnswersReportTheEffect, Succeeded
<1>3. NoAbandonedClaim' BY DEF NoAbandonedClaim
<1>4. RowsInv' BY DEF RowsInv
<1>5. RequestsInv' BY DEF RequestsInv
<1>6. HoldersInv' BY DEF HoldersInv
<1> QED BY <1>1, <1>2, <1>3, <1>4, <1>5, <1>6 DEF Rest

\* An answer is read off the committed row: a replay reports its effect.
LEMMA ResolveInd ==
    ASSUME IndInv, NEW r \in Request, Resolve(r)
    PROVE  Rest'
<1> USE DEF IndInv, TypeOK, Resolve
<1>1. PICK b \in asked[r] : answer' = [answer EXCEPT ![r] = Resolution(b)]
  OBVIOUS
<1>2. b \in Body /\ row[b.key] # NoRow /\ row[b.key].status # "claimed"
  BY DEF HoldersInv, RequestsInv, NoAbandonedClaim
<1>3. Resolution(b).kind = "replay" =>
         /\ row[b.key].status = "completed"
         /\ row[b.key].digest = b.payload
         /\ Resolution(b).outcome = row[b.key].outcome
  BY <1>2 DEF Resolution
<1>4. Resolution(b).kind \notin {"accepted", "in_progress"}
  BY <1>2 DEF Resolution
<1>5. OneEffectPerKey' BY DEF OneEffectPerKey
<1>6. AnswersReportTheEffect'
  <2> SUFFICES ASSUME NEW q \in Request, Succeeded(q)'
               PROVE  \E c \in asked[q], e \in effects :
                         e.key = c.key /\ e.payload = c.payload /\ e.outcome = answer'[q].outcome
    BY DEF AnswersReportTheEffect
  <2>1. CASE q # r
    BY <1>1, <2>1 DEF AnswersReportTheEffect, Succeeded
  <2>2. CASE q = r
    <3>1. answer'[r] = Resolution(b)
      BY <1>1
    <3>2. [key |-> b.key, payload |-> row[b.key].digest, outcome |-> row[b.key].outcome] \in effects
      BY <1>2, <1>3, <1>4, <2>2, <3>1 DEF RowsInv, Succeeded
    <3> QED BY <1>2, <1>3, <1>4, <2>2, <3>1, <3>2 DEF Succeeded
  <2> QED BY <2>1, <2>2
<1>7. NoAbandonedClaim' BY <1>1, <1>4 DEF NoAbandonedClaim
<1>8. RowsInv' BY DEF RowsInv
<1>9. RequestsInv' BY <1>1 DEF RequestsInv
<1>10. HoldersInv' BY DEF HoldersInv
<1> QED BY <1>5, <1>6, <1>7, <1>8, <1>9, <1>10 DEF Rest

\* Writing inside the transaction is invisible.
LEMMA WriteInd ==
    ASSUME IndInv, NEW r \in Request, WriteAndComplete(r)
    PROVE  Rest'
<1> USE DEF IndInv, TypeOK, WriteAndComplete
<1>1. OneEffectPerKey' BY DEF OneEffectPerKey
<1>2. AnswersReportTheEffect' BY DEF AnswersReportTheEffect, Succeeded
<1>3. NoAbandonedClaim' BY DEF NoAbandonedClaim
<1>4. RowsInv' BY DEF RowsInv
<1>5. RequestsInv' BY DEF RequestsInv
<1>6. HoldersInv' BY DEF HoldersInv
<1> QED BY <1>1, <1>2, <1>3, <1>4, <1>5, <1>6 DEF Rest

\* The commit publishes the first effect of the key together with its row.
LEMMA CommitInd ==
    ASSUME IndInv, NEW r \in Request, Commit(r)
    PROVE  Rest'
<1> USE DEF IndInv, TypeOK, Commit
<1>1. PICK b \in asked[r] :
         LET e == [key |-> b.key, payload |-> b.payload, outcome |-> r]
         IN  /\ row' = [row EXCEPT ![b.key] = CommittedRow(r, b)]
             /\ holder' = [holder EXCEPT ![b.key] = @ \ {r}]
             /\ stored' = stored \cup {e}
             /\ effects' = effects \cup {e}
  OBVIOUS
<1> DEFINE e == [key |-> b.key, payload |-> b.payload, outcome |-> r]
<1>2. b \in Body /\ b.key \in Key /\ b.payload \in Payload /\ e.key = b.key
      /\ \A c \in asked[r] : c = b
  BY DEF RequestsInv
<1>3. holder[b.key] = {r}
  BY <1>2 DEF HoldersInv
<1>4. row[b.key] = NoRow /\ \A f \in effects : f.key # b.key
  BY <1>2, <1>3 DEF RowsInv
<1>5. holder' = [holder EXCEPT ![b.key] = {}]
  BY <1>1, <1>2, <1>3
<1>6. \A k \in Key : k # b.key => row'[k] = row[k] /\ holder'[k] = holder[k]
  BY <1>1, <1>5
<1>7. row'[b.key] = [status |-> "completed", digest |-> b.payload, outcome |-> r]
  BY <1>1, <1>2 DEF CommittedRow
<1>8. /\ \A q \in Request : q # r => answer'[q] = answer[q] /\ pc'[q] = pc[q]
      /\ pc'[r] = "done"
      /\ answer'[r] \in {[kind |-> "accepted", outcome |-> r], [kind |-> "error"]}
  OBVIOUS
<1>9. OneEffectPerKey' BY <1>1, <1>2, <1>4 DEF OneEffectPerKey
<1>10. AnswersReportTheEffect'
  <2> SUFFICES ASSUME NEW q \in Request, Succeeded(q)'
               PROVE  \E c \in asked[q], f \in effects' :
                         f.key = c.key /\ f.payload = c.payload /\ f.outcome = answer'[q].outcome
    BY DEF AnswersReportTheEffect
  <2>1. CASE q # r
    BY <1>1, <1>8, <2>1 DEF AnswersReportTheEffect, Succeeded
  <2>2. CASE q = r
    <3>1. answer'[r].outcome = r
      BY <1>8, <2>2 DEF Succeeded
    <3>2. e \in effects' /\ b \in asked[q]
      BY <1>1, <2>2
    <3>3. e.key = b.key /\ e.payload = b.payload /\ e.outcome = answer'[q].outcome
      BY <2>2, <3>1
    <3> HIDE DEF e
    <3> QED BY <3>2, <3>3
  <2> QED BY <2>1, <2>2
<1>11. NoAbandonedClaim'
  <2>1. \A k \in Key : row'[k].status # "claimed"
    BY <1>6, <1>7 DEF NoAbandonedClaim
  <2>2. \A q \in Request : answer'[q].kind # "in_progress"
    BY <1>8 DEF NoAbandonedClaim
  <2>3. \A k \in Key : \A q \in holder'[k] : pc'[q] \in {"working", "completed"}
    BY <1>2, <1>3, <1>5, <1>6, <1>8 DEF NoAbandonedClaim, RequestsInv, HoldersInv
  <2> QED BY <2>1, <2>2, <2>3 DEF NoAbandonedClaim
<1>12. RowsInv'
  BY <1>1, <1>2, <1>4, <1>5, <1>6, <1>7 DEF RowsInv
<1>13. RequestsInv'
  <2>1. \A q \in Request : pc'[q] = "resolving" => \A c \in asked[q] : row'[c.key] # NoRow
    BY <1>2, <1>6, <1>7, <1>8 DEF RequestsInv
  <2> QED BY <1>8, <2>1 DEF RequestsInv
<1>14. HoldersInv'
  <2>1. \A q \in Request : pc'[q] \in {"working", "completed"} =>
            \A c \in asked[q] : holder'[c.key] = {q}
    BY <1>2, <1>3, <1>6, <1>8 DEF HoldersInv
  <2>2. \A k \in Key : \A q \in holder'[k] : \E c \in asked[q] : c.key = k
    BY <1>5, <1>6 DEF HoldersInv
  <2> QED BY <1>8, <2>1, <2>2 DEF HoldersInv
<1> QED BY <1>9, <1>10, <1>11, <1>12, <1>13, <1>14 DEF Rest

\* A rollback frees the key of r and nothing else.
LEMMA RollbackInd ==
    ASSUME IndInv, NEW r \in Request, Rollback(r)
    PROVE  Rest'
<1> USE DEF IndInv, TypeOK, Rollback, Release
<1>1. \A q \in Request : q # r => answer'[q] = answer[q] /\ pc'[q] = pc[q]
  OBVIOUS
<1>2. answer'[r] = [kind |-> "error"] /\ pc'[r] = "done"
  OBVIOUS
<1>3. OneEffectPerKey' BY DEF OneEffectPerKey
<1>4. AnswersReportTheEffect' BY <1>1, <1>2 DEF AnswersReportTheEffect, Succeeded
<1>5. NoAbandonedClaim' BY <1>1, <1>2 DEF NoAbandonedClaim
<1>6. RowsInv' BY DEF RowsInv
<1>7. RequestsInv' BY <1>1, <1>2 DEF RequestsInv
<1>8. HoldersInv' BY <1>1, <1>2 DEF HoldersInv
<1> QED BY <1>3, <1>4, <1>5, <1>6, <1>7, <1>8 DEF Rest

\* Deleting a record leaves rows, requests and the history of effects alone.
LEMMA DeleteInd ==
    ASSUME IndInv, NEW e \in stored, DeleteRecord(e)
    PROVE  Rest'
BY DEF IndInv, DeleteRecord, Rest, OneEffectPerKey, AnswersReportTheEffect,
       Succeeded, NoAbandonedClaim, RowsInv, RequestsInv, HoldersInv

\* A tombstone keeps the key occupied.
LEMMA TombstoneInd ==
    ASSUME IndInv, NEW k \in Key, TombstoneClaim(k)
    PROVE  Rest'
<1> USE DEF IndInv, TypeOK, TombstoneClaim, TombstonedRow
<1>1. /\ \A j \in Key : j # k => row'[j] = row[j]
      /\ row'[k] = Tombstone /\ row[k] # NoRow
  OBVIOUS
<1>2. OneEffectPerKey' BY DEF OneEffectPerKey
<1>3. AnswersReportTheEffect' BY DEF AnswersReportTheEffect, Succeeded
<1>4. NoAbandonedClaim' BY <1>1 DEF NoAbandonedClaim
<1>5. RowsInv' BY <1>1 DEF RowsInv
<1>6. RequestsInv' BY <1>1 DEF RequestsInv
<1>7. HoldersInv' BY DEF HoldersInv
<1> QED BY <1>2, <1>3, <1>4, <1>5, <1>6, <1>7 DEF Rest

\* The inductive invariant holds throughout.
THEOREM IndCorrect == Spec => []IndInv
<1>1. IndInv /\ [Next]_vars => IndInv'
  <2> SUFFICES ASSUME IndInv, [Next]_vars PROVE Rest'
    BY TypeStep DEF IndInv, Rest
  <2>1. CASE UNCHANGED vars
    BY <2>1 DEF IndInv, Rest, OneEffectPerKey, AnswersReportTheEffect,
          Succeeded, NoAbandonedClaim, RowsInv, RequestsInv, HoldersInv
  <2> QED
    BY <2>1, EnterInd, ClaimCreatedInd, ClaimLostInd, ResolveInd, WriteInd, CommitInd,
       RollbackInd, DeleteInd, TombstoneInd DEF Next, ServerNext, Advance
<1> QED BY InitInd, <1>1, PTL DEF Spec

\* However a client retries, a key has at most one effect.
THEOREM AtMostOnce == Spec => []OneEffectPerKey
<1>1. IndInv => OneEffectPerKey BY DEF IndInv
<1> QED BY <1>1, IndCorrect, PTL

\* Success is only ever reported for the effect of the very payload asked for.
THEOREM TruthfulAnswers == Spec => []AnswersReportTheEffect
<1>1. IndInv => AnswersReportTheEffect BY DEF IndInv
<1> QED BY <1>1, IndCorrect, PTL

\* No key is left behind in status claimed.
THEOREM NoKeyStuck == Spec => []NoAbandonedClaim
<1>1. IndInv => NoAbandonedClaim BY DEF IndInv
<1> QED BY <1>1, IndCorrect, PTL

-----------------------------------------------------------------------------
\* What one step does to the effects and to the answers of the requests: a
\* commit makes the first effect of a key and may tell it, a replay tells it
\* again, everything else is silent.
CommitsFirst(r, e) ==
    /\ \A f \in effects : f.key # e.key
    /\ effects' = effects \cup {e}
    /\ stored' = stored \cup {e}
    /\ row[e.key] = NoRow
    /\ [key |-> e.key, payload |-> e.payload] \in asked[r]
    /\ answer'[r].kind \in {"accepted", "replay"} => answer'[r].outcome = e.outcome
    /\ answer[r] = NoAnswer
    /\ \A q \in Request : q # r => answer'[q] = answer[q]
    /\ UNCHANGED asked

Replays(r, e) ==
    /\ e \in effects
    /\ row[e.key].status = "completed"
    /\ [key |-> e.key, payload |-> e.payload] \in asked[r]
    /\ answer'[r] = [kind |-> "replay", outcome |-> e.outcome]
    /\ answer[r] = NoAnswer
    /\ \A q \in Request : q # r => answer'[q] = answer[q]
    /\ UNCHANGED <<effects, stored, row, asked>>

Silent ==
    /\ stored' \subseteq stored
    /\ UNCHANGED effects
    /\ \A q \in Request : Succeeded(q)' => Succeeded(q) /\ answer'[q] = answer[q]
    /\ \A q \in Request : Succeeded(q) => answer'[q] = answer[q] /\ asked'[q] = asked[q]

\* Every step is one of the three.
LEMMA StepKinds ==
    ASSUME IndInv, [Next]_vars
    PROVE  Silent \/ \E r \in Request, e \in Effect : CommitsFirst(r, e) \/ Replays(r, e)
<1> USE DEF IndInv, TypeOK
<1>1. ASSUME NEW r \in Request, NEW b \in Body, Enter(r, b) PROVE Silent
  BY <1>1 DEF Enter, Silent, Succeeded, RequestsInv
<1>2. ASSUME NEW r \in Request, ClaimCreated(r) \/ ClaimLost(r) \/ WriteAndComplete(r)
      PROVE Silent
  BY <1>2 DEF ClaimCreated, ClaimLost, WriteAndComplete, Silent, Succeeded
<1>3. ASSUME NEW r \in Request, Resolve(r)
      PROVE Silent \/ \E e \in Effect : Replays(r, e)
  <2>1. PICK b \in asked[r] : answer' = [answer EXCEPT ![r] = Resolution(b)]
    BY <1>3 DEF Resolve
  <2>2. /\ b \in Body /\ row[b.key] # NoRow /\ row[b.key].status # "claimed"
        /\ answer[r] = NoAnswer
    BY <1>3 DEF Resolve, RequestsInv, NoAbandonedClaim
  <2>3. CASE Resolution(b).kind = "replay"
    <3> DEFINE e == [key |-> b.key, payload |-> b.payload, outcome |-> row[b.key].outcome]
    <3>1. /\ row[b.key].status = "completed" /\ row[b.key].digest = b.payload
          /\ Resolution(b) = [kind |-> "replay", outcome |-> row[b.key].outcome]
      BY <2>2, <2>3 DEF Resolution
    <3>2. e \in effects
      BY <2>2, <3>1 DEF RowsInv
    <3>3. [key |-> e.key, payload |-> e.payload] = b
      BY <2>2
    <3>4. Replays(r, e)
      BY <1>3, <2>1, <2>2, <3>1, <3>2, <3>3 DEF Replays, Resolve
    <3> QED BY <3>2, <3>4
  <2>4. CASE Resolution(b).kind # "replay"
    <3>1. Resolution(b).kind \notin {"accepted", "replay"}
      BY <2>2, <2>4 DEF Resolution
    <3> QED BY <1>3, <2>1, <2>2, <3>1 DEF Resolve, Silent, Succeeded
  <2> QED BY <2>3, <2>4
<1>4. ASSUME NEW r \in Request, Commit(r)
      PROVE \E e \in Effect : CommitsFirst(r, e)
  <2>1. PICK b \in asked[r] :
         LET e == [key |-> b.key, payload |-> b.payload, outcome |-> r]
         IN  /\ stored' = stored \cup {e}
             /\ effects' = effects \cup {e}
    BY <1>4 DEF Commit
  <2> DEFINE e == [key |-> b.key, payload |-> b.payload, outcome |-> r]
  <2>2. /\ b \in Body /\ e \in Effect
        /\ [key |-> e.key, payload |-> e.payload] = b
        /\ answer[r] = NoAnswer /\ pc[r] = "completed"
    BY <1>4 DEF Commit, RequestsInv
  <2>3. row[b.key] = NoRow /\ \A f \in effects : f.key # b.key
    BY <2>2 DEF RowsInv, HoldersInv
  <2>4. /\ \A q \in Request : q # r => answer'[q] = answer[q]
        /\ answer'[r].kind \in {"accepted", "replay"} => answer'[r].outcome = e.outcome
    BY <1>4 DEF Commit
  <2>5. asked' = asked
    BY <1>4 DEF Commit
  <2> QED BY <2>1, <2>2, <2>3, <2>4, <2>5 DEF CommitsFirst
<1>5. ASSUME NEW r \in Request, Rollback(r) PROVE Silent
  BY <1>5 DEF Rollback, Silent, Succeeded, RequestsInv
<1>6. ASSUME NEW e \in stored, DeleteRecord(e) PROVE Silent
  BY <1>6 DEF DeleteRecord, Silent, Succeeded
<1>7. ASSUME NEW k \in Key, TombstoneClaim(k) PROVE Silent
  BY <1>7 DEF TombstoneClaim, Silent, Succeeded
<1>8. CASE UNCHANGED vars
  BY <1>8 DEF Silent, Succeeded
<1> QED BY <1>1, <1>2, <1>3, <1>4, <1>5, <1>6, <1>7, <1>8 DEF Next, ServerNext, Advance

\* A tombstoned row is never touched again.
LEMMA TombstonedRowStays ==
    ASSUME IndInv, [Next]_vars, NEW k \in Key, row[k] = Tombstone
    PROVE  row'[k] = Tombstone
<1> USE DEF IndInv, TypeOK
<1>1. ASSUME NEW r \in Request, Commit(r) PROVE row'[k] = row[k]
  <2>1. PICK b \in asked[r] : row' = [row EXCEPT ![b.key] = CommittedRow(r, b)]
    BY <1>1 DEF Commit
  <2>2. holder[b.key] = {r} /\ b.key \in Key
    BY <1>1 DEF Commit, HoldersInv
  <2>3. row[k] # NoRow
    OBVIOUS
  <2>4. holder[k] = {}
    BY <2>3 DEF RowsInv
  <2> QED BY <2>1, <2>2, <2>4
<1>2. ASSUME NEW j \in Key, TombstoneClaim(j) PROVE row'[k] = Tombstone
  BY <1>2 DEF TombstoneClaim, TombstonedRow
<1> QED BY <1>1, <1>2 DEF Next, ServerNext, Advance, Enter, ClaimCreated, ClaimLost,
        Resolve, WriteAndComplete, Rollback, DeleteRecord

\* After a tombstone no retry recreates the content or is given it again.
THEOREM DeletedForGood == Spec => TombstoneIsFinal
<1>1. ASSUME IndInv, [Next]_vars, NEW k \in Key, row[k] = Tombstone
      PROVE  /\ row'[k] = Tombstone
             /\ {e \in stored' : e.key = k} \subseteq stored
             /\ \A r \in Request : ~Succeeded(r) /\ Succeeded(r)' =>
                   \A b \in asked[r] : b.key # k
  <2>1. row'[k] = Tombstone
    BY <1>1, TombstonedRowStays
  <2>2. CASE Silent
    BY <2>1, <2>2 DEF Silent
  <2>3. ASSUME NEW r \in Request, NEW e \in Effect, CommitsFirst(r, e) \/ Replays(r, e)
        PROVE  /\ {x \in stored' : x.key = k} \subseteq stored
               /\ \A q \in Request : ~Succeeded(q) /\ Succeeded(q)' =>
                     \A b \in asked[q] : b.key # k
    <3>1. e.key # k
      BY <1>1, <2>3 DEF CommitsFirst, Replays
    <3>2. \A b \in asked[r] : b.key = e.key
      BY <1>1, <2>3 DEF CommitsFirst, Replays, IndInv, RequestsInv
    <3>3. \A q \in Request : ~Succeeded(q) /\ Succeeded(q)' => q = r
      BY <2>3 DEF CommitsFirst, Replays, Succeeded
    <3> QED BY <2>3, <3>1, <3>2, <3>3 DEF CommitsFirst, Replays
  <2> QED BY <1>1, <2>1, <2>2, <2>3, StepKinds
<1>2. IndInv /\ [Next]_vars =>
        [\A k \in Key : row[k] = Tombstone =>
            /\ row'[k] = Tombstone
            /\ {e \in stored' : e.key = k} \subseteq stored
            /\ \A r \in Request : ~Succeeded(r) /\ Succeeded(r)' =>
                  \A b \in asked[r] : b.key # k]_vars
  BY <1>1
<1> QED BY <1>2, IndCorrect, PTL DEF Spec, TombstoneIsFinal

-----------------------------------------------------------------------------
\* The claim protocol implements ExactlyOnce.
THEOREM Refinement == Spec => ImplementsExactlyOnce
<1> USE DEF Promise!Effect, Promise!onceVars
<1>1. Init => Promise!Init
  BY DEF Init, Promise!Init, Told, Succeeded
<1>2. ASSUME IndInv, [Next]_vars
      PROVE  [Promise!Next]_Promise!onceVars
  <2>1. CASE Silent
    <3>1. \A q \in Request : Succeeded(q)' <=> Succeeded(q)
      BY <2>1 DEF Silent, Succeeded
    <3>2. Told' = Told
      BY <2>1, <3>1 DEF Silent, Told
    <3> QED BY <2>1, <3>2 DEF Silent
  <2>2. ASSUME NEW r \in Request, NEW e \in Effect, CommitsFirst(r, e)
        PROVE  Promise!Next
    <3>1. Promise!Make(e)
      BY <2>2 DEF CommitsFirst, Promise!Make
    <3>2. /\ [key |-> e.key, payload |-> e.payload] \in asked[r]
          /\ asked' = asked
      BY <2>2 DEF CommitsFirst
    <3>3. \A b \in asked[r] : b = [key |-> e.key, payload |-> e.payload]
      BY <1>2, <3>2 DEF IndInv, RequestsInv
    <3>4. /\ ~Succeeded(r)
          /\ \A q \in Request : q # r => (Succeeded(q)' <=> Succeeded(q))
          /\ \A q \in Request : q # r => answer'[q] = answer[q]
      BY <2>2 DEF CommitsFirst, Succeeded
    <3>5. CASE ~Succeeded(r)'
      <4>1. Told' = Told
        BY <3>2, <3>5, <3>4, <3>3 DEF Told
      <4> QED BY <2>2, <3>1, <4>1 DEF Promise!Next
    <3>6. CASE Succeeded(r)'
      <4>1. answer'[r].outcome = e.outcome
        BY <2>2, <3>6 DEF CommitsFirst, Succeeded
      <4>2. Told' = Told \cup {e}
        BY <3>2, <3>6, <3>4, <3>3, <4>1 DEF Told
      <4> QED BY <2>2, <3>1, <4>2 DEF CommitsFirst, Promise!Next, Promise!Tell
    <3> QED BY <3>5, <3>6
  <2>3. ASSUME NEW r \in Request, NEW e \in Effect, Replays(r, e)
        PROVE  Promise!Next
    <3>1. Told' = Told \cup {e}
      BY <1>2, <2>3 DEF Replays, Told, Succeeded, IndInv, RequestsInv, TypeOK
    <3> QED BY <2>3, <3>1 DEF Replays, Promise!Next, Promise!Tell
  <2> QED BY <1>2, <2>1, <2>2, <2>3, StepKinds
<1> QED BY <1>1, <1>2, IndCorrect, PTL DEF Spec, ImplementsExactlyOnce, Promise!Spec
=============================================================================

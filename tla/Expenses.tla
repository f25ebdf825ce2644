------------------------------ MODULE Expenses ------------------------------
(***************************************************************************)
(* The expense ledger: add_expense, correct_expense and the summary over   *)
(* active rows, with the tombstone of a governed deletion plan.            *)
(*                                                                         *)
(* A correction reads the old row in a session of its own, then opens the  *)
(* unit of work, claims its key, tombstones the old row under a guard on   *)
(* lifecycle and version, and inserts the corrected row.  Rows are named   *)
(* after the execution that inserted them, root names the expense they     *)
(* are a version of.                                                       *)
(***************************************************************************)
EXTENDS Naturals, FiniteSets, FiniteSetsExt

CONSTANTS
    Request,    \* executions of add_expense and correct_expense
    Key,        \* idempotency keys
    Amount      \* amounts of money, as small numbers

ASSUME AmountAssumption == Amount \subseteq Nat

\* The server has served finitely many requests.
ASSUME RequestAssumption == IsFiniteSet(Request)

VARIABLES
    expense,    \* committed rows
    claim,      \* committed claims of correct_expense and add_expense
    holder,     \* executions whose uncommitted claim occupies a key
    lock,       \* executions whose open transaction tombstoned a row
    pc,
    body,       \* what an execution was asked
    seen,       \* version that the correction read
    answer

vars == <<expense, claim, holder, lock, pc, body, seen, answer>>

-----------------------------------------------------------------------------
NoRow == [version |-> 0]

Row == [version : 1..Cardinality(Request), amount : Amount, root : Request, active : BOOLEAN]

\* An addition names no row.
Body == [op : {"add"}, key : Key, amount : Amount]
          \cup [op : {"correct"}, key : Key, amount : Amount, of : Request]

\* idempotency_records is keyed by operation and key.
Slot == {"add", "correct"} \X Key

SlotOf(b) == <<b.op, b.key>>

NoClaim == [taken |-> FALSE]

Claim == [taken : {TRUE}, digest : Body, outcome : Request]

Stage == {"idle", "preread", "claiming", "guard", "commit", "done"}

NoAnswer == [kind |-> "none"]

Answer == [kind : {"accepted", "replay"}, outcome : Request]
            \cup [kind : {"not_found", "version_conflict", "idempotency_conflict", "error"}]

TypeOK ==
    /\ expense \in [Request -> Row \cup {NoRow}]
    /\ claim \in [Slot -> Claim \cup {NoClaim}]
    /\ holder \in [Slot -> SUBSET Request]
    /\ lock \in [Request -> SUBSET Request]
    /\ pc \in [Request -> Stage]
    /\ body \in [Request -> SUBSET Body]
    /\ seen \in [Request -> 0..Cardinality(Request)]
    /\ answer \in [Request -> Answer \cup {NoAnswer}]

Init ==
    /\ expense = [x \in Request |-> NoRow]
    /\ claim = [s \in Slot |-> NoClaim]
    /\ holder = [s \in Slot |-> {}]
    /\ lock = [x \in Request |-> {}]
    /\ pc = [r \in Request |-> "idle"]
    /\ body = [r \in Request |-> {}]
    /\ seen = [r \in Request |-> 0]
    /\ answer = [r \in Request |-> NoAnswer]

-----------------------------------------------------------------------------
Active(x) == expense[x] # NoRow /\ expense[x].active

Finish(r, a) ==
    /\ pc' = [pc EXCEPT ![r] = "done"]
    /\ answer' = [answer EXCEPT ![r] = a]

\* A correction names a row that was acknowledged to the client before.
Ask(r, b) ==
    /\ pc[r] = "idle"
    /\ b.op = "correct" => expense[b.of] # NoRow
    /\ body' = [body EXCEPT ![r] = {b}]
    /\ pc' = [pc EXCEPT ![r] = IF b.op = "add" THEN "claiming" ELSE "preread"]
    /\ UNCHANGED <<expense, claim, holder, lock, seen, answer>>

\* correct_expense reads the active row before anything else.
ReadOld(r) ==
    /\ pc[r] = "preread"
    /\ \E b \in body[r] :
          \/ /\ Active(b.of)
             /\ seen' = [seen EXCEPT ![r] = expense[b.of].version]
             /\ pc' = [pc EXCEPT ![r] = "claiming"]
             /\ UNCHANGED answer
          \/ /\ ~Active(b.of)
             /\ Finish(r, [kind |-> "not_found"])
             /\ UNCHANGED seen
    /\ UNCHANGED <<expense, claim, holder, lock, body>>

\* claim_request, as in module Idempotency.
ClaimKey(r) ==
    /\ pc[r] = "claiming"
    /\ \E b \in body[r] :
          LET s == SlotOf(b)
          IN  /\ holder[s] = {}
              /\ \/ /\ claim[s] = NoClaim
                    /\ holder' = [holder EXCEPT ![s] = {r}]
                    /\ pc' = [pc EXCEPT ![r] = IF b.op = "add" THEN "commit" ELSE "guard"]
                    /\ UNCHANGED answer
                 \/ /\ claim[s] # NoClaim
                    /\ Finish(r, IF claim[s].digest = b
                                 THEN [kind |-> "replay", outcome |-> claim[s].outcome]
                                 ELSE [kind |-> "idempotency_conflict"])
                    /\ UNCHANGED holder
    /\ UNCHANGED <<expense, claim, lock, body, seen>>

\* Mutant: the tombstone is not guarded.
GuardById(r, b) == expense[b.of] # NoRow

\* The WHERE clause of the guarded tombstone, on the row as last committed.
GuardHolds(r, b) == Active(b.of) /\ expense[b.of].version = seen[r]

\* The guarded tombstone waits for whoever has the row locked; matching no row
\* is a version conflict and rolls back.
TombstoneOld(r) ==
    /\ pc[r] = "guard"
    /\ \E b \in body[r] :
          /\ lock[b.of] = {}
          /\ \/ /\ GuardHolds(r, b)
                /\ lock' = [lock EXCEPT ![b.of] = {r}]
                /\ pc' = [pc EXCEPT ![r] = "commit"]
                /\ UNCHANGED <<holder, answer>>
             \/ /\ ~GuardHolds(r, b)
                /\ Finish(r, [kind |-> "version_conflict"])
                /\ holder' = [holder EXCEPT ![SlotOf(b)] = @ \ {r}]
                /\ UNCHANGED lock
    /\ UNCHANGED <<expense, claim, body, seen>>

\* Mutant: the corrected row starts a version count of its own.
LedgerRestartingVersions(r, b) ==
    [x \in Request |->
        IF x = r THEN [version |-> 1, amount |-> b.amount, active |-> TRUE,
                       root |-> IF b.op = "add" THEN r ELSE expense[b.of].root]
        ELSE IF b.op = "correct" /\ x = b.of THEN [expense[x] EXCEPT !.active = FALSE]
        ELSE expense[x]]

\* Mutant: the new row keeps the amount of the row it corrects.
LedgerKeepingAmount(r, b) ==
    [x \in Request |->
        IF x = r /\ b.op = "add"
        THEN [version |-> 1, amount |-> b.amount, active |-> TRUE, root |-> r]
        ELSE IF x = r
        THEN [expense[b.of] EXCEPT !.version = seen[r] + 1]
        ELSE IF b.op = "correct" /\ x = b.of
        THEN [expense[x] EXCEPT !.active = FALSE, !.version = seen[r] + 1]
        ELSE expense[x]]

\* Mutant: a correction is posted as the difference to the row it corrects.
LedgerByDifference(r, b) ==
    IF b.op = "add"
    THEN [expense EXCEPT ![r] = [version |-> 1, amount |-> b.amount, root |-> r, active |-> TRUE]]
    ELSE [expense EXCEPT
            ![r] = [version |-> seen[r] + 1, amount |-> b.amount - expense[b.of].amount,
                    root |-> expense[b.of].root, active |-> TRUE]]

\* add_expense inserts a first version.
Added(r, b) ==
    [expense EXCEPT ![r] = [version |-> 1, amount |-> b.amount, root |-> r, active |-> TRUE]]

\* correct_expense replaces the old row.  The tombstoned row gets a new version too.
Corrected(r, b) ==
    [expense EXCEPT
        ![b.of].active = FALSE,
        ![b.of].version = seen[r] + 1,
        ![r] = [version |-> seen[r] + 1, amount |-> b.amount,
                root |-> expense[b.of].root, active |-> TRUE]]

\* The rows after the commit of r.
Ledger(r, b) == IF b.op = "add" THEN Added(r, b) ELSE Corrected(r, b)

\* The commit publishes rows and claim; the answer may be lost on the way.
Commit(r) ==
    /\ pc[r] = "commit"
    /\ \E b \in body[r] :
          /\ expense' = Ledger(r, b)
          /\ claim' = [claim EXCEPT ![SlotOf(b)] = [taken |-> TRUE, digest |-> b, outcome |-> r]]
          /\ holder' = [holder EXCEPT ![SlotOf(b)] = @ \ {r}]
    /\ lock' = [x \in Request |-> lock[x] \ {r}]
    /\ \/ Finish(r, [kind |-> "accepted", outcome |-> r])
       \/ Finish(r, [kind |-> "error"])
    /\ UNCHANGED <<body, seen>>

\* pre_commit() or the database raises: the unit of work rolls back.
Rollback(r) ==
    /\ pc[r] \in {"preread", "claiming", "guard", "commit"}
    /\ holder' = [s \in Slot |-> holder[s] \ {r}]
    /\ lock' = [x \in Request |-> lock[x] \ {r}]
    /\ Finish(r, [kind |-> "error"])
    /\ UNCHANGED <<expense, claim, body, seen>>

\* An approved deletion plan tombstones the row and leaves its version.
GovernedDelete(x) ==
    /\ Active(x)
    /\ lock[x] = {}
    /\ expense' = [expense EXCEPT ![x].active = FALSE]
    /\ UNCHANGED <<claim, holder, lock, pc, body, seen, answer>>

-----------------------------------------------------------------------------
Next ==
    \/ \E r \in Request, b \in Body : Ask(r, b)
    \/ \E r \in Request : ReadOld(r) \/ ClaimKey(r) \/ TombstoneOld(r) \/ Commit(r) \/ Rollback(r)
    \/ \E x \in Request : GovernedDelete(x)

Spec == Init /\ [][Next]_vars

-----------------------------------------------------------------------------
RowIds == {x \in Request : expense[x] # NoRow}

VersionsOf(root) == {x \in RowIds : expense[x].root = root}

\* The row that an execution of correct_expense names.
Named(r) == {b.of : b \in {c \in body[r] : c.op = "correct"}}

\* Rows that no committed correction replaced.
Tips == RowIds \ UNION {Named(r) : r \in RowIds}

AmountOf(x) == expense[x].amount

\* The rows that get_expense_summary adds up.
Counted == {x \in RowIds : expense[x].active}

Summary == MapThenSumSet(AmountOf, Counted)

\* No double counting (docstring of correct_expense): however corrections,
\* deletions and retries interleave, an expense is one chain of corrections
\* and the summary adds up the ends of the chains that are not deleted.
NoDoubleCounting ==
    /\ \A root \in {expense[x].root : x \in RowIds} :
          Cardinality(Tips \cap VersionsOf(root)) = 1
    /\ Summary = MapThenSumSet(AmountOf, {x \in Tips : expense[x].active})

\* No correction is lost or applied twice: the version at the end of a chain
\* counts the rows of the chain.
VersionsCountCorrections ==
    \A x \in Tips : expense[x].version = Cardinality(VersionsOf(expense[x].root))

\* An acknowledged or replayed request names a row with the amount it asked
\* for, of the expense it asked about.
AcknowledgedIsRecorded ==
    \A r \in Request : answer[r].kind \in {"accepted", "replay"} =>
        LET x == answer[r].outcome
        IN  /\ x \in RowIds
            /\ \A b \in body[r] :
                  /\ expense[x].amount = b.amount
                  /\ b.op = "correct" => expense[x].root = expense[b.of].root

\* A retry of an acknowledged correction replays it (idempotency.py, ER-07).
RetryReplays ==
    \A q, r \in Request :
        q # r /\ body[q] = body[r] /\ answer[q].kind = "accepted" =>
            answer[r].kind \notin {"not_found", "version_conflict", "idempotency_conflict"}

-----------------------------------------------------------------------------
\* An execution is asked once and inserts its row last; a correction names a row
\* that is there.
AskedInv ==
    \A r \in Request :
        /\ \A b, c \in body[r] : b = c
        /\ pc[r] = "idle" => body[r] = {}
        /\ pc[r] \in {"preread", "guard"} => Named(r) # {}
        /\ r \in RowIds => pc[r] = "done"
        /\ Named(r) \subseteq RowIds

\* A correction about to commit, and no one else, has the row it names locked, and
\* the row is still the active one of the version that the correction read.
LocksInv ==
    /\ \A x \in Request : \A r \in lock[x] :
          /\ pc[r] = "commit" /\ lock[x] = {r} /\ x \in Named(r)
          /\ Active(x) /\ expense[x].version = seen[r]
    /\ \A r \in Request : pc[r] = "commit" => \A x \in Named(r) : lock[x] = {r}

\* Every row belongs to a chain with an end, and only the end may be active.
ChainsInv ==
    \A x \in RowIds :
        /\ expense[x].root \in RowIds
        /\ \E y \in Tips : expense[y].root = expense[x].root
        /\ expense[x].active => x \in Tips

\* A chain has one end.
OneTip == \A x, y \in Tips : expense[x].root = expense[y].root => x = y

\* Row x holds what b asked for.
Records(x, b) ==
    /\ x \in RowIds
    /\ expense[x].amount = b.amount
    /\ b.op = "correct" => b.of \in RowIds /\ expense[x].root = expense[b.of].root

ClaimsInv == \A s \in Slot : claim[s] # NoClaim => Records(claim[s].outcome, claim[s].digest)

AnswersInv ==
    \A r \in Request : answer[r].kind \in {"accepted", "replay"} =>
        /\ pc[r] = "done"
        /\ answer[r].outcome \in RowIds
        /\ \A b \in body[r] : Records(answer[r].outcome, b)

\* Who has claimed a key has it alone until the end, and nobody committed it before.
HoldersInv ==
    \A r \in Request : pc[r] \in {"guard", "commit"} =>
        \A b \in body[r] : holder[SlotOf(b)] = {r} /\ claim[SlotOf(b)] = NoClaim

\* The inductive invariant of the proofs.
IndInv ==
    /\ TypeOK
    /\ AskedInv
    /\ LocksInv
    /\ ChainsInv
    /\ OneTip
    /\ VersionsCountCorrections
    /\ ClaimsInv
    /\ AnswersInv

-----------------------------------------------------------------------------
\* What was booked under a key, and what the answers say was booked.
Booked == {[key |-> s, payload |-> claim[s].digest, outcome |-> claim[s].outcome] :
              s \in {t \in Slot : claim[t] # NoClaim}}

Told ==
    UNION {{[key |-> SlotOf(b), payload |-> b, outcome |-> answer[r].outcome] : b \in body[r]} :
              r \in {q \in Request : answer[q].kind \in {"accepted", "replay"}}}

Promise == INSTANCE ExactlyOnce WITH Key <- Slot, Payload <- Body, made <- Booked, reported <- Told

\* The ledger books once what is asked under a key, however often it is asked, and every
\* answer that reports success reports that booking.
BooksOnce == Promise!Spec
=============================================================================

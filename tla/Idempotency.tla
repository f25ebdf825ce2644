---------------------------- MODULE Idempotency ----------------------------
(***************************************************************************)
(* Durable request claims (persistence/idempotency.py) inside the unit of  *)
(* work that every mutation of the authoritative store runs in             *)
(* (persistence/unit_of_work.py, AuthoritativeStore._commit_record).       *)
(*                                                                         *)
(* A request opens a transaction, inserts its claim, writes its canonical  *)
(* rows, completes the claim and commits.  The unique index on (client_id, *)
(* operation, idempotency_key) makes a second insert of the same key wait  *)
(* until the transaction that holds the uncommitted row ends; it then      *)
(* fails, and the existing row is read instead.                            *)
(*                                                                         *)
(* A retry is another Request with the same key.  Answers are what the     *)
(* server produced; whether they reach the client is irrelevant to it.     *)
(***************************************************************************)
EXTENDS Naturals, FiniteSets

CONSTANTS
    Key,        \* (client_id, operation, idempotency_key)
    Payload,    \* request bodies; SHA-256 keeps different ones apart
    Request     \* executions of requests by the server

VARIABLES
    row,        \* committed idempotency_records row of a key
    holder,     \* the requests whose uncommitted claim occupies the key
    pc,         \* where the execution stands
    asked,      \* key and payload of an execution
    answer,     \* what the execution returned or raised
    stored,     \* canonical records committed and not deleted since
    effects     \* observation: every canonical effect ever committed

vars == <<row, holder, pc, asked, answer, stored, effects>>

-----------------------------------------------------------------------------
NoRow == [status |-> "absent"]

Completed == [status : {"completed"}, digest : Payload, outcome : Request]

\* A row as claim_request inserts it: visible to others only if it were committed.
Claimed == [status : {"claimed"}, digest : Payload]

\* A tombstone keeps the key alone: no digest, no outcome.
Tombstone == [status |-> "tombstoned"]

Stage == {"idle", "claiming", "resolving", "working", "completed", "done"}

Body == [key : Key, payload : Payload]

NoAnswer == [kind |-> "none"]

Success == [kind : {"accepted", "replay"}, outcome : Request]

Refusal == [kind : {"deleted", "conflict", "in_progress", "error"}]

Effect == [key : Key, payload : Payload, outcome : Request]

TypeOK ==
    /\ row \in [Key -> {NoRow, Tombstone} \cup Completed \cup Claimed]
    /\ holder \in [Key -> SUBSET Request]
    /\ pc \in [Request -> Stage]
    /\ asked \in [Request -> SUBSET Body]
    /\ answer \in [Request -> {NoAnswer} \cup Success \cup Refusal]
    /\ stored \in SUBSET Effect
    /\ effects \in SUBSET Effect

Init ==
    /\ row = [k \in Key |-> NoRow]
    /\ holder = [k \in Key |-> {}]
    /\ pc = [r \in Request |-> "idle"]
    /\ asked = [r \in Request |-> {}]
    /\ answer = [r \in Request |-> NoAnswer]
    /\ stored = {}
    /\ effects = {}

-----------------------------------------------------------------------------
\* A request arrives; the unit of work is entered and the client is authorised.
Enter(r, b) ==
    /\ pc[r] = "idle"
    /\ asked' = [asked EXCEPT ![r] = {b}]
    /\ pc' = [pc EXCEPT ![r] = "claiming"]
    /\ UNCHANGED <<row, holder, answer, stored, effects>>

\* Mutant: the key is looked up first, and one without a committed row is free.
KeyFreeIfNoRow(k) == row[k] = NoRow

\* Mutant: a tombstoned key can be claimed again.
KeyFreeIfTombstoned(k) == holder[k] = {} /\ row[k] \in {NoRow, Tombstone}

\* The insert of a claim succeeds: no committed row, and no open transaction
\* holds an uncommitted one.
KeyFree(k) == holder[k] = {} /\ row[k] = NoRow

\* claim_request, "created": insertion first wins.
ClaimCreated(r) ==
    /\ pc[r] = "claiming"
    /\ \E b \in asked[r] :
          /\ KeyFree(b.key)
          /\ holder' = [holder EXCEPT ![b.key] = @ \cup {r}]
    /\ pc' = [pc EXCEPT ![r] = "working"]
    /\ UNCHANGED <<row, asked, answer, stored, effects>>

\* claim_request: the insert waited for the holder, hit the unique constraint
\* and was rolled back to its savepoint.
ClaimLost(r) ==
    /\ pc[r] = "claiming"
    /\ \E b \in asked[r] : holder[b.key] = {} /\ row[b.key] # NoRow
    /\ pc' = [pc EXCEPT ![r] = "resolving"]
    /\ UNCHANGED <<row, holder, asked, answer, stored, effects>>

\* Mutant: the digest is not compared.
ResolutionIgnoringDigest(b) ==
    LET old == row[b.key]
    IN  IF old.status = "tombstoned" THEN [kind |-> "deleted"]
        ELSE IF old.status = "completed" THEN [kind |-> "replay", outcome |-> old.outcome]
        ELSE [kind |-> "in_progress"]

\* What the existing row means for body b.
Resolution(b) ==
    LET old == row[b.key]
    IN  IF old.status = "tombstoned" THEN [kind |-> "deleted"]
        ELSE IF old.digest # b.payload THEN [kind |-> "conflict"]
        ELSE IF old.status = "completed" THEN [kind |-> "replay", outcome |-> old.outcome]
        ELSE [kind |-> "in_progress"]

\* The existing row is read and the request is answered from it, or refused.
Resolve(r) ==
    /\ pc[r] = "resolving"
    /\ \E b \in asked[r] : answer' = [answer EXCEPT ![r] = Resolution(b)]
    /\ pc' = [pc EXCEPT ![r] = "done"]
    /\ UNCHANGED <<row, holder, asked, stored, effects>>

\* The canonical rows, jobs and audit row are written in the transaction, and
\* complete_claim attaches the outcome to the claim.
WriteAndComplete(r) ==
    /\ pc[r] = "working"
    /\ pc' = [pc EXCEPT ![r] = "completed"]
    /\ UNCHANGED <<row, holder, asked, answer, stored, effects>>

\* Mutant: the transaction commits before complete_claim.
CommittedRowBeforeComplete(r, b) == [status |-> "claimed", digest |-> b.payload]

\* The row that the commit makes visible.
CommittedRow(r, b) == [status |-> "completed", digest |-> b.payload, outcome |-> r]

\* uow.commit(): everything becomes visible at once.  When the connection fails
\* during the commit the caller gets an error for a request that took effect.
Commit(r) ==
    /\ pc[r] = "completed"
    /\ \E b \in asked[r] :
          LET e == [key |-> b.key, payload |-> b.payload, outcome |-> r]
          IN  /\ row' = [row EXCEPT ![b.key] = CommittedRow(r, b)]
              /\ holder' = [holder EXCEPT ![b.key] = @ \ {r}]
              /\ stored' = stored \cup {e}
              /\ effects' = effects \cup {e}
    /\ \/ answer' = [answer EXCEPT ![r] = [kind |-> "accepted", outcome |-> r]]
       \/ answer' = [answer EXCEPT ![r] = [kind |-> "error"]]
    /\ pc' = [pc EXCEPT ![r] = "done"]
    /\ UNCHANGED asked

\* Mutant: a failed transaction leaves its claim behind.
ReleaseNothing(r) == holder

\* Rolling back removes the uncommitted claim of r from the unique index.
Release(r) == [k \in Key |-> holder[k] \ {r}]

\* A guard or pre_commit() raises, the commit fails or the process dies: the
\* unit of work rolls back.
Rollback(r) ==
    /\ pc[r] \in {"claiming", "resolving", "working", "completed"}
    /\ holder' = Release(r)
    /\ answer' = [answer EXCEPT ![r] = [kind |-> "error"]]
    /\ pc' = [pc EXCEPT ![r] = "done"]
    /\ UNCHANGED <<row, asked, stored, effects>>

\* A governed deletion tombstones the record; it leaves the claims alone.
DeleteRecord(e) ==
    /\ e \in stored
    /\ stored' = stored \ {e}
    /\ UNCHANGED <<row, holder, pc, asked, answer, effects>>

\* Mutant: the tombstone keeps the digest of the deleted body.
TombstonedRowWithDigest(k) == [status |-> "tombstoned", digest |-> row[k].digest]

\* The row that tombstone_claim leaves.
TombstonedRow(k) == Tombstone

\* tombstone_claim: erases digest and outcome and keeps the request key.
TombstoneClaim(k) ==
    /\ row[k].status \in {"claimed", "completed"}
    /\ row' = [row EXCEPT ![k] = TombstonedRow(k)]
    /\ UNCHANGED <<holder, pc, asked, answer, stored, effects>>

-----------------------------------------------------------------------------
Advance(r) ==
    \/ ClaimCreated(r) \/ ClaimLost(r) \/ Resolve(r)
    \/ WriteAndComplete(r) \/ Commit(r)

\* What the server does: nothing in it calls tombstone_claim.
ServerNext ==
    \/ \E r \in Request, b \in Body : Enter(r, b)
    \/ \E r \in Request : Advance(r) \/ Rollback(r)
    \/ \E e \in stored : DeleteRecord(e)

\* What the interface of idempotency.py allows.
Next == ServerNext \/ \E k \in Key : TombstoneClaim(k)

Spec == Init /\ [][Next]_vars

ServerSpec == Init /\ [][ServerNext]_vars

\* A transaction waits for nothing but a claim; failures are possible, not forced.
FairSpec == Spec /\ \A r \in Request : WF_vars(Advance(r))

-----------------------------------------------------------------------------
Succeeded(r) == answer[r].kind \in {"accepted", "replay"}

\* However often a key is retried, concurrently or after a lost answer, it has
\* at most one canonical effect.
OneEffectPerKey ==
    \A e, f \in effects : e.key = f.key => e = f

\* Every successful answer for a key reports its one effect, made for the very
\* payload that was asked (ER-07: different content is a conflict).
AnswersReportTheEffect ==
    \A r \in Request : Succeeded(r) =>
        \E b \in asked[r], e \in effects :
            e.key = b.key /\ e.payload = b.payload /\ e.outcome = answer[r].outcome

\* No key is ever stuck: a committed row is never left in status claimed, so
\* "in_progress" is never answered and a retry is never told to wait for a
\* transaction that no longer exists.
NoAbandonedClaim ==
    /\ \A k \in Key : row[k].status # "claimed"
    /\ \A r \in Request : answer[r].kind # "in_progress"
    /\ \A k \in Key : \A r \in holder[k] : pc[r] \in {"working", "completed"}

\* After a tombstone nobody gets the content again, and no retry recreates it.
TombstoneIsFinal ==
    [][\A k \in Key : row[k] = Tombstone =>
          /\ row'[k] = Tombstone
          /\ {e \in stored' : e.key = k} \subseteq stored
          /\ \A r \in Request : ~Succeeded(r) /\ Succeeded(r)' =>
                \A b \in asked[r] : b.key # k]_vars

\* Waiting for another request's claim is never forever.
EveryRequestEnds ==
    \A r \in Request : pc[r] = "claiming" ~> pc[r] = "done"

\* The docstring's promise for a late retry: when the content is deleted, the
\* request key answers "deleted" (idempotency.py; ER-07).  ServerSpec does not
\* keep it: README, Deviations.
LateRetryIsToldDeleted ==
    [][\A r \in Request : answer'[r].kind = "replay" /\ answer[r].kind = "none" =>
          \A b \in asked[r] : \E e \in stored : e.key = b.key]_vars

-----------------------------------------------------------------------------
\* A committed row stands for the one effect of its key.
RowsInv ==
    /\ \A k \in Key : row[k] = NoRow => \A e \in effects : e.key # k
    /\ \A k \in Key : row[k].status = "completed" =>
          [key |-> k, payload |-> row[k].digest, outcome |-> row[k].outcome] \in effects
    /\ \A k \in Key : row[k] # NoRow => holder[k] = {}
    /\ stored \subseteq effects

\* A request has one body, and no answer before it is done.
RequestsInv ==
    /\ \A r \in Request : \A b, c \in asked[r] : b = c
    /\ \A r \in Request : pc[r] # "done" => answer[r] = NoAnswer
    /\ \A r \in Request : pc[r] = "resolving" => \A b \in asked[r] : row[b.key] # NoRow

\* A transaction past its claim is the only one on its key.
HoldersInv ==
    /\ \A r \in Request : pc[r] \in {"working", "completed"} =>
          \A b \in asked[r] : holder[b.key] = {r}
    /\ \A k \in Key : \A r \in holder[k] : \E b \in asked[r] : b.key = k

\* The inductive invariant: a key has one effect, answers report it, no claim is
\* abandoned, rows stand for effects and open transactions are alone on their keys.
IndInv ==
    /\ TypeOK
    /\ OneEffectPerKey
    /\ AnswersReportTheEffect
    /\ NoAbandonedClaim
    /\ RowsInv
    /\ RequestsInv
    /\ HoldersInv

-----------------------------------------------------------------------------
\* The effects that the successful answers speak of.
Told ==
    {e \in Effect : \E r \in Request : \E b \in asked[r] :
        Succeeded(r) /\ e = [key |-> b.key, payload |-> b.payload, outcome |-> answer[r].outcome]}

\* Deletion and tombstones do not undo that a key had its effect.
Promise == INSTANCE ExactlyOnce WITH made <- effects, reported <- Told

\* The claim protocol implements exactly-once requests.
ImplementsExactlyOnce == Promise!Spec
=============================================================================

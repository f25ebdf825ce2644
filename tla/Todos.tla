------------------------------- MODULE Todos -------------------------------
(***************************************************************************)
(* Todos under concurrent, version-bound requests: add_todo, complete_todo *)
(* and delete_todo of AuthoritativeStore, with the tombstone of a governed *)
(* deletion plan.                                                          *)
(*                                                                         *)
(* A request reads the row, compares lifecycle, state and version, then    *)
(* runs an UPDATE that repeats the version in its WHERE clause.  Under     *)
(* READ COMMITTED the UPDATE waits for the transaction that has the row    *)
(* locked and evaluates the clause again on what that one committed.       *)
(*                                                                         *)
(* Requests here have won their claim (module Idempotency) and differ in   *)
(* their keys.                                                             *)
(***************************************************************************)
EXTENDS Naturals, FiniteSets

CONSTANTS
    Todo,       \* ids of todo rows
    Request,    \* executions of complete_todo and delete_todo
    MaxVersion  \* bound of the model: versions a client may name

VARIABLES
    todo,       \* the committed row, or NoTodo
    lock,       \* requests whose open transaction updated the row
    pc,
    want,       \* what a request asks for
    answer,
    took        \* observation: requests whose update changed the row

vars == <<todo, lock, pc, want, answer, took>>

-----------------------------------------------------------------------------
NoTodo == [version |-> 0]

Row == [version : 1..MaxVersion, done : BOOLEAN, deleted : BOOLEAN]

Want == [op : {"complete", "delete"}, id : Todo, version : 1..MaxVersion]

Stage == {"idle", "read", "update", "commit", "done"}

Answer == {"none", "accepted", "not_found", "version_conflict", "error"}

TypeOK ==
    /\ todo \in [Todo -> Row \cup {NoTodo}]
    /\ lock \in [Todo -> SUBSET Request]
    /\ pc \in [Request -> Stage]
    /\ want \in [Request -> SUBSET Want]
    /\ answer \in [Request -> Answer]
    /\ took \in SUBSET Request

Init ==
    /\ todo = [t \in Todo |-> NoTodo]
    /\ lock = [t \in Todo |-> {}]
    /\ pc = [r \in Request |-> "idle"]
    /\ want = [r \in Request |-> {}]
    /\ answer = [r \in Request |-> "none"]
    /\ took = {}

-----------------------------------------------------------------------------
\* add_todo: a new row at version 1.
AddTodo(t) ==
    /\ todo[t] = NoTodo
    /\ todo' = [todo EXCEPT ![t] = [version |-> 1, done |-> FALSE, deleted |-> FALSE]]
    /\ UNCHANGED <<lock, pc, want, answer, took>>

Ask(r, w) ==
    /\ pc[r] = "idle"
    /\ want' = [want EXCEPT ![r] = {w}]
    /\ pc' = [pc EXCEPT ![r] = "read"]
    /\ UNCHANGED <<todo, lock, answer, took>>

\* The checks on the row as read.  Completing looks at state and version only,
\* deleting at the lifecycle and then at the version.
Verdict(w) ==
    LET row == todo[w.id]
    IN  IF row = NoTodo \/ (w.op = "delete" /\ row.deleted) THEN "not_found"
        ELSE IF row.version # w.version THEN "version_conflict"
        ELSE IF w.op = "complete" /\ row.done THEN "version_conflict"
        ELSE "accepted"

\* The SELECT and the checks; a failed check raises and rolls back.
ReadRow(r) ==
    /\ pc[r] = "read"
    /\ \E w \in want[r] :
          IF Verdict(w) = "accepted"
          THEN pc' = [pc EXCEPT ![r] = "update"] /\ UNCHANGED answer
          ELSE /\ pc' = [pc EXCEPT ![r] = "done"]
               /\ answer' = [answer EXCEPT ![r] = Verdict(w)]
    /\ UNCHANGED <<todo, lock, want, took>>

\* Mutant: the UPDATE does not repeat the version.
MatchesById(w) == todo[w.id] # NoTodo

\* The WHERE clause of the UPDATE, on the row as last committed.
Matches(w) == todo[w.id].version = w.version

\* The UPDATE: it locks the row it matches.  Whether it matched one is not
\* looked at.
UpdateRow(r) ==
    /\ pc[r] = "update"
    /\ \E w \in want[r] :
          /\ lock[w.id] = {}
          /\ lock' = IF Matches(w) THEN [lock EXCEPT ![w.id] = {r}] ELSE lock
    /\ pc' = [pc EXCEPT ![r] = "commit"]
    /\ UNCHANGED <<todo, want, answer, took>>

\* Mutant: the row is written as a whole, from what the request knows of it.
UpdatedWhole(w) ==
    [version |-> w.version + 1, done |-> w.op = "complete", deleted |-> w.op = "delete"]

\* Mutant: deleting advances the version twice.
UpdatedSkipping(w) ==
    IF w.op = "complete" THEN [todo[w.id] EXCEPT !.done = TRUE, !.version = w.version + 1]
                         ELSE [todo[w.id] EXCEPT !.deleted = TRUE, !.version = w.version + 2]

\* The row that the UPDATE writes.
Updated(w) ==
    IF w.op = "complete" THEN [todo[w.id] EXCEPT !.done = TRUE, !.version = w.version + 1]
                         ELSE [todo[w.id] EXCEPT !.deleted = TRUE, !.version = w.version + 1]

\* The rest of the transaction and its commit: the request is acknowledged.
Commit(r) ==
    /\ pc[r] = "commit"
    /\ \E w \in want[r] :
          /\ r \in lock[w.id] => w.version < MaxVersion
          /\ todo' = IF r \in lock[w.id] THEN [todo EXCEPT ![w.id] = Updated(w)] ELSE todo
          /\ took' = IF r \in lock[w.id] THEN took \cup {r} ELSE took
          /\ lock' = [lock EXCEPT ![w.id] = @ \ {r}]
    /\ answer' = [answer EXCEPT ![r] = "accepted"]
    /\ pc' = [pc EXCEPT ![r] = "done"]
    /\ UNCHANGED want

\* The transaction fails before its commit.
Rollback(r) ==
    /\ pc[r] \in {"read", "update", "commit"}
    /\ lock' = [t \in Todo |-> lock[t] \ {r}]
    /\ answer' = [answer EXCEPT ![r] = "error"]
    /\ pc' = [pc EXCEPT ![r] = "done"]
    /\ UNCHANGED <<todo, want, took>>

\* An approved deletion plan tombstones the row without touching its version.
GovernedDelete(t) ==
    /\ todo[t] # NoTodo
    /\ ~todo[t].deleted
    /\ lock[t] = {}
    /\ todo' = [todo EXCEPT ![t].deleted = TRUE]
    /\ UNCHANGED <<lock, pc, want, answer, took>>

-----------------------------------------------------------------------------
Next ==
    \/ \E t \in Todo : AddTodo(t) \/ GovernedDelete(t)
    \/ \E r \in Request, w \in Want : Ask(r, w)
    \/ \E r \in Request : ReadRow(r) \/ UpdateRow(r) \/ Commit(r) \/ Rollback(r)

Spec == Init /\ [][Next]_vars

-----------------------------------------------------------------------------
\* Every version of a todo has one writer: of the requests that named the same
\* version of the same todo, concurrently or not, only one changed it.
OneWriterPerVersion ==
    \A q, r \in took : q # r => \A v \in want[q], w \in want[r] :
        v.id = w.id => v.version # w.version

\* Nothing is undone: a tombstoned todo stays one, a completed one stays
\* completed, and versions never go back, whatever stale request arrives.
KeepsTodos ==
    \A t \in Todo : todo[t] # NoTodo =>
        /\ todo[t].deleted => todo'[t].deleted
        /\ todo[t].done => todo'[t].done
        /\ todo[t].version <= todo'[t].version

NothingUndone == [][KeepsTodos]_vars

\* What an acknowledgement means (module docstring of authoritative_store.py):
\* an accepted completion or deletion is in the row.  The code does not keep it:
\* the row count of the UPDATE is not looked at (README, Deviations).
AcknowledgedMeansDone ==
    \A r \in Request : answer[r] = "accepted" => r \in took

-----------------------------------------------------------------------------
\* A request is asked once, and its one wish never changes.
WantsInv ==
    \A r \in Request :
        /\ pc[r] = "idle" => want[r] = {}
        /\ \A v, w \in want[r] : v = w
        /\ r \in took => pc[r] = "done"

\* Whoever has a row locked is about to commit, alone, to the version it named.
LocksInv ==
    \A t \in Todo : \A r \in lock[t] :
        /\ pc[r] = "commit"
        /\ lock[t] = {r}
        /\ todo[t] # NoTodo
        /\ \A w \in want[r] : w.id = t /\ todo[t].version = w.version

\* A version that a request wrote upon lies behind.
TookInv ==
    \A r \in took : \A w \in want[r] : w.version < todo[w.id].version

\* The inductive invariant of the proofs.
IndInv == TypeOK /\ WantsInv /\ LocksInv /\ TookInv /\ OneWriterPerVersion
=============================================================================

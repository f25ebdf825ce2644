----------------------------- MODULE MCBridge -----------------------------
(***************************************************************************)
(* What a coding client sends: writes that wait in the bridge's offline    *)
(* queue, and the calls to the project brain.  The two share no state, so  *)
(* one run takes the behaviours of each in turn: `side' says whose turn it *)
(* is, and the variables of the other are 0.                               *)
(***************************************************************************)
EXTENDS ProjectBrain, TLC

CONSTANTS Key, Payload, Replay, MaxEntries, Limit, MaxInserts

\* Rows of different tables are different rows.
ASSUME TablesAssumption ==
    /\ Project \cap (Call \cup Statement \cup (Call \X Module)) = {}
    /\ Call \cap (Statement \cup (Call \X Module)) = {}
    /\ Statement \cap (Call \X Module) = {}

ASSUME BoundsAssumption == MaxEntries \in Nat /\ Limit \in Nat /\ MaxInserts \in Nat

VARIABLES
    side,
    table, inserted, pc, listed, outcome, active, server, effects   \* module PendingStore

Q == INSTANCE PendingStore

queueVars == <<table, inserted, pc, listed, outcome, active, server, effects>>

bridgeVars == <<vars, queueVars, side>>

Off(a, b, c, d) == a = 0 /\ b = 0 /\ c = 0 /\ d = 0

NoQueue == Off(table, inserted, pc, listed) /\ Off(outcome, active, server, effects)

NoBrain == Off(project, row, report, card) /\ Off(lock, ask, stage, preview) /\ Off(begun, ended, late, late)

BridgeInit ==
    \/ side = "brain" /\ Init /\ NoQueue
    \/ side = "queue" /\ Q!Init /\ NoBrain

BridgeNext ==
    /\ UNCHANGED side
    /\ \/ side = "brain" /\ Next /\ UNCHANGED queueVars
       \/ side = "queue" /\ Q!Next /\ UNCHANGED vars

BridgeSpec == BridgeInit /\ [][BridgeNext]_bridgeVars

\* Calls are interchangeable and double as keys, roots as payloads.
Symmetry == Permutations(Call \cap Key) \cup Permutations(Root \cap Payload)

Kind(op) == CASE op = "sync" -> 1 [] op = "fact" -> 2 [] OTHER -> 3

\* Bound of the model: a behaviour has syncs, or facts, or calls on tasks, which meet
\* in the project's row only; three syncs are explored in a project that stays.  To a sync
\* that brings no module it makes no difference whether it has a revision.
OneKind ==
    side = "brain" =>
    /\ \A c, d \in Call : ask[c].op # "none" /\ ask[d].op # "none" => Kind(ask[c].op) = Kind(ask[d].op)
    /\ (\A c \in Call : ask[c].op = "sync") => \A p \in Project : preview[p] = {}
    /\ \A c \in Call : ask[c].op = "sync" /\ ask[c].modules = {} => ask[c].revision

\* The inductive invariants of the proofs hold. Among them, replays keep the order of
\* insertion: when an operation takes effect, those enqueued before it are at the server,
\* by an earlier effect or because the client wrote the same online.
QueueSound == IF side = "queue" THEN Q!IndInv ELSE IndInv

\* What the queue's client asked for, and what the bridge took for done when it dropped
\* the row; a key's effect is named after the key.
EffectOf(k, v) == [key |-> k, payload |-> v, outcome |-> k]

Made == IF side # "queue" THEN {} ELSE UNION {{EffectOf(k, v) : v \in server[k]} : k \in Key}

Dropped ==
    IF side # "queue" THEN {} ELSE {EffectOf(r.key, r.payload) : r \in {i \in inserted : ~Q!InTable(i)}}

Promise == INSTANCE ExactlyOnce WITH Request <- Key, made <- Made, reported <- Dropped

\* The queue keeps what the server promises: each key takes effect once, however often
\* it is sent, and a row is dropped only when it took effect, with its payload.
QueueIsExactlyOnce == Promise!Spec

\* A conflict holds up what was enqueued after it.
ConflictsHoldUp == [][side = "queue" => Q!HoldsUp]_bridgeVars

\* Syncs that follow one another see each other: they come from one workspace unless
\* two of them raced to bind it, a card has a twin only if its first two syncs raced,
\* and no card is called fresh that a later sync saw changed.
SyncsSeeEachOther == side = "brain" => SyncsInOrder

\* Deletion is the end: a call that begins when its project is deleted leaves nothing
\* behind, and a statement that was deleted is not recorded again.
DeletedProjectStays == side = "brain" => DeletedStaysDeleted

\* A task has one final report for good, that of an accepted call.
FinalReportsAreKept == [][side = "brain" => KeepsReports]_bridgeVars
=============================================================================

---------------------------- MODULE PendingStore ----------------------------
(***************************************************************************)
(* The bridge's offline queue (pending_store.py): writes are kept in a     *)
(* local SQLite table and replayed to the server in insertion order.       *)
(*                                                                         *)
(* A replay lists the table, then sends operation after operation, each    *)
(* outside any local transaction, and deletes a row once the server has    *)
(* answered for it.  Answers get lost, the client is revoked, the bridge   *)
(* crashes between any two steps, and two replays may run at once.  The    *)
(* server is what module ExactlyOnce promises: one effect per key.         *)
(***************************************************************************)
EXTENDS Naturals, Sequences, FiniteSets

CONSTANTS
    Key,
    Payload,
    Replay,     \* concurrent calls of replay
    MaxEntries, \* capacity of the table (1000 in the code)
    Limit,      \* rows that one replay lists (100 in the code)
    MaxInserts  \* bound of the model: rows ever inserted

VARIABLES
    table,      \* rows of pending_operations
    inserted,   \* observation: every row ever inserted
    pc,
    listed,     \* rows that a replay has yet to go through
    outcome,    \* what the last send returned
    active,     \* is the client active?
    server,     \* payloads that took effect, by key (at most one each)
    effects     \* observation: sequence numbers in the order of their effects

vars == <<table, inserted, pc, listed, outcome, active, server, effects>>

-----------------------------------------------------------------------------
Row == [seq : 1..MaxInserts, key : Key, payload : Payload, state : {"queued", "conflict"}]

Outcome == {"none", "completed", "replayed", "conflict", "unknown"}

TypeOK ==
    /\ table \in SUBSET Row /\ Cardinality(table) <= MaxEntries
    /\ inserted \in SUBSET Row
    /\ pc \in [Replay -> {"idle", "check", "send", "apply"}]
    /\ listed \in [Replay -> SUBSET Row]
    /\ outcome \in [Replay -> Outcome]
    /\ active \in BOOLEAN
    /\ server \in [Key -> SUBSET Payload]
    /\ effects \in Seq(1..MaxInserts)

Init ==
    /\ table = {}
    /\ inserted = {}
    /\ pc = [p \in Replay |-> "idle"]
    /\ listed = [p \in Replay |-> {}]
    /\ outcome = [p \in Replay |-> "none"]
    /\ active = TRUE
    /\ server = [k \in Key |-> {}]
    /\ effects = <<>>

-----------------------------------------------------------------------------
Keys == {row.key : row \in table}

HasRoom == Cardinality(table) < MaxEntries

\* enqueue: a key that is in the table is answered with its row, a full table
\* refuses, and otherwise a row with the next sequence number is inserted.
Enqueue(k, v) ==
    /\ k \notin Keys
    /\ HasRoom
    /\ Cardinality(inserted) < MaxInserts
    /\ LET row == [seq |-> Cardinality(inserted) + 1, key |-> k, payload |-> v, state |-> "queued"]
       IN  /\ table' = table \cup {row}
           /\ inserted' = inserted \cup {row}
    /\ UNCHANGED <<pc, listed, outcome, active, server, effects>>

\* The client writes online, under a key that it may enqueue later because it
\* saw no answer.
OnlineWrite(k, v) ==
    /\ active
    /\ server[k] = {}
    /\ server' = [server EXCEPT ![k] = {v}]
    /\ UNCHANGED <<table, inserted, pc, listed, outcome, active, effects>>

RevokeClient ==
    /\ active
    /\ active' = FALSE
    /\ UNCHANGED <<table, inserted, pc, listed, outcome, server, effects>>

-----------------------------------------------------------------------------
\* ORDER BY sequence LIMIT n.
First(n, rows) == {row \in rows : Cardinality({other \in rows : other.seq < row.seq}) < n}

\* list_pending.
ListPending(p) ==
    /\ pc[p] = "idle"
    /\ table # {}
    /\ listed' = [listed EXCEPT ![p] = First(Limit, table)]
    /\ pc' = [pc EXCEPT ![p] = "check"]
    /\ UNCHANGED <<table, inserted, outcome, active, server, effects>>

Stop(p) ==
    /\ pc' = [pc EXCEPT ![p] = "idle"]
    /\ listed' = [listed EXCEPT ![p] = {}]
    /\ outcome' = [outcome EXCEPT ![p] = "none"]

\* The row that comes next in a list, if any.
Upcoming(p) == {row \in listed[p] : \A other \in listed[p] : row.seq <= other.seq}

MaySend(p) == active /\ \E row \in Upcoming(p) : row.state = "queued"

\* The head of the loop: the end of the list, a conflict and a failed authority
\* check end the replay.
CheckNext(p) ==
    /\ pc[p] = "check"
    /\ \/ ~MaySend(p) /\ Stop(p)
       \/ /\ MaySend(p)
          /\ pc' = [pc EXCEPT ![p] = "send"]
          /\ UNCHANGED <<listed, outcome>>
    /\ UNCHANGED <<table, inserted, active, server, effects>>

\* The server's answer to a row: a fresh key takes effect, a known one is
\* replayed if the payload is the same.
Served(row) ==
    IF server[row.key] = {} THEN "completed"
    ELSE IF row.payload \in server[row.key] THEN "replayed" ELSE "conflict"

\* send(): the request may not arrive, it arrives if the client is active, and
\* its answer may be lost.
Send(p) ==
    /\ pc[p] = "send"
    /\ pc' = [pc EXCEPT ![p] = "apply"]
    /\ \E row \in Upcoming(p) :
          \/ /\ outcome' = [outcome EXCEPT ![p] = "unknown"]
             /\ UNCHANGED <<server, effects>>
          \/ /\ active
             /\ \E seen \in {Served(row), "unknown"} : outcome' = [outcome EXCEPT ![p] = seen]
             /\ IF Served(row) = "completed"
                THEN /\ server' = [server EXCEPT ![row.key] = {row.payload}]
                     /\ effects' = Append(effects, row.seq)
                ELSE UNCHANGED <<server, effects>>
    /\ UNCHANGED <<table, inserted, listed, active>>

\* Mutant: an answer that was lost is taken for success.
SettledIfUnknown(o) == o \in {"completed", "replayed", "unknown"}

Settled(o) == o \in {"completed", "replayed"}

Without(seq) == {row \in table : row.seq # seq}

Marked(seq) == {IF row.seq = seq THEN [row EXCEPT !.state = "conflict"] ELSE row : row \in table}

\* Mutant: the replay goes on after an uncertain answer.
GoesOnRegardless(o) == o # "conflict"

\* Mutant: the replay skips a conflict.
GoesOnPastConflict(o) == o # "unknown"

\* The replay goes on only past an operation that the server answered for.
GoesOn(o) == Settled(o)

\* What the answer does to the table: a settled row is deleted, a conflict is
\* marked.  The replay goes on or ends.
Apply(p) ==
    /\ pc[p] = "apply"
    /\ \E row \in Upcoming(p) :
          /\ table' = IF Settled(outcome[p]) THEN Without(row.seq)
                      ELSE IF outcome[p] = "conflict" THEN Marked(row.seq) ELSE table
          /\ \/ /\ GoesOn(outcome[p])
                /\ pc' = [pc EXCEPT ![p] = "check"]
                /\ listed' = [listed EXCEPT ![p] = @ \ {row}]
                /\ outcome' = [outcome EXCEPT ![p] = "none"]
             \/ ~GoesOn(outcome[p]) /\ Stop(p)
    /\ UNCHANGED <<inserted, active, server, effects>>

\* The bridge stops; the table is on disk.
Crash(p) ==
    /\ pc[p] # "idle"
    /\ Stop(p)
    /\ UNCHANGED <<table, inserted, active, server, effects>>

-----------------------------------------------------------------------------
Next ==
    \/ \E k \in Key, v \in Payload : Enqueue(k, v) \/ OnlineWrite(k, v)
    \/ RevokeClient
    \/ \E p \in Replay : ListPending(p) \/ CheckNext(p) \/ Send(p) \/ Apply(p) \/ Crash(p)

Spec == Init /\ [][Next]_vars

-----------------------------------------------------------------------------
InTable(row) == \E other \in table : other.seq = row.seq

Arrived(row) == row.payload \in server[row.key]

\* Nothing is lost: a row that left the table took effect at the server, with
\* the payload that was enqueued, although answers are lost and replays crash
\* or run side by side.
NothingLost ==
    \A row \in inserted : InTable(row) \/ Arrived(row)

\* Replays keep the order of insertion: when an operation takes effect, those
\* enqueued before it are at the server, by an earlier effect or because the
\* client wrote the same online.
InsertionOrder ==
    \A n \in DOMAIN effects : \A row \in inserted :
        row.seq < effects[n] =>
            /\ Arrived(row)
            /\ \A m \in DOMAIN effects : effects[m] = row.seq => m < n

HoldsUp ==
    \A row \in table : row.state = "conflict" =>
        effects' = effects \/ effects'[Len(effects')] < row.seq

\* A conflict holds up what was enqueued after it: nothing behind a conflicting
\* row takes effect.
ConflictsHoldUp == [][HoldsUp]_vars

-----------------------------------------------------------------------------
\* Rows are numbered as they are inserted; those in the table and in the lists are
\* inserted ones, but for a conflict noted since.
RowsInv ==
    /\ IsFiniteSet(inserted) /\ IsFiniteSet(table)
    /\ \A row \in inserted : row.seq <= Cardinality(inserted)
    /\ \A row, other \in inserted : row.seq = other.seq => row = other
    /\ \A rows \in {table} \cup {listed[p] : p \in Replay} : \A row \in rows :
          \E i \in inserted : i.seq = row.seq /\ i.key = row.key /\ i.payload = row.payload

\* A key has one payload for good; what is marked, was refused for another one.
ServerInv ==
    /\ \A k \in Key : \A v, w \in server[k] : v = w
    /\ \A row \in table : row.state = "conflict" => server[row.key] # {} /\ ~Arrived(row)

\* A replay that sends has something to send, and what it was told is so.
SendingInv ==
    \A p \in Replay :
        /\ pc[p] = "idle" => listed[p] = {}
        /\ outcome[p] # "none" => pc[p] = "apply"
        /\ \A row \in Upcoming(p) :
              /\ Settled(outcome[p]) => Arrived(row)
              /\ outcome[p] = "conflict" => server[row.key] # {} /\ ~Arrived(row)

\* What comes before a listed row arrived, or is listed too.
ListedInv ==
    \A p \in Replay : \A row \in listed[p], i \in inserted :
        i.seq < row.seq => Arrived(i) \/ \E other \in listed[p] : other.seq = i.seq

\* Effects are those of rows that arrived, one of each.
EffectsInv ==
    /\ \A n \in DOMAIN effects : \E row \in inserted : row.seq = effects[n] /\ Arrived(row)
    /\ \A m, n \in DOMAIN effects : effects[m] = effects[n] => m = n

\* The inductive invariant of the proofs.
IndInv ==
    /\ TypeOK
    /\ RowsInv
    /\ ServerInv
    /\ SendingInv
    /\ ListedInv
    /\ EffectsInv
    /\ NothingLost
    /\ InsertionOrder
=============================================================================

---------------------------- MODULE BridgeProofs ----------------------------
(***************************************************************************)
(* What a coding client sends, for any replays, rows and calls: the writes *)
(* that wait in the offline queue, and the calls to the project brain.     *)
(* The inductive invariants are checked by the run of MCBridge; the        *)
(* theorems at the end are about the specification of that run.            *)
(***************************************************************************)
EXTENDS MCBridge, Sequences, FiniteSetTheorems, TLAPS

(***************************************************************************)
(* The offline queue.                                                      *)
(***************************************************************************)
\* The instance counts as the library does.
LEMMA QueueCounts ==
    /\ \A S : Q!Cardinality(S) = Cardinality(S)
    /\ \A S : Q!IsFiniteSet(S) <=> IsFiniteSet(S)
<1>1. ASSUME NEW S PROVE Q!Cardinality(S) = Cardinality(S)
  BY DEF Q!Cardinality, Cardinality, Q!IsFiniteSet, IsFiniteSet
<1>2. ASSUME NEW S PROVE Q!IsFiniteSet(S) <=> IsFiniteSet(S)
  BY DEF Q!IsFiniteSet, IsFiniteSet
<1> QED BY <1>1, <1>2

\* The initial states satisfy the inductive invariant.
LEMMA QueueInit == Q!Init => Q!IndInv
<1> SUFFICES ASSUME Q!Init PROVE Q!IndInv
  OBVIOUS
<1> USE DEF Q!Init
<1>1. Q!Cardinality({}) = 0 /\ Q!IsFiniteSet({})
  BY QueueCounts, FS_EmptySet
<1>2. Q!TypeOK
  BY <1>1, BoundsAssumption DEF Q!TypeOK, Q!Outcome
<1>3. Q!RowsInv
  BY <1>1 DEF Q!RowsInv
<1>4. Q!ServerInv /\ Q!SendingInv /\ Q!ListedInv /\ Q!EffectsInv
  BY DEF Q!ServerInv, Q!SendingInv, Q!ListedInv, Q!EffectsInv, Q!Upcoming
<1> QED BY <1>2, <1>3, <1>4 DEF Q!IndInv, Q!NothingLost, Q!InsertionOrder

\* Rows of one number are rows of one operation, whatever was noted of a conflict.
LEMMA OneOperation ==
    ASSUME Q!TypeOK, Q!RowsInv
    PROVE  /\ \A r \in table : r \in Q!Row /\ \E i \in inserted : i.seq = r.seq
           /\ \A p \in Replay : \A r \in listed[p] : r \in Q!Row /\ \E i \in inserted : i.seq = r.seq
           /\ \A r \in table, i \in inserted : i.seq = r.seq => i.key = r.key /\ i.payload = r.payload
           /\ \A p \in Replay : \A r \in listed[p], i \in inserted :
                 i.seq = r.seq => i.key = r.key /\ i.payload = r.payload
           /\ \A p \in Replay : \A r \in listed[p], t \in table :
                 t.seq = r.seq => t.key = r.key /\ t.payload = r.payload
<1>1. \A r \in table : r \in Q!Row /\ \E i \in inserted : i.seq = r.seq /\ i.key = r.key /\ i.payload = r.payload
  BY DEF Q!TypeOK, Q!RowsInv
<1>2. \A p \in Replay : \A r \in listed[p] :
        r \in Q!Row /\ \E i \in inserted : i.seq = r.seq /\ i.key = r.key /\ i.payload = r.payload
  BY DEF Q!TypeOK, Q!RowsInv
<1>3. \A i, j \in inserted : i.seq = j.seq => i = j
  BY DEF Q!RowsInv
<1> QED BY <1>1, <1>2, <1>3

\* What is about to be sent is one operation.
LEMMA UpcomingIsOne ==
    ASSUME Q!TypeOK, Q!RowsInv, NEW p \in Replay, NEW r \in Q!Upcoming(p), NEW s \in Q!Upcoming(p)
    PROVE  r \in Q!Row /\ r \in listed[p] /\ r.seq = s.seq /\ r.key = s.key /\ r.payload = s.payload
<1>1. r \in listed[p] /\ s \in listed[p] /\ r.seq <= s.seq /\ s.seq <= r.seq
  BY DEF Q!Upcoming
<1>2. r \in Q!Row /\ s \in Q!Row
  BY <1>1, OneOperation
<1>3. r.seq = s.seq
  BY <1>1, <1>2, BoundsAssumption DEF Q!Row
<1>4. PICK i \in inserted : i.seq = r.seq
  BY <1>1, OneOperation
<1> QED BY <1>1, <1>2, <1>3, <1>4, OneOperation

\* Before what is about to be sent there are only operations that arrived.
LEMMA ArrivedBefore ==
    ASSUME Q!IndInv, NEW p \in Replay, NEW r \in Q!Upcoming(p), NEW i \in inserted, i.seq < r.seq
    PROVE  Q!Arrived(i)
<1> SUFFICES ASSUME ~Q!Arrived(i) PROVE FALSE
  OBVIOUS
<1> USE DEF Q!IndInv
<1>1. r \in listed[p] /\ \A s \in listed[p] : r.seq <= s.seq
  BY DEF Q!Upcoming
<1>2. PICK s \in listed[p] : s.seq = i.seq
  BY <1>1 DEF Q!ListedInv
<1>3. i \in Q!Row /\ r \in Q!Row
  BY <1>1, OneOperation DEF Q!TypeOK
<1> QED BY <1>1, <1>2, <1>3, BoundsAssumption DEF Q!Row

\* What the server knows of a key stays, when another one takes effect.
LEMMA ServerGrows ==
    ASSUME Q!TypeOK, NEW k \in Key, NEW v \in Payload, server[k] = {},
           server' = [server EXCEPT ![k] = {v}]
    PROVE  /\ server' \in [Key -> SUBSET Payload]
           /\ server'[k] = {v}
           /\ \A x \in Key : server[x] # {} => server'[x] = server[x]
           /\ \A r \in Q!Row : Q!Arrived(r) => Q!Arrived(r)'
           /\ \A r \in Q!Row : server[r.key] # {} /\ ~Q!Arrived(r) =>
                 server'[r.key] # {} /\ ~Q!Arrived(r)'
<1>1. server' \in [Key -> SUBSET Payload]
  BY DEF Q!TypeOK
<1>2. \A x \in Key : server'[x] = IF x = k THEN {v} ELSE server[x]
  BY DEF Q!TypeOK
<1>3. \A r \in Q!Row : r.key \in Key
  BY DEF Q!Row
<1> QED BY <1>1, <1>2, <1>3 DEF Q!Arrived

\* A step that adds an effect of its own key at most, and leaves the rows alone.
LEMMA QueueGrows ==
    ASSUME Q!IndInv, NEW k \in Key, NEW v \in Payload, server[k] = {},
           server' = [server EXCEPT ![k] = {v}],
           UNCHANGED <<table, inserted, listed>>
    PROVE  Q!RowsInv' /\ Q!ServerInv' /\ Q!ListedInv' /\ Q!NothingLost'
<1> USE DEF Q!IndInv
<1>1. /\ \A r \in Q!Row : Q!Arrived(r) => Q!Arrived(r)'
      /\ \A r \in Q!Row : server[r.key] # {} /\ ~Q!Arrived(r) => server'[r.key] # {} /\ ~Q!Arrived(r)'
      /\ \A x \in Key : server[x] # {} => server'[x] = server[x]
      /\ server'[k] = {v}
  BY ServerGrows
<1>2. inserted \subseteq Q!Row /\ table \subseteq Q!Row
  BY DEF Q!TypeOK
<1>3. Q!RowsInv'
  BY DEF Q!RowsInv
<1>4. Q!ServerInv'
  <2>1. \A x \in Key : \A a, b \in server'[x] : a = b
    BY <1>1 DEF Q!ServerInv, Q!TypeOK
  <2>2. \A r \in table : r.state = "conflict" => server'[r.key] # {} /\ ~Q!Arrived(r)'
    BY <1>1, <1>2 DEF Q!ServerInv
  <2> QED BY <2>1, <2>2 DEF Q!ServerInv
<1>5. Q!ListedInv'
  BY <1>1, <1>2 DEF Q!ListedInv
<1>6. Q!NothingLost'
  BY <1>1, <1>2 DEF Q!NothingLost, Q!InTable
<1> QED BY <1>3, <1>4, <1>5, <1>6

\* A row is inserted behind all others, as queued.
LEMMA QueueEnqueue ==
    ASSUME NEW k \in Key, NEW v \in Payload, Q!IndInv, Q!Enqueue(k, v) PROVE Q!IndInv'
<1> USE DEF Q!IndInv
<1> DEFINE n == Q!Cardinality(inserted)
<1> DEFINE new == [seq |-> n + 1, key |-> k, payload |-> v, state |-> "queued"]
<1>1. /\ Q!HasRoom /\ n < MaxInserts
      /\ table' = table \cup {new} /\ inserted' = inserted \cup {new}
      /\ UNCHANGED <<pc, listed, outcome, active, server, effects>>
  BY DEF Q!Enqueue
<1>2. n \in Nat
  BY QueueCounts, FS_CardinalityType DEF Q!RowsInv
<1>3. new.seq = n + 1 /\ new.state = "queued" /\ new \in Q!Row
  BY <1>1, <1>2, BoundsAssumption DEF Q!Row
<1>4. \A i \in inserted : i \in Q!Row /\ i.seq \in Nat /\ i.seq <= n
  BY BoundsAssumption DEF Q!RowsInv, Q!TypeOK, Q!Row
<1>5. new \notin inserted
  BY <1>2, <1>3, <1>4
<1>6. Q!IsFiniteSet(inserted') /\ Q!Cardinality(inserted') = n + 1
  BY <1>1, <1>5, QueueCounts, FS_AddElement DEF Q!RowsInv
<1>7. Q!IsFiniteSet(table') /\ Q!Cardinality(table') <= MaxEntries
  <2>1. IsFiniteSet(table) /\ Cardinality(table) \in Nat /\ Cardinality(table) < MaxEntries
    BY <1>1, QueueCounts, FS_CardinalityType DEF Q!RowsInv, Q!HasRoom
  <2>2. IsFiniteSet(table') /\ (Cardinality(table') = Cardinality(table) \/ Cardinality(table') = Cardinality(table) + 1)
    BY <1>1, <2>1, FS_AddElement
  <2> QED BY <2>1, <2>2, QueueCounts, BoundsAssumption
<1> HIDE DEF new, n
<1>8. Q!TypeOK'
  BY <1>1, <1>3, <1>7 DEF Q!TypeOK
<1>9. Q!RowsInv'
  <2>1. \A i \in inserted' : i.seq <= n + 1
    BY <1>1, <1>2, <1>3, <1>4
  <2>2. \A i, j \in inserted' : i.seq = j.seq => i = j
    <3>1. \A i \in inserted : i.seq # new.seq
      BY <1>2, <1>3, <1>4
    <3> QED BY <1>1, <3>1 DEF Q!RowsInv
  <2>3. \A r \in table' : \E i \in inserted' : i.seq = r.seq /\ i.key = r.key /\ i.payload = r.payload
    BY <1>1 DEF Q!RowsInv
  <2>4. \A p \in Replay : \A r \in listed'[p] :
          \E i \in inserted' : i.seq = r.seq /\ i.key = r.key /\ i.payload = r.payload
    BY <1>1 DEF Q!RowsInv
  <2> QED BY <1>6, <1>7, <2>1, <2>2, <2>3, <2>4 DEF Q!RowsInv
<1>10. Q!ServerInv'
  BY <1>1, <1>3 DEF Q!ServerInv, Q!Arrived
<1>11. Q!SendingInv'
  BY <1>1 DEF Q!SendingInv, Q!Upcoming, Q!Arrived
<1>12. Q!ListedInv'
  <2>1. \A p \in Replay : \A r \in listed[p] : r.seq \in Nat /\ r.seq <= n
    BY <1>4, OneOperation
  <2>2. \A p \in Replay : \A r \in listed[p] : ~(new.seq < r.seq)
    BY <1>2, <1>3, <2>1
  <2> QED BY <1>1, <2>2 DEF Q!ListedInv, Q!Arrived
<1>13. Q!EffectsInv'
  BY <1>1 DEF Q!EffectsInv, Q!Arrived
<1>14. Q!NothingLost'
  BY <1>1 DEF Q!NothingLost, Q!InTable, Q!Arrived
<1>15. Q!InsertionOrder'
  <2>1. \A m \in DOMAIN effects : effects[m] \in Nat /\ effects[m] <= n
    BY <1>4 DEF Q!EffectsInv
  <2>2. \A m \in DOMAIN effects : ~(new.seq < effects[m])
    BY <1>2, <1>3, <2>1
  <2> QED BY <1>1, <2>2 DEF Q!InsertionOrder, Q!Arrived
<1> QED BY <1>8, <1>9, <1>10, <1>11, <1>12, <1>13, <1>14, <1>15

\* What the client writes online is an effect without a row.
LEMMA QueueOnlineWrite ==
    ASSUME NEW k \in Key, NEW v \in Payload, Q!IndInv, Q!OnlineWrite(k, v) PROVE Q!IndInv'
<1> USE DEF Q!IndInv
<1>1. /\ server[k] = {} /\ server' = [server EXCEPT ![k] = {v}]
      /\ UNCHANGED <<table, inserted, pc, listed, outcome, active, effects>>
  BY DEF Q!OnlineWrite
<1>2. /\ server' \in [Key -> SUBSET Payload]
      /\ \A r \in Q!Row : Q!Arrived(r) => Q!Arrived(r)'
      /\ \A r \in Q!Row : server[r.key] # {} /\ ~Q!Arrived(r) => server'[r.key] # {} /\ ~Q!Arrived(r)'
  BY <1>1, ServerGrows
<1>3. Q!TypeOK'
  BY <1>1, <1>2 DEF Q!TypeOK
<1>4. Q!RowsInv' /\ Q!ServerInv' /\ Q!ListedInv' /\ Q!NothingLost'
  BY <1>1, QueueGrows
<1>5. Q!SendingInv'
  <2>1. \A p \in Replay : Q!Upcoming(p)' = Q!Upcoming(p) /\ \A r \in Q!Upcoming(p) : r \in Q!Row
    BY <1>1, UpcomingIsOne DEF Q!Upcoming
  <2> QED BY <1>1, <1>2, <2>1 DEF Q!SendingInv
<1>6. inserted \subseteq Q!Row
  BY DEF Q!TypeOK
<1>7. Q!EffectsInv'
  BY <1>1, <1>2, <1>6 DEF Q!EffectsInv
<1>8. Q!InsertionOrder'
  BY <1>1, <1>2, <1>6 DEF Q!InsertionOrder
<1> QED BY <1>3, <1>4, <1>5, <1>7, <1>8

\* A step that only takes a replay further, or a client's rights.
LEMMA QueueAside ==
    ASSUME Q!IndInv, UNCHANGED <<table, inserted, server, effects>>
    PROVE  Q!ServerInv' /\ Q!EffectsInv' /\ Q!NothingLost' /\ Q!InsertionOrder'
<1> USE DEF Q!IndInv
<1>1. Q!ServerInv' /\ Q!NothingLost'
  BY DEF Q!ServerInv, Q!Arrived, Q!NothingLost, Q!InTable
<1>2. Q!EffectsInv' /\ Q!InsertionOrder'
  BY DEF Q!EffectsInv, Q!InsertionOrder, Q!Arrived
<1> QED BY <1>1, <1>2

\* The client is revoked.
LEMMA QueueRevoke == ASSUME Q!IndInv, Q!RevokeClient PROVE Q!IndInv'
<1> USE DEF Q!IndInv
<1>1. /\ active' = FALSE
      /\ UNCHANGED <<table, inserted, pc, listed, outcome, server, effects>>
  BY DEF Q!RevokeClient
<1>2. Q!TypeOK'
  BY <1>1 DEF Q!TypeOK
<1>3. Q!RowsInv'
  BY <1>1 DEF Q!RowsInv
<1>4. Q!SendingInv' /\ Q!ListedInv'
  BY <1>1 DEF Q!SendingInv, Q!ListedInv, Q!Upcoming, Q!Arrived
<1> QED BY <1>1, <1>2, <1>3, <1>4, QueueAside

\* A replay starts from the first rows of the table: those before them are listed
\* as well, or have left the table and arrived.
LEMMA QueueListPending ==
    ASSUME NEW p \in Replay, Q!IndInv, Q!ListPending(p) PROVE Q!IndInv'
<1> USE DEF Q!IndInv
<1> DEFINE first == Q!First(Limit, table)
<1>1. /\ pc[p] = "idle" /\ pc' = [pc EXCEPT ![p] = "check"]
      /\ listed' = [listed EXCEPT ![p] = first]
      /\ UNCHANGED <<table, inserted, outcome, active, server, effects>>
  BY DEF Q!ListPending
<1>2. first \subseteq table
  BY DEF Q!First
<1>3. \A r \in first, s \in table : s.seq <= r.seq => s \in first
  <2> SUFFICES ASSUME NEW r \in first, NEW s \in table, s.seq <= r.seq PROVE s \in first
    OBVIOUS
  <2> DEFINE A == {o \in table : o.seq < s.seq}
  <2> DEFINE B == {o \in table : o.seq < r.seq}
  <2>1. Cardinality(B) < Limit
    BY QueueCounts DEF Q!First
  <2>2. \A o \in table : o.seq \in Nat
    BY BoundsAssumption DEF Q!TypeOK, Q!Row
  <2>3. A \subseteq B
    BY <1>2, <2>2
  <2>4. IsFiniteSet(B)
    BY QueueCounts, FS_Subset DEF Q!RowsInv
  <2>5. Cardinality(A) <= Cardinality(B) /\ IsFiniteSet(A) /\ Cardinality(A) \in Nat /\ Cardinality(B) \in Nat
    BY <2>3, <2>4, FS_Subset, FS_CardinalityType
  <2>6. Cardinality(A) < Limit
    BY <2>1, <2>5, BoundsAssumption
  <2> QED BY <2>6, QueueCounts DEF Q!First
<1> HIDE DEF first
<1>4. \A q \in Replay : /\ listed'[q] = IF q = p THEN first ELSE listed[q]
                        /\ pc'[q] = IF q = p THEN "check" ELSE pc[q]
  BY <1>1 DEF Q!TypeOK
<1>5. Q!TypeOK'
  BY <1>1, <1>2 DEF Q!TypeOK
<1>6. Q!RowsInv'
  <2>1. \A q \in Replay : \A r \in listed'[q] : \E i \in inserted : i.seq = r.seq /\ i.key = r.key /\ i.payload = r.payload
    BY <1>2, <1>4 DEF Q!RowsInv
  <2>2. \A r \in table : \E i \in inserted : i.seq = r.seq /\ i.key = r.key /\ i.payload = r.payload
    BY DEF Q!RowsInv
  <2> QED BY <1>1, <2>1, <2>2 DEF Q!RowsInv
<1>7. Q!SendingInv'
  <2>1. outcome[p] = "none"
    BY <1>1 DEF Q!SendingInv
  <2>2. \A q \in Replay : q # p => Q!Upcoming(q)' = Q!Upcoming(q)
    BY <1>4 DEF Q!Upcoming
  <2> QED BY <1>1, <1>4, <2>1, <2>2 DEF Q!SendingInv, Q!Settled, Q!Arrived
<1>8. Q!ListedInv'
  <2> SUFFICES ASSUME NEW q \in Replay, NEW r \in listed'[q], NEW i \in inserted, i.seq < r.seq, ~Q!Arrived(i)
               PROVE  \E s \in listed'[q] : s.seq = i.seq
    BY <1>1 DEF Q!ListedInv, Q!Arrived
  <2>1. CASE q # p
    BY <1>4, <2>1 DEF Q!ListedInv
  <2>2. CASE q = p
    <3>1. PICK s \in table : s.seq = i.seq
      BY DEF Q!NothingLost, Q!InTable
    <3>2. r \in first /\ r.seq \in Nat /\ s.seq \in Nat
      BY <1>2, <1>4, <2>2, BoundsAssumption DEF Q!TypeOK, Q!Row
    <3> QED BY <1>3, <1>4, <2>2, <3>1, <3>2
  <2> QED BY <2>1, <2>2
<1> QED BY <1>1, <1>5, <1>6, <1>7, <1>8, QueueAside

\* A replay that ends, crashed or not, forgets its list; the table is on disk.
LEMMA QueueStop ==
    ASSUME NEW p \in Replay, Q!IndInv, Q!Stop(p), UNCHANGED <<table, inserted, active, server, effects>>
    PROVE  Q!TypeOK' /\ Q!RowsInv' /\ Q!SendingInv' /\ Q!ListedInv'
<1> USE DEF Q!IndInv
<1>1. \A q \in Replay : /\ listed'[q] = IF q = p THEN {} ELSE listed[q]
                        /\ pc'[q] = IF q = p THEN "idle" ELSE pc[q]
                        /\ outcome'[q] = IF q = p THEN "none" ELSE outcome[q]
  BY DEF Q!Stop, Q!TypeOK
<1>2. Q!TypeOK'
  BY DEF Q!Stop, Q!TypeOK, Q!Outcome
<1>3. Q!RowsInv'
  BY <1>1 DEF Q!RowsInv
<1>4. Q!SendingInv'
  <2>1. \A q \in Replay : q # p => Q!Upcoming(q)' = Q!Upcoming(q)
    BY <1>1 DEF Q!Upcoming
  <2> QED BY <1>1, <2>1 DEF Q!SendingInv, Q!Settled, Q!Arrived
<1>5. Q!ListedInv'
  BY <1>1 DEF Q!ListedInv, Q!Arrived
<1> QED BY <1>2, <1>3, <1>4, <1>5

\* The head of the loop.
LEMMA QueueCheckNext ==
    ASSUME NEW p \in Replay, Q!IndInv, Q!CheckNext(p) PROVE Q!IndInv'
<1> USE DEF Q!IndInv
<1>1. pc[p] = "check" /\ UNCHANGED <<table, inserted, active, server, effects>>
  BY DEF Q!CheckNext
<1>2. CASE Q!Stop(p)
  BY <1>1, <1>2, QueueStop, QueueAside
<1>3. CASE /\ pc' = [pc EXCEPT ![p] = "send"]
           /\ UNCHANGED <<listed, outcome>>
  <2>1. Q!TypeOK'
    BY <1>1, <1>3 DEF Q!TypeOK
  <2>2. Q!RowsInv' /\ Q!ListedInv'
    BY <1>1, <1>3 DEF Q!RowsInv, Q!ListedInv, Q!Arrived
  <2>3. Q!SendingInv'
    <3>1. \A q \in Replay : pc'[q] = IF q = p THEN "send" ELSE pc[q]
      BY <1>3 DEF Q!TypeOK
    <3> QED BY <1>1, <1>3, <3>1 DEF Q!SendingInv, Q!Upcoming, Q!Arrived
  <2> QED BY <1>1, <2>1, <2>2, <2>3, QueueAside
<1> QED BY <1>2, <1>3 DEF Q!CheckNext

\* A crash loses no row.
LEMMA QueueCrash ==
    ASSUME NEW p \in Replay, Q!IndInv, Q!Crash(p) PROVE Q!IndInv'
BY QueueStop, QueueAside DEF Q!Crash, Q!IndInv

\* The effect of an operation follows those of all operations before it.
LEMMA QueueEffect ==
    ASSUME NEW p \in Replay, NEW r \in Q!Upcoming(p), Q!IndInv, server[r.key] = {},
           server' = [server EXCEPT ![r.key] = {r.payload}],
           effects' = Append(effects, r.seq),
           UNCHANGED <<table, inserted, listed>>
    PROVE  Q!EffectsInv' /\ Q!InsertionOrder' /\ effects' \in Seq(1..MaxInserts)
<1> USE DEF Q!IndInv
<1>1. r \in Q!Row /\ r \in listed[p] /\ r.key \in Key /\ r.payload \in Payload /\ r.seq \in 1..MaxInserts
  BY UpcomingIsOne DEF Q!Row
<1>2. PICK i \in inserted : i.seq = r.seq /\ i.key = r.key /\ i.payload = r.payload
  BY <1>1, OneOperation
<1>3. /\ \A s \in Q!Row : Q!Arrived(s) => Q!Arrived(s)'
      /\ server'[r.key] = {r.payload}
  BY <1>1, ServerGrows
<1>4. inserted \subseteq Q!Row /\ Q!Arrived(i)' /\ ~Q!Arrived(i)
  BY <1>2, <1>3 DEF Q!TypeOK, Q!Arrived
<1> DEFINE n == Len(effects)
<1>5. effects \in Seq(1..MaxInserts) /\ n \in Nat /\ DOMAIN effects = 1..n
  BY DEF Q!TypeOK
<1>6. /\ effects' \in Seq(1..MaxInserts)
      /\ DOMAIN effects' = 1..(n + 1) /\ effects'[n + 1] = r.seq
      /\ \A m \in 1..n : effects'[m] = effects[m]
  BY <1>1, <1>5
<1> HIDE DEF n
<1>7. \A m \in 1..n : \E s \in inserted : s.seq = effects[m] /\ Q!Arrived(s)
  BY <1>5 DEF Q!EffectsInv
<1>8. \A s \in inserted : s.seq = r.seq => s = i
  BY <1>2 DEF Q!RowsInv
<1>9. \A m \in 1..n : effects[m] # r.seq
  BY <1>4, <1>7, <1>8
<1>10. \A m \in 1..(n + 1) : m \in 1..n \/ m = n + 1
  BY <1>5
<1>11. Q!EffectsInv'
  <2>1. \A m \in 1..(n + 1) : \E s \in inserted' : s.seq = effects'[m] /\ Q!Arrived(s)'
    BY <1>2, <1>3, <1>4, <1>6, <1>7, <1>10
  <2>2. \A l, m \in 1..(n + 1) : effects'[l] = effects'[m] => l = m
    BY <1>5, <1>6, <1>9, <1>10 DEF Q!EffectsInv
  <2> QED BY <1>6, <2>1, <2>2 DEF Q!EffectsInv
<1>12. Q!InsertionOrder'
  <2> SUFFICES ASSUME NEW m \in 1..(n + 1), NEW s \in inserted, s.seq < effects'[m]
               PROVE  /\ Q!Arrived(s)'
                      /\ \A l \in 1..(n + 1) : effects'[l] = s.seq => l < m
    BY <1>6 DEF Q!InsertionOrder
  <2>1. CASE m = n + 1
    <3>1. Q!Arrived(s)
      BY <1>6, <2>1, ArrivedBefore
    <3>2. s.seq # r.seq
      BY <1>1, <1>4, <1>6, <2>1, BoundsAssumption DEF Q!Row
    <3> QED BY <1>3, <1>4, <1>5, <1>6, <1>10, <2>1, <3>1, <3>2
  <2>2. CASE m \in 1..n
    <3>1. Q!Arrived(s) /\ \A l \in 1..n : effects[l] = s.seq => l < m
      BY <1>5, <1>6, <2>2 DEF Q!InsertionOrder
    <3>2. s.seq # r.seq
      BY <1>4, <1>8, <3>1
    <3> QED BY <1>3, <1>4, <1>6, <1>10, <2>2, <3>1, <3>2
  <2> QED BY <1>10, <2>1, <2>2
<1> QED BY <1>6, <1>11, <1>12

\* The answer to a row is noted, whatever became of the row.
LEMMA QueueAnswered ==
    ASSUME NEW p \in Replay, NEW r \in Q!Upcoming(p), NEW seen \in Q!Outcome, Q!IndInv,
           pc[p] = "send", pc' = [pc EXCEPT ![p] = "apply"],
           outcome' = [outcome EXCEPT ![p] = seen],
           UNCHANGED <<table, inserted, listed, active>>,
           \A s \in Q!Row : Q!Arrived(s) => Q!Arrived(s)',
           \A s \in Q!Row : server[s.key] # {} /\ ~Q!Arrived(s) => server'[s.key] # {} /\ ~Q!Arrived(s)',
           Q!Settled(seen) => Q!Arrived(r)',
           seen = "conflict" => server'[r.key] # {} /\ ~Q!Arrived(r)'
    PROVE  Q!SendingInv'
<1> USE DEF Q!IndInv
<1>1. \A q \in Replay : /\ outcome'[q] = IF q = p THEN seen ELSE outcome[q]
                        /\ pc'[q] = IF q = p THEN "apply" ELSE pc[q]
  BY DEF Q!TypeOK
<1>2. \A q \in Replay : Q!Upcoming(q)' = Q!Upcoming(q) /\ \A s \in Q!Upcoming(q) : s \in Q!Row
  BY UpcomingIsOne DEF Q!Upcoming
<1>3. \A s \in Q!Upcoming(p) : s.key = r.key /\ s.payload = r.payload
  BY UpcomingIsOne
<1>4. \A s \in Q!Upcoming(p) : (Q!Arrived(s)' <=> Q!Arrived(r)') /\ server'[s.key] = server'[r.key]
  BY <1>3 DEF Q!Arrived
<1> QED BY <1>1, <1>2, <1>4 DEF Q!SendingInv

\* An operation is sent: it may take effect, and the answer may be lost.
LEMMA QueueSend ==
    ASSUME NEW p \in Replay, Q!IndInv, Q!Send(p) PROVE Q!IndInv'
<1> USE DEF Q!IndInv
<1>1. /\ pc[p] = "send" /\ pc' = [pc EXCEPT ![p] = "apply"]
      /\ UNCHANGED <<table, inserted, listed, active>>
  BY DEF Q!Send
<1>2. PICK r \in Q!Upcoming(p) :
        \/ /\ outcome' = [outcome EXCEPT ![p] = "unknown"]
           /\ UNCHANGED <<server, effects>>
        \/ /\ \E seen \in {Q!Served(r), "unknown"} : outcome' = [outcome EXCEPT ![p] = seen]
           /\ IF Q!Served(r) = "completed"
              THEN /\ server' = [server EXCEPT ![r.key] = {r.payload}]
                   /\ effects' = Append(effects, r.seq)
              ELSE UNCHANGED <<server, effects>>
  BY DEF Q!Send
<1>3. r \in Q!Row /\ r.key \in Key /\ r.payload \in Payload
  BY UpcomingIsOne DEF Q!Row
<1>4. PICK seen \in {Q!Served(r), "unknown"} : outcome' = [outcome EXCEPT ![p] = seen]
  BY <1>2
<1>5. seen \in Q!Outcome
  BY <1>4 DEF Q!Served, Q!Outcome
<1>6. pc' \in [Replay -> {"idle", "check", "send", "apply"}] /\ outcome' \in [Replay -> Q!Outcome]
  BY <1>1, <1>4, <1>5 DEF Q!TypeOK
<1>7. CASE UNCHANGED <<server, effects>> /\ (Q!Served(r) # "completed" \/ seen = "unknown")
  <2>1. Q!TypeOK'
    BY <1>1, <1>6, <1>7 DEF Q!TypeOK
  <2>2. Q!RowsInv'
    BY <1>1 DEF Q!RowsInv
  <2>3. Q!ListedInv'
    BY <1>1, <1>7 DEF Q!ListedInv, Q!Arrived
  <2>4. /\ Q!Settled(seen) => Q!Arrived(r)'
        /\ seen = "conflict" => server'[r.key] # {} /\ ~Q!Arrived(r)'
    BY <1>4, <1>7 DEF Q!Settled, Q!Served, Q!Arrived
  <2>5. /\ \A s \in Q!Row : Q!Arrived(s) => Q!Arrived(s)'
        /\ \A s \in Q!Row : server[s.key] # {} /\ ~Q!Arrived(s) => server'[s.key] # {} /\ ~Q!Arrived(s)'
    BY <1>7 DEF Q!Arrived
  <2>6. Q!SendingInv'
    BY <1>1, <1>4, <1>5, <2>4, <2>5, QueueAnswered
  <2> QED BY <1>1, <1>7, <2>1, <2>2, <2>3, <2>6, QueueAside
<1>8. CASE /\ Q!Served(r) = "completed"
           /\ server' = [server EXCEPT ![r.key] = {r.payload}]
           /\ effects' = Append(effects, r.seq)
  <2>1. server[r.key] = {}
    BY <1>8 DEF Q!Served
  <2>2. /\ server' \in [Key -> SUBSET Payload]
        /\ server'[r.key] = {r.payload}
        /\ \A s \in Q!Row : Q!Arrived(s) => Q!Arrived(s)'
        /\ \A s \in Q!Row : server[s.key] # {} /\ ~Q!Arrived(s) => server'[s.key] # {} /\ ~Q!Arrived(s)'
    BY <1>3, <1>8, <2>1, ServerGrows
  <2>3. Q!EffectsInv' /\ Q!InsertionOrder' /\ effects' \in Seq(1..MaxInserts)
    BY <1>1, <1>8, <2>1, QueueEffect
  <2>4. Q!TypeOK'
    BY <1>1, <1>6, <2>2, <2>3 DEF Q!TypeOK
  <2>5. Q!RowsInv' /\ Q!ServerInv' /\ Q!ListedInv' /\ Q!NothingLost'
    BY <1>1, <1>3, <1>8, <2>1, QueueGrows
  <2>6. Q!Arrived(r)' /\ seen # "conflict"
    BY <1>4, <1>8, <2>2 DEF Q!Arrived
  <2>7. Q!SendingInv'
    BY <1>1, <1>4, <1>5, <2>2, <2>6, QueueAnswered
  <2> QED BY <2>3, <2>4, <2>5, <2>7
<1>9. outcome'[p] = seen
  BY <1>4 DEF Q!TypeOK
<1>10. outcome' = [outcome EXCEPT ![p] = "unknown"] => seen = "unknown"
  BY <1>9 DEF Q!TypeOK
<1> QED BY <1>2, <1>7, <1>8, <1>10

\* What an answer does to the table: no row is dropped that has not arrived, and what
\* is marked was refused.
LEMMA QueueTable ==
    ASSUME NEW p \in Replay, NEW r \in Q!Upcoming(p), Q!IndInv,
           table' = IF Q!Settled(outcome[p]) THEN Q!Without(r.seq)
                    ELSE IF outcome[p] = "conflict" THEN Q!Marked(r.seq) ELSE table,
           UNCHANGED <<inserted, server>>
    PROVE  /\ table' \subseteq Q!Row /\ Q!IsFiniteSet(table') /\ Q!Cardinality(table') <= MaxEntries
           /\ \A s \in table' : \E i \in inserted : i.seq = s.seq /\ i.key = s.key /\ i.payload = s.payload
           /\ Q!ServerInv' /\ Q!NothingLost'
<1> USE DEF Q!IndInv
<1>1. /\ table \subseteq Q!Row /\ IsFiniteSet(table)
      /\ Cardinality(table) <= MaxEntries /\ Cardinality(table) \in Nat
      /\ \A s \in table : \E i \in inserted : i.seq = s.seq /\ i.key = s.key /\ i.payload = s.payload
  BY QueueCounts, FS_CardinalityType DEF Q!TypeOK, Q!RowsInv
<1>2. /\ r \in listed[p]
      /\ Q!Settled(outcome[p]) => Q!Arrived(r)
      /\ outcome[p] = "conflict" => server[r.key] # {} /\ ~Q!Arrived(r)
  BY DEF Q!SendingInv, Q!Upcoming
<1>3. ASSUME NEW s \in table, s.seq = r.seq PROVE s.key = r.key /\ s.payload = r.payload
  BY <1>2, <1>3, OneOperation
<1>4. ASSUME NEW i \in inserted, i.seq = r.seq PROVE i.key = r.key /\ i.payload = r.payload
  BY <1>2, <1>4, OneOperation
<1>5. CASE table' \subseteq table /\ (table' = table \/ (Q!Settled(outcome[p]) /\ table' = Q!Without(r.seq)))
  <2>1. IsFiniteSet(table') /\ Cardinality(table') <= Cardinality(table) /\ Cardinality(table') \in Nat
    BY <1>1, <1>5, FS_Subset, FS_CardinalityType
  <2>2. Q!IsFiniteSet(table') /\ Q!Cardinality(table') <= MaxEntries
    BY <1>1, <2>1, QueueCounts, BoundsAssumption
  <2>3. Q!ServerInv'
    BY <1>5 DEF Q!ServerInv, Q!Arrived
  <2>4. Q!NothingLost'
    <3> SUFFICES ASSUME NEW i \in inserted, Q!InTable(i), ~Q!InTable(i)' PROVE Q!Arrived(i)'
      BY DEF Q!NothingLost, Q!Arrived
    <3>1. Q!Settled(outcome[p]) /\ i.seq = r.seq
      BY <1>5 DEF Q!InTable, Q!Without
    <3> QED BY <1>2, <1>4, <3>1 DEF Q!Arrived
  <2> QED BY <1>1, <1>5, <2>2, <2>3, <2>4
<1>6. CASE outcome[p] = "conflict" /\ table' = Q!Marked(r.seq)
  <2> DEFINE Mark(s) == IF s.seq = r.seq THEN [s EXCEPT !.state = "conflict"] ELSE s
  <2>1. table' = {Mark(s) : s \in table}
    BY <1>6 DEF Q!Marked
  <2>2. \A s \in table : /\ Mark(s) \in Q!Row /\ Mark(s).seq = s.seq /\ Mark(s).key = s.key
                         /\ Mark(s).payload = s.payload
                         /\ Mark(s).state = IF s.seq = r.seq THEN "conflict" ELSE s.state
    BY <1>1 DEF Q!Row
  <2> HIDE DEF Mark
  <2>3. IsFiniteSet(table') /\ Cardinality(table') <= Cardinality(table)
    <3> DEFINE mark == [s \in table |-> Mark(s)]
    <3>1. mark \in Surjection(table, table')
      BY <2>1 DEF Surjection
    <3> QED BY <1>1, <3>1, FS_Surjection
  <2>4. Cardinality(table') \in Nat
    BY <2>3, FS_CardinalityType
  <2>5. Q!IsFiniteSet(table') /\ Q!Cardinality(table') <= MaxEntries
    BY <1>1, <2>3, <2>4, QueueCounts, BoundsAssumption
  <2>6. \A s \in table' : \E i \in inserted : i.seq = s.seq /\ i.key = s.key /\ i.payload = s.payload
    BY <1>1, <2>1, <2>2
  <2>7. Q!ServerInv'
    <3> SUFFICES ASSUME NEW s \in table, Mark(s).state = "conflict"
                 PROVE  server[Mark(s).key] # {} /\ ~Q!Arrived(Mark(s))
      BY <2>1 DEF Q!ServerInv, Q!Arrived
    <3>1. server[s.key] # {} /\ ~Q!Arrived(s)
      BY <1>2, <1>3, <1>6, <2>2 DEF Q!ServerInv, Q!Arrived
    <3> QED BY <2>2, <3>1 DEF Q!Arrived
  <2>8. Q!NothingLost'
    <3>1. \A i \in inserted : Q!InTable(i) => Q!InTable(i)'
      BY <2>1, <2>2 DEF Q!InTable
    <3> QED BY <3>1 DEF Q!NothingLost, Q!Arrived
  <2> QED BY <2>1, <2>2, <2>5, <2>6, <2>7, <2>8
<1>7. Q!Without(r.seq) \subseteq table
  BY DEF Q!Without
<1> QED BY <1>5, <1>6, <1>7

\* An answer is applied, and the replay goes on only past a row that arrived.
LEMMA QueueApply ==
    ASSUME NEW p \in Replay, Q!IndInv, Q!Apply(p) PROVE Q!IndInv'
<1> USE DEF Q!IndInv
<1>1. UNCHANGED <<inserted, active, server, effects>>
  BY DEF Q!Apply
<1>2. PICK r \in Q!Upcoming(p) :
        /\ table' = IF Q!Settled(outcome[p]) THEN Q!Without(r.seq)
                    ELSE IF outcome[p] = "conflict" THEN Q!Marked(r.seq) ELSE table
        /\ \/ /\ Q!Settled(outcome[p])
              /\ pc' = [pc EXCEPT ![p] = "check"]
              /\ listed' = [listed EXCEPT ![p] = @ \ {r}]
              /\ outcome' = [outcome EXCEPT ![p] = "none"]
           \/ Q!Stop(p)
  BY DEF Q!Apply, Q!GoesOn
<1>3. /\ table' \subseteq Q!Row /\ Q!IsFiniteSet(table') /\ Q!Cardinality(table') <= MaxEntries
      /\ \A s \in table' : \E i \in inserted : i.seq = s.seq /\ i.key = s.key /\ i.payload = s.payload
      /\ Q!ServerInv' /\ Q!NothingLost'
  BY <1>1, <1>2, QueueTable
<1>4. r \in listed[p] /\ (Q!Settled(outcome[p]) => Q!Arrived(r))
  BY DEF Q!SendingInv, Q!Upcoming
<1>5. Q!EffectsInv'
  BY <1>1 DEF Q!EffectsInv, Q!Arrived
<1>6. Q!InsertionOrder'
  BY <1>1 DEF Q!InsertionOrder, Q!Arrived
<1>7. /\ pc' \in [Replay -> {"idle", "check", "send", "apply"}]
      /\ outcome' \in [Replay -> Q!Outcome]
      /\ listed' \in [Replay -> SUBSET Q!Row]
      /\ \A q \in Replay : /\ listed'[q] \subseteq listed[q]
                           /\ q # p => listed'[q] = listed[q] /\ pc'[q] = pc[q] /\ outcome'[q] = outcome[q]
      /\ outcome'[p] = "none"
      /\ listed'[p] = {} \/ (Q!Settled(outcome[p]) /\ listed'[p] = listed[p] \ {r})
      /\ pc'[p] = "idle" => listed'[p] = {}
  <2>1. CASE Q!Stop(p)
    BY <2>1 DEF Q!Stop, Q!TypeOK, Q!Outcome
  <2>2. CASE /\ Q!Settled(outcome[p])
             /\ pc' = [pc EXCEPT ![p] = "check"]
             /\ listed' = [listed EXCEPT ![p] = @ \ {r}]
             /\ outcome' = [outcome EXCEPT ![p] = "none"]
    BY <2>2 DEF Q!TypeOK, Q!Outcome
  <2> QED BY <1>2, <2>1, <2>2
<1>8. Q!TypeOK'
  BY <1>1, <1>3, <1>7 DEF Q!TypeOK
<1>9. Q!RowsInv'
  <2>1. \A q \in Replay : \A s \in listed'[q] : \E i \in inserted : i.seq = s.seq /\ i.key = s.key /\ i.payload = s.payload
    BY <1>7 DEF Q!RowsInv
  <2>2. Q!IsFiniteSet(inserted') /\ \A i \in inserted' : i.seq <= Q!Cardinality(inserted')
    BY <1>1 DEF Q!RowsInv
  <2> QED BY <1>1, <1>3, <2>1, <2>2 DEF Q!RowsInv
<1>10. Q!SendingInv'
  <2>1. \A q \in Replay : q # p => Q!Upcoming(q)' = Q!Upcoming(q)
    BY <1>7 DEF Q!Upcoming
  <2> QED BY <1>1, <1>7, <2>1 DEF Q!SendingInv, Q!Settled, Q!Arrived
<1>11. Q!ListedInv'
  <2> SUFFICES ASSUME NEW q \in Replay, NEW s \in listed'[q], NEW i \in inserted, i.seq < s.seq, ~Q!Arrived(i)
               PROVE  \E o \in listed'[q] : o.seq = i.seq
    BY <1>1 DEF Q!ListedInv, Q!Arrived
  <2>1. PICK o \in listed[q] : o.seq = i.seq
    BY <1>7 DEF Q!ListedInv
  <2>2. CASE q # p
    BY <1>7, <2>1, <2>2
  <2>3. CASE q = p
    <3>1. Q!Settled(outcome[p]) /\ listed'[p] = listed[p] \ {r}
      BY <1>7, <2>3
    <3>2. o # r
      BY <1>4, <2>1, <3>1, OneOperation DEF Q!Arrived
    <3> QED BY <2>1, <2>3, <3>1, <3>2
  <2> QED BY <2>2, <2>3
<1> QED BY <1>3, <1>5, <1>6, <1>8, <1>9, <1>10, <1>11

\* Every step of the queue keeps the inductive invariant.
LEMMA QueueStep == Q!IndInv /\ [Q!Next]_(Q!vars) => Q!IndInv'
<1> SUFFICES ASSUME Q!IndInv, [Q!Next]_(Q!vars) PROVE Q!IndInv'
  OBVIOUS
<1>1. CASE UNCHANGED Q!vars
  <2> USE <1>1 DEF Q!vars, Q!IndInv
  <2>1. Q!TypeOK'
    BY DEF Q!TypeOK
  <2>2. Q!RowsInv'
    BY DEF Q!RowsInv
  <2>3. Q!SendingInv' /\ Q!ListedInv'
    BY DEF Q!SendingInv, Q!ListedInv, Q!Upcoming, Q!Arrived
  <2> QED BY <2>1, <2>2, <2>3, QueueAside
<1>2. CASE Q!Next
  BY <1>2, QueueEnqueue, QueueOnlineWrite, QueueRevoke, QueueListPending, QueueCheckNext, QueueSend,
     QueueApply, QueueCrash DEF Q!Next
<1> QED BY <1>1, <1>2

\* Nothing behind a conflicting row takes effect: what is sent comes after operations
\* that arrived, and the marked one never did.
LEMMA QueueHoldsUp == Q!IndInv /\ [Q!Next]_(Q!vars) => Q!HoldsUp
<1> SUFFICES ASSUME Q!IndInv, [Q!Next]_(Q!vars), NEW c \in table, c.state = "conflict", effects' # effects
             PROVE  effects'[Len(effects')] < c.seq
  BY DEF Q!HoldsUp
<1> USE DEF Q!IndInv
<1>1. PICK p \in Replay : Q!Send(p)
  BY DEF Q!Next, Q!vars, Q!Enqueue, Q!OnlineWrite, Q!RevokeClient, Q!ListPending, Q!CheckNext, Q!Apply, Q!Crash
<1>2. PICK r \in Q!Upcoming(p) : Q!Served(r) = "completed" /\ effects' = Append(effects, r.seq)
  BY <1>1 DEF Q!Send
<1>3. server[r.key] = {} /\ r \in Q!Row /\ r \in listed[p]
  BY <1>2, UpcomingIsOne DEF Q!Served
<1>4. effects'[Len(effects')] = r.seq
  BY <1>2, <1>3 DEF Q!TypeOK, Q!Row
<1>5. c \in Q!Row /\ server[c.key] # {} /\ ~Q!Arrived(c)
  BY OneOperation DEF Q!ServerInv
<1>6. PICK i \in inserted : i.seq = c.seq
  BY OneOperation
<1>7. i.key = c.key /\ i.payload = c.payload
  BY <1>6, OneOperation
<1>8. ~(i.seq < r.seq)
  BY <1>5, <1>7, ArrivedBefore DEF Q!Arrived
<1>9. c.seq # r.seq
  BY <1>3, <1>5, OneOperation
<1> QED BY <1>3, <1>4, <1>5, <1>6, <1>8, <1>9, BoundsAssumption DEF Q!Row

\* What was made and dropped changes with the server and the table only.
LEMMA OnceAside ==
    ASSUME side' = side
    PROVE  /\ server' = server => Made' = Made
           /\ inserted' = inserted /\ (\A i \in inserted : Q!InTable(i)' <=> Q!InTable(i)) => Dropped' = Dropped
<1>1. ASSUME server' = server PROVE Made' = Made
  BY <1>1 DEF Made
<1>2. ASSUME inserted' = inserted, \A i \in inserted : Q!InTable(i)' <=> Q!InTable(i)
      PROVE  Dropped' = Dropped
  <2>1. {i \in inserted' : ~Q!InTable(i)'} = {i \in inserted : ~Q!InTable(i)}
    BY <1>2
  <2> QED BY <2>1 DEF Dropped
<1> QED BY <1>1, <1>2

\* A key that takes effect at the server has its first and only effect.
LEMMA OnceMade ==
    ASSUME Q!TypeOK, side = "queue", side' = side, NEW k \in Key, NEW v \in Payload, server[k] = {},
           server' = [server EXCEPT ![k] = {v}]
    PROVE  Promise!Make(EffectOf(k, v)) /\ EffectOf(k, v) \in Promise!Effect
<1>1. EffectOf(k, v) \in Promise!Effect
  BY DEF EffectOf, Promise!Effect
<1>2. \A f \in Made : f.key # k
  BY DEF Made, EffectOf
<1>3. \A x \in Key : server'[x] = IF x = k THEN {v} ELSE server[x]
  BY DEF Q!TypeOK
<1>4. Made' \subseteq Made \cup {EffectOf(k, v)}
  BY <1>3 DEF Made
<1>5. Made \cup {EffectOf(k, v)} \subseteq Made'
  BY <1>3 DEF Made
<1> QED BY <1>1, <1>2, <1>4, <1>5 DEF Promise!Make, EffectOf

\* A row is dropped for an answer, and the answer is only given for what took effect.
LEMMA OnceDropped ==
    ASSUME NEW p \in Replay, Q!IndInv, Q!Apply(p), side = "queue", side' = side
    PROVE  [Promise!Next]_Promise!onceVars
<1> USE DEF Q!IndInv
<1>1. PICK r \in Q!Upcoming(p) :
        table' = IF Q!Settled(outcome[p]) THEN Q!Without(r.seq)
                 ELSE IF outcome[p] = "conflict" THEN Q!Marked(r.seq) ELSE table
  BY DEF Q!Apply
<1>2. inserted' = inserted /\ server' = server
  BY DEF Q!Apply
<1>3. Made' = Made
  BY <1>2, OnceAside
<1>4. r \in listed[p] /\ (Q!Settled(outcome[p]) => Q!Arrived(r))
  BY DEF Q!SendingInv, Q!Upcoming
<1>5. PICK i \in inserted : i.seq = r.seq /\ i.key = r.key /\ i.payload = r.payload
  BY <1>4, OneOperation
<1>6. \A j \in inserted : j.seq = r.seq => j = i
  BY <1>5 DEF Q!RowsInv
<1>7. CASE Q!Settled(outcome[p]) /\ Q!InTable(i)
  <2> DEFINE e == EffectOf(i.key, i.payload)
  <2>1. ~Q!InTable(i)' /\ \A j \in inserted : j # i => (Q!InTable(j)' <=> Q!InTable(j))
    BY <1>1, <1>5, <1>6, <1>7 DEF Q!InTable, Q!Without
  <2>2. Dropped' = {EffectOf(j.key, j.payload) : j \in {j \in inserted : ~Q!InTable(j)} \cup {i}}
    BY <1>2, <1>7, <2>1 DEF Dropped
  <2>3. Dropped' = Dropped \cup {e}
    BY <2>2 DEF Dropped
  <2>4. i.key \in Key /\ i.payload \in Payload
    BY <1>5 DEF Q!TypeOK, Q!Row
  <2>5. i.payload \in server[i.key]
    BY <1>4, <1>5, <1>7 DEF Q!Arrived
  <2>6. e \in Made /\ e \in Promise!Effect
    BY <2>4, <2>5 DEF Made, EffectOf, Promise!Effect
  <2> QED BY <1>3, <2>3, <2>6 DEF Promise!Next, Promise!Tell
<1>8. CASE ~(Q!Settled(outcome[p]) /\ Q!InTable(i))
  <2>1. \A j \in inserted : Q!InTable(j)' <=> Q!InTable(j)
    <3>1. CASE Q!Settled(outcome[p])
      BY <1>1, <1>5, <1>6, <1>8, <3>1 DEF Q!InTable, Q!Without
    <3>2. CASE ~Q!Settled(outcome[p]) /\ outcome[p] = "conflict"
      <4> DEFINE Mark(s) == IF s.seq = r.seq THEN [s EXCEPT !.state = "conflict"] ELSE s
      <4>1. \A s \in table : Mark(s).seq = s.seq
        BY DEF Q!TypeOK, Q!Row
      <4>2. table' = {Mark(s) : s \in table}
        BY <1>1, <3>2 DEF Q!Marked
      <4> HIDE DEF Mark
      <4> QED BY <4>1, <4>2 DEF Q!InTable
    <3>3. CASE ~Q!Settled(outcome[p]) /\ outcome[p] # "conflict"
      BY <1>1, <3>3 DEF Q!InTable
    <3> QED BY <3>1, <3>2, <3>3
  <2>2. Dropped' = Dropped
    BY <1>2, <2>1, OnceAside
  <2> QED BY <1>3, <2>2 DEF Promise!onceVars
<1> QED BY <1>7, <1>8

\* An operation that is sent has its effect, or had it, or never arrived.
LEMMA OnceSent ==
    ASSUME NEW p \in Replay, Q!IndInv, Q!Send(p), side = "queue", side' = side
    PROVE  [Promise!Next]_Promise!onceVars
<1> USE DEF Q!IndInv
<1>1. inserted' = inserted /\ table' = table
  BY DEF Q!Send
<1>2. Dropped' = Dropped
  BY <1>1, OnceAside DEF Q!InTable
<1>3. CASE server' = server
  BY <1>2, <1>3, OnceAside DEF Promise!onceVars
<1>4. CASE server' # server
  <2>1. PICK r \in Q!Upcoming(p) :
          Q!Served(r) = "completed" /\ server' = [server EXCEPT ![r.key] = {r.payload}]
    BY <1>4 DEF Q!Send
  <2>2. server[r.key] = {} /\ r.key \in Key /\ r.payload \in Payload
    BY <2>1, UpcomingIsOne DEF Q!Served, Q!Row
  <2>3. Promise!Make(EffectOf(r.key, r.payload)) /\ EffectOf(r.key, r.payload) \in Promise!Effect
    BY <2>1, <2>2, OnceMade
  <2> QED BY <1>2, <2>3 DEF Promise!Next
<1> QED BY <1>3, <1>4

\* What is enqueued is in the table: nothing is made and nothing dropped.
LEMMA OnceEnqueued ==
    ASSUME NEW k \in Key, NEW v \in Payload, Q!IndInv, Q!Enqueue(k, v), side = "queue", side' = side
    PROVE  UNCHANGED Promise!onceVars
<1> USE DEF Q!IndInv
<1> DEFINE n == Q!Cardinality(inserted)
<1> DEFINE new == [seq |-> n + 1, key |-> k, payload |-> v, state |-> "queued"]
<1>1. table' = table \cup {new} /\ inserted' = inserted \cup {new} /\ server' = server
  BY DEF Q!Enqueue
<1>2. n \in Nat /\ new.seq = n + 1
  BY QueueCounts, FS_CardinalityType DEF Q!RowsInv
<1>3. \A i \in inserted : i.seq \in Nat /\ i.seq <= n
  BY BoundsAssumption DEF Q!RowsInv, Q!TypeOK, Q!Row
<1>4. \A i \in inserted : i.seq # new.seq
  BY <1>2, <1>3
<1> HIDE DEF n, new
<1>5. PICK o : o = new
  OBVIOUS
<1>6. {i \in inserted' : ~Q!InTable(i)'} = {i \in inserted : ~Q!InTable(i)}
  <2>1. Q!InTable(o)'
    BY <1>1, <1>5 DEF Q!InTable
  <2>2. \A i \in inserted : Q!InTable(i)' <=> Q!InTable(i)
    BY <1>1, <1>4 DEF Q!InTable
  <2> QED BY <1>1, <1>5, <2>1, <2>2
<1>7. Dropped' = Dropped
  BY <1>6 DEF Dropped
<1> QED BY <1>1, <1>7, OnceAside DEF Promise!onceVars

\* Every step of the queue is one that the server's promise allows, or none.
LEMMA OnceStep ==
    ASSUME Q!IndInv, [Q!Next]_(Q!vars), side = "queue", side' = side
    PROVE  [Promise!Next]_Promise!onceVars
<1>1. CASE UNCHANGED <<table, inserted, server>>
  BY <1>1, OnceAside DEF Promise!onceVars, Q!InTable
<1>2. ASSUME NEW k \in Key, NEW v \in Payload, Q!OnlineWrite(k, v)
      PROVE  Promise!Next
  <2>1. Promise!Make(EffectOf(k, v)) /\ EffectOf(k, v) \in Promise!Effect
    BY <1>2, OnceMade DEF Q!OnlineWrite, Q!IndInv
  <2>2. Dropped' = Dropped
    BY <1>2, OnceAside DEF Q!OnlineWrite, Q!InTable
  <2> QED BY <2>1, <2>2 DEF Promise!Next
<1>3. CASE Q!Next
  <2>1. ASSUME NEW p \in Replay, Q!ListPending(p) \/ Q!CheckNext(p) \/ Q!Crash(p)
        PROVE  UNCHANGED <<table, inserted, server>>
    BY <2>1 DEF Q!ListPending, Q!CheckNext, Q!Crash
  <2>2. Q!RevokeClient => UNCHANGED <<table, inserted, server>>
    BY DEF Q!RevokeClient
  <2> QED BY <1>1, <1>2, <1>3, <2>1, <2>2, OnceEnqueued, OnceSent, OnceDropped DEF Q!Next
<1> QED BY <1>1, <1>3 DEF Q!vars

(***************************************************************************)
(* The project brain.                                                      *)
(***************************************************************************)
\* What a call asks for, from its type.
LEMMA AskTypes ==
    /\ \A a \in Ask \cup {NoAsk} :
          /\ a.op \in {"none", "start", "checkpoint", "finalize", "fact", "sync"}
          /\ a.op = "none" <=> a = NoAsk
          /\ a.op \in {"start", "fact", "sync"} => a.project \in Project
          /\ a.op \in {"checkpoint", "finalize"} => a.task \in Call
          /\ a.op = "fact" => a.statement \in Statement
          /\ a.op = "sync" => a.modules \subseteq Module /\ a.changed \subseteq Module
    /\ NoAsk.op = "none"
    /\ NoCard.freshness = "absent" /\ NoCard \notin Card
BY DEF Ask, NoAsk, NoCard, Card

\* Every row can be locked, and rows of different tables are different.
LEMMA Lockables ==
    /\ \A p \in Project : p \in Lockable /\ p \notin Call /\ p \notin Statement /\ p \notin Call \X Module
    /\ \A c \in Call : c \in Lockable /\ c \notin Project /\ c \notin Statement /\ c \notin Call \X Module
    /\ \A s \in Statement : s \in Lockable /\ s \notin Project /\ s \notin Call /\ s \notin Call \X Module
    /\ \A k \in Call \X Module :
          /\ k \in Lockable /\ k \notin Project /\ k \notin Call /\ k \notin Statement
          /\ k[1] \in Call /\ k[2] \in Module /\ k = <<k[1], k[2]>>
BY TablesAssumption DEF Lockable

\* The initial states satisfy the inductive invariant.
LEMMA BrainInit == Init => IndInv
<1> SUFFICES ASSUME Init PROVE IndInv
  OBVIOUS
<1> USE DEF Init
<1>1. TypeOK
  <2>1. \A p \in Project : project[p] \in [state : {"absent", "active", "deleted"}, root : SUBSET Root,
                                           evidence : SUBSET Call]
    OBVIOUS
  <2>2. project \in [Project -> [state : {"absent", "active", "deleted"}, root : SUBSET Root,
                                 evidence : SUBSET Call]]
    BY <2>1
  <2> QED BY <2>2 DEF TypeOK, Stage
<1>2. CallsInv
  BY Lockables, AskTypes DEF CallsInv
<1>3. LocksInv /\ ReportsInv
  BY Lockables DEF LocksInv, ReportsInv
<1>4. OrderInv /\ RootsInv
  BY AskTypes DEF OrderInv, RootsInv, Later, Accepted
<1>5. HoldsInv /\ FreshInv /\ TwinsRaced /\ OneFact
  BY AskTypes DEF HoldsInv, FreshInv, TwinsRaced, OneFact, Written, Accepted
<1> QED BY <1>1, <1>2, <1>3, <1>4, <1>5 DEF IndInv

\* What accepted syncs saw of each other when they began is settled.
LEMMA RacesStay ==
    ASSUME \A c \in Call : stage[c] = "accepted" => stage'[c] = "accepted" /\ ask'[c] = ask[c],
           \A c, q \in Call : stage[c] = "accepted" /\ stage[q] = "accepted" =>
               (c \in begun'[q] <=> c \in begun[q]) /\ (c \in ended'[q] <=> c \in ended[q])
    PROVE  /\ \A c, q \in Call : stage[c] = "accepted" /\ stage[q] = "accepted" =>
                 (Overlap(c, q)' <=> Overlap(c, q))
           /\ \A c \in Call : stage[c] = "accepted" /\ Raced(c) => Raced(c)'
<1>1. \A c, q \in Call : stage[c] = "accepted" /\ stage[q] = "accepted" => (Overlap(c, q)' <=> Overlap(c, q))
  BY DEF Overlap
<1>2. ASSUME NEW c \in Call, stage[c] = "accepted", Raced(c) PROVE Raced(c)'
  <2>1. PICK r \in Call : /\ Accepted(r, "sync") /\ ask[r].project = ask[c].project
                          /\ Overlap(r, c) /\ ask[r].root # ask[c].root
    BY <1>2 DEF Raced
  <2>2. Overlap(r, c)' /\ Accepted(r, "sync")'
    BY <1>1, <1>2, <2>1 DEF Accepted
  <2>3. ask'[r] = ask[r] /\ ask'[c] = ask[c]
    BY <1>2, <2>1 DEF Accepted
  <2> QED BY <2>1, <2>2, <2>3 DEF Raced
<1> QED BY <1>1, <1>2

\* A call that goes on, and writes nothing yet.
LEMMA BrainAdvance ==
    ASSUME IndInv, NEW c \in Call, NEW s \in Open, Busy(c), c \notin late, To(c, s),
           s = "dedupe" => ask[c].op = "fact",
           s = "write" => ask[c].op # "sync",
           s \in {"refresh", "invalidate"} => ask[c].op = "sync",
           UNCHANGED <<project, row, report, card, ask, preview, begun, ended, late>>
    PROVE  /\ stage' \in [Call -> Stage]
           /\ \A q \in Call : stage'[q] = IF q = c THEN s ELSE stage[q]
           /\ CallsInv' /\ ReportsInv' /\ OrderInv' /\ FreshInv' /\ TwinsRaced' /\ OneFact'
           /\ stage[c] # "look" => RootsInv'
<1> USE DEF IndInv
<1>1. stage' \in [Call -> Stage] /\ \A q \in Call : stage'[q] = IF q = c THEN s ELSE stage[q]
  BY DEF To, TypeOK, Stage
<1>2. /\ s # "accepted" /\ s \notin {"idle", "refused", "look"}
      /\ stage[c] # "accepted" /\ stage[c] \notin {"idle", "refused"}
  BY DEF Open, Busy
<1>3. \A q \in Call : Accepted(q, "finalize")' <=> Accepted(q, "finalize")
  BY <1>1, <1>2 DEF Accepted
<1>4. \A q \in Call : Accepted(q, "sync")' <=> Accepted(q, "sync")
  BY <1>1, <1>2 DEF Accepted
<1>5. CallsInv'
  <2>1. \A q \in Call : ProjectOf(q)' = ProjectOf(q)
    BY DEF ProjectOf, About
  <2>2. \A q \in Call :
          /\ stage'[q] \in {"idle", "refused"} <=> ask'[q] = NoAsk
          /\ stage'[q] = "dedupe" => ask'[q].op = "fact"
          /\ stage'[q] = "write" => ask'[q].op # "sync"
          /\ stage'[q] \in {"refresh", "invalidate"} => ask'[q].op = "sync"
          /\ row'[q] # "absent" => stage'[q] = "accepted"
    BY <1>1, <1>2 DEF CallsInv
  <2>3. \A q \in Call : ask'[q].op \in {"checkpoint", "finalize"} => Written(ask[q].task, "start")
    BY DEF CallsInv
  <2>4. \A q \in Call : Written(ask[q].task, "start") <=> row'[ask'[q].task] # "absent" /\ ask'[ask'[q].task].op = "start"
    BY DEF Written
  <2>5. \A k \in Call \X Module : card'[k] # NoCard => Accepted(k[1], "sync")'
    BY <1>4, Lockables DEF CallsInv
  <2>6. \A q \in late' : stage'[q] = "look" /\ project'[ProjectOf(q)'].state = "deleted"
    BY <1>1, <2>1 DEF CallsInv, TypeOK
  <2> QED BY <2>2, <2>3, <2>4, <2>5, <2>6 DEF CallsInv, Written
<1>6. ReportsInv'
  BY <1>3 DEF ReportsInv, Written, TypeOK
<1>7. OrderInv'
  BY <1>4 DEF OrderInv, Later
<1>8. FreshInv'
  BY <1>4 DEF FreshInv, Later
<1>9. TwinsRaced' /\ OneFact'
  BY DEF TwinsRaced, OneFact, Overlap, Written
<1>10. ASSUME stage[c] # "look" PROVE RootsInv'
  <2>1. \A q \in Call : Raced(q)' <=> Raced(q)
    BY <1>4 DEF Raced, Overlap
  <2>2. \A q \in Call : stage'[q] # "look" => stage[q] # "look"
    BY <1>1, <1>10
  <2> QED BY <1>4, <2>1, <2>2 DEF RootsInv, Later
<1> QED BY <1>1, <1>5, <1>6, <1>7, <1>8, <1>9, <1>10

\* Locks stay as they are while a call reads.
LEMMA BrainReads ==
    ASSUME IndInv, NEW c \in Call, NEW s \in {"dedupe", "write", "refresh"}, Busy(c), stage[c] \in {"look", "dedupe"},
           \A q \in Call : stage'[q] = IF q = c THEN s ELSE stage[q],
           UNCHANGED <<row, card, lock, ask, ended>>
    PROVE  LocksInv' /\ HoldsInv'
<1> USE DEF IndInv
<1>1. \A q \in Call : stage'[q] \in {"invalidate", "commit"} <=> stage[q] \in {"invalidate", "commit"}
  OBVIOUS
<1>2. \A q \in Call : stage'[q] = "commit" <=> stage[q] = "commit"
  OBVIOUS
<1>3. LocksInv'
  <2>1. \A x \in Lockable : \A q \in lock[x] : lock[x] = {q} /\ stage'[q] \in {"invalidate", "commit"}
    BY <1>1 DEF LocksInv, TypeOK
  <2>2. \A f \in Statement : SameFact(f)' = SameFact(f)
    BY DEF SameFact, Written
  <2>3. \A q \in Call : stage'[q] = "commit" /\ ask'[q].op = "fact" =>
          q \in lock'[ask'[q].statement] /\ SameFact(ask'[q].statement) = {}
    BY <1>2 DEF LocksInv
  <2>4. \A q \in Call : ask'[q].op = "fact" => ask'[q].statement \in Statement
    BY AskTypes DEF TypeOK
  <2>5. \A t \in Call : \A q \in lock'[t] : ask'[q].op = "finalize" /\ ask'[q].task = t /\ row'[t] = "active"
    BY DEF LocksInv
  <2>6. \A k \in Call \X Module : \A q \in lock'[k] : ask'[q].op = "sync" /\ card'[k] # NoCard
    BY DEF LocksInv
  <2> QED BY <2>1, <2>2, <2>3, <2>4, <2>5, <2>6 DEF LocksInv
<1>4. HoldsInv'
  BY <1>1, <1>2 DEF HoldsInv, Later
<1> QED BY <1>3, <1>4

\* Raced does not concern calls that are not accepted.
LEMMA RacedSame ==
    ASSUME UNCHANGED <<ask, begun, ended>>, \A q \in Call : Accepted(q, "sync")' <=> Accepted(q, "sync")
    PROVE  \A q \in Call : Raced(q)' <=> Raced(q)
BY DEF Raced, Overlap

\* The first look: a sync that passes it comes from the workspace that the project is
\* bound to, and so do the accepted ones that were in no race.
LEMMA BrainLooks ==
    ASSUME IndInv, NEW c \in Call, NEW s \in {"dedupe", "write", "refresh"}, stage[c] = "look",
           Alive(ProjectOf(c)), ask[c].op = "sync" => MayBind(ProjectOf(c), ask[c].root),
           s = "dedupe" => ask[c].op = "fact",
           s = "write" => ask[c].op # "sync",
           s = "refresh" => ask[c].op = "sync",
           To(c, s), UNCHANGED <<project, row, report, card, ask, preview, lock, begun, ended, late>>
    PROVE  IndInv'
<1> USE DEF IndInv
<1>1. Busy(c) /\ s \in Open
  BY DEF Busy, Open
<1>2. c \notin late
  BY DEF CallsInv, Alive
<1>3. /\ stage' \in [Call -> Stage]
      /\ \A q \in Call : stage'[q] = IF q = c THEN s ELSE stage[q]
      /\ CallsInv' /\ ReportsInv' /\ OrderInv' /\ FreshInv' /\ TwinsRaced' /\ OneFact'
  BY <1>1, <1>2, BrainAdvance
<1>4. TypeOK'
  BY <1>3 DEF TypeOK
<1>5. LocksInv' /\ HoldsInv'
  BY <1>1, <1>3, BrainReads
<1>6. RootsInv'
  <2>1. \A q \in Call : Accepted(q, "sync")' <=> Accepted(q, "sync")
    BY <1>3 DEF Accepted
  <2>2. \A q \in Call : Raced(q)' <=> Raced(q)
    BY <2>1, RacedSame
  <2>3. ASSUME NEW q \in Call, Accepted(q, "sync"), ~Raced(q), ask[c].op = "sync",
               ask[c].project = ask[q].project
        PROVE  ask[c].root = ask[q].root
    <3>1. project[ask[q].project].root = {ask[q].root}
      BY <2>3 DEF RootsInv
    <3>2. project[ask[c].project].root \subseteq {ask[c].root}
      BY <2>3 DEF MayBind, ProjectOf, About
    <3> QED BY <2>3, <3>1, <3>2
  <2>4. \A q \in Call : q # c => stage'[q] = stage[q]
    BY <1>3
  <2> QED BY <2>1, <2>2, <2>3, <2>4 DEF RootsInv, Later
<1> QED BY <1>3, <1>4, <1>5, <1>6

\* A call that ends without a trace.
LEMMA BrainRefuse ==
    ASSUME IndInv, NEW c \in Call, Busy(c), Refuse(c), UNCHANGED <<project, row, report, card, preview>>
    PROVE  IndInv'
<1> USE DEF IndInv
<1>1. /\ stage' \in [Call -> Stage] /\ ask' \in [Call -> Ask \cup {NoAsk}]
      /\ lock' \in [Lockable -> SUBSET Call]
      /\ begun' \in [Call -> SUBSET Call] /\ ended' \in [Call -> SUBSET Call] /\ late' \in SUBSET Call
  BY DEF Refuse, To, Released, TypeOK, Stage
<1>2. \A q \in Call :
        /\ stage'[q] = IF q = c THEN "refused" ELSE stage[q]
        /\ ask'[q] = IF q = c THEN NoAsk ELSE ask[q]
  BY DEF Refuse, To, TypeOK
<1>0. \A q \in Call :
        /\ begun'[q] = IF q = c THEN {} ELSE begun[q] \ {c}
        /\ ended'[q] = IF q = c THEN {} ELSE ended[q]
  BY DEF Refuse, TypeOK
<1>3. \A x \in Lockable : lock'[x] = lock[x] \ {c}
  BY DEF Refuse, Released
<1>4. stage[c] \notin {"idle", "accepted", "refused"} /\ row[c] = "absent"
  BY DEF Busy, Open, CallsInv
<1>5. /\ \A q \in Call : Accepted(q, "sync")' <=> Accepted(q, "sync")
      /\ \A q \in Call : Accepted(q, "finalize")' <=> Accepted(q, "finalize")
      /\ \A q \in Call : Written(q, "start")' <=> Written(q, "start")
      /\ \A q \in Call : Written(q, "fact")' <=> Written(q, "fact")
  BY <1>2, <1>4 DEF Accepted, Written
<1>6. \A k \in Call \X Module : card[k] # NoCard => k[1] # c /\ k[1] \in Call
  BY <1>4, Lockables DEF CallsInv, Accepted
<1>7. \A q \in Call : stage[q] = "accepted" => q # c
  BY <1>4
<1>8. /\ \A d, q \in Call : stage[d] = "accepted" /\ stage[q] = "accepted" =>
            (Overlap(d, q)' <=> Overlap(d, q))
      /\ \A d \in Call : stage[d] = "accepted" /\ Raced(d) => Raced(d)'
  <2>1. \A q \in Call : stage[q] = "accepted" => stage'[q] = "accepted" /\ ask'[q] = ask[q]
    BY <1>2, <1>4
  <2>2. \A d, q \in Call : stage[d] = "accepted" /\ stage[q] = "accepted" =>
          (d \in begun'[q] <=> d \in begun[q]) /\ (d \in ended'[q] <=> d \in ended[q])
    BY <1>0, <1>7
  <2> QED BY <2>1, <2>2, RacesStay
<1>9. TypeOK'
  BY <1>1 DEF TypeOK
<1>10. CallsInv'
  <2>1. \A q \in Call :
          /\ stage'[q] \in {"idle", "refused"} <=> ask'[q] = NoAsk
          /\ stage'[q] = "dedupe" => ask'[q].op = "fact"
          /\ stage'[q] = "write" => ask'[q].op # "sync"
          /\ stage'[q] \in {"refresh", "invalidate"} => ask'[q].op = "sync"
          /\ row'[q] # "absent" => stage'[q] = "accepted"
    BY <1>2, <1>4 DEF CallsInv
  <2>2. \A q \in Call : ask'[q].op \in {"checkpoint", "finalize"} =>
          q # c /\ ask'[q] = ask[q] /\ ask[q].task \in Call /\ Written(ask[q].task, "start")
    BY <1>2, AskTypes DEF CallsInv, TypeOK
  <2>3. \A q \in Call : ask'[q].op \in {"checkpoint", "finalize"} =>
          row[ask[q].task] # "absent" /\ ask'[ask[q].task].op = "start"
    <3> SUFFICES ASSUME NEW q \in Call, ask'[q].op \in {"checkpoint", "finalize"}
                 PROVE  row[ask[q].task] # "absent" /\ ask'[ask[q].task].op = "start"
      OBVIOUS
    <3>1. ask[q].task \in Call /\ row[ask[q].task] # "absent" /\ ask[ask[q].task].op = "start"
      BY <2>2 DEF Written
    <3> QED BY <1>2, <1>4, <3>1
  <2>4. \A k \in Call \X Module : card'[k] # NoCard => Accepted(k[1], "sync")'
    BY <1>5, <1>6 DEF CallsInv
  <2>5. \A q \in late' : q # c /\ q \in late /\ q \in Call /\ stage'[q] = "look"
    BY <1>2 DEF CallsInv, Refuse, TypeOK
  <2>6. \A q \in late' : ProjectOf(q)' = ProjectOf(q)
    <3> SUFFICES ASSUME NEW q \in late' PROVE ProjectOf(q)' = ProjectOf(q)
      OBVIOUS
    <3>1. q \in Call /\ ask'[q] = ask[q]
      BY <1>2, <2>5
    <3>2. ask[q].op \in {"checkpoint", "finalize"} => ask[q].task \in Call /\ ask'[ask[q].task] = ask[ask[q].task]
      BY <1>2, <1>4, <2>2, <3>1 DEF Written
    <3> QED BY <3>1, <3>2 DEF ProjectOf, About
  <2>7. \A q \in late' : project'[ProjectOf(q)'].state = "deleted"
    BY <2>5, <2>6 DEF CallsInv
  <2>8. \A q \in Call : ask'[q].op \in {"checkpoint", "finalize"} => Written(ask[q].task, "start")'
    BY <2>2, <2>3 DEF Written
  <2> QED BY <2>1, <2>4, <2>5, <2>7, <2>8 DEF CallsInv
<1>11. LocksInv'
  <2>1. \A x \in Lockable : \A q \in lock'[x] : lock'[x] = {q} /\ stage'[q] \in {"invalidate", "commit"}
    BY <1>2, <1>3 DEF LocksInv, TypeOK
  <2>2. \A x \in Lockable : \A q \in lock'[x] : q \in lock[x] /\ q # c /\ q \in Call /\ ask'[q] = ask[q]
    BY <1>2, <1>3 DEF TypeOK
  <2>3. \A t \in Call : \A q \in lock'[t] : ask'[q].op = "finalize" /\ ask'[q].task = t /\ row'[t] = "active"
    BY <2>2, Lockables DEF LocksInv
  <2>4. \A k \in Call \X Module : \A q \in lock'[k] : ask'[q].op = "sync" /\ card'[k] # NoCard
    BY <2>2, Lockables DEF LocksInv
  <2>5. \A f \in Statement : SameFact(f)' = SameFact(f)
    BY <1>2, <1>4 DEF SameFact, Written
  <2>6. ASSUME NEW q \in Call, stage'[q] = "commit", ask'[q].op = "fact"
        PROVE  q \in lock'[ask'[q].statement] /\ SameFact(ask[q].statement)' = {} /\ ask'[q] = ask[q]
    <3> DEFINE f == ask[q].statement
    <3>1. q # c /\ ask'[q] = ask[q] /\ stage[q] = "commit" /\ ask[q].op = "fact" /\ f \in Statement
      BY <1>2, <2>6, AskTypes DEF TypeOK
    <3>2. q \in lock[f] /\ SameFact(f) = {} /\ f \in Lockable
      BY <3>1, Lockables DEF LocksInv
    <3>3. ask'[q].statement = f
      BY <3>1
    <3> HIDE DEF f
    <3> QED BY <1>3, <2>5, <3>1, <3>2, <3>3
  <2> QED BY <2>1, <2>3, <2>4, <2>6 DEF LocksInv
<1>12. ReportsInv'
  <2>1. \A p \in Project : \A facts \in preview[p] : \A q \in facts : q \in Call /\ ask'[q] = ask[q]
    BY <1>2, <1>4 DEF ReportsInv, TypeOK
  <2> QED BY <1>5, <2>1 DEF ReportsInv, TypeOK
<1>13. OrderInv'
  BY <1>0, <1>2, <1>5, AskTypes DEF OrderInv, Later
<1>14. RootsInv'
  <2>1. \A d \in Call : Accepted(d, "sync")' /\ ~Raced(d)' => Accepted(d, "sync") /\ ~Raced(d) /\ ask'[d] = ask[d]
    BY <1>2, <1>5, <1>7, <1>8 DEF Accepted
  <2>2. \A q \in Call : ask'[q].op = "sync" => q # c
    BY <1>2, AskTypes
  <2>3. \A q \in Call : ask'[q].op = "sync" =>
          ask'[q] = ask[q] /\ stage'[q] = stage[q] /\ ended'[q] = ended[q]
    BY <1>0, <1>2, <2>2
  <2> QED BY <2>1, <2>3 DEF RootsInv, Later
<1>15. HoldsInv'
  <2>1. \A q \in Call : ask'[q].op = "sync" =>
          q # c /\ ask'[q] = ask[q] /\ stage'[q] = stage[q] /\ ended'[q] = ended[q]
    BY <1>0, <1>2, AskTypes
  <2>2. \A x \in Lockable, q \in Call : q # c => (q \in lock'[x] <=> q \in lock[x])
    BY <1>3
  <2>3. \A k \in Call \X Module : card[k] # NoCard => ask'[k[1]] = ask[k[1]]
    BY <1>2, <1>6
  <2> SUFFICES ASSUME NEW q \in Call, NEW k \in Call \X Module,
                      ask'[q].op = "sync", card[k] # NoCard, ask'[k[1]].project = ask'[q].project
               PROVE  /\ stage'[q] \in {"invalidate", "commit"} /\ k[2] \in ask'[q].modules /\ Later(k[1], q)'
                           => \E d \in Call : q \in lock'[<<d, k[2]>>]
                      /\ stage'[q] = "commit" /\ k[2] \in ask'[q].changed \ ask'[q].modules /\ Later(card[k].by, q)'
                           => q \in lock'[k]
    BY DEF HoldsInv
  <2>4. \A d \in Call : <<d, k[2]>> \in Lockable
    BY Lockables
  <2>5. /\ stage[q] \in {"invalidate", "commit"} /\ k[2] \in ask[q].modules /\ Later(k[1], q)
             => \E d \in Call : q \in lock[<<d, k[2]>>]
        /\ stage[q] = "commit" /\ k[2] \in ask[q].changed \ ask[q].modules /\ Later(card[k].by, q)
             => q \in lock[k]
    BY <2>1, <2>3 DEF HoldsInv
  <2> QED BY <2>1, <2>2, <2>4, <2>5, Lockables DEF Later
<1>16. FreshInv'
  <2>1. \A q \in Call : Accepted(q, "sync")' => Accepted(q, "sync") /\ ask'[q] = ask[q] /\ ended'[q] = ended[q]
    BY <1>0, <1>2, <1>5, <1>7 DEF Accepted
  <2>2. \A k \in Call \X Module : card[k].freshness = "fresh" => ask'[k[1]] = ask[k[1]]
    BY <1>2, <1>6, AskTypes
  <2> QED BY <2>1, <2>2 DEF FreshInv, Later
<1>17. TwinsRaced'
  <2>1. \A k \in Call \X Module : card[k] # NoCard =>
          k[1] \in Call /\ stage[k[1]] = "accepted" /\ ask'[k[1]] = ask[k[1]]
    BY <1>2, <1>6 DEF CallsInv, Accepted
  <2> QED BY <1>8, <2>1 DEF TwinsRaced
<1>18. OneFact'
  BY <1>2, <1>4, <1>5 DEF OneFact, Written
<1> QED BY <1>9, <1>10, <1>11, <1>12, <1>13, <1>14, <1>15, <1>16, <1>17, <1>18

\* A call that writes: what it locks is its own to lock, and a sync holds the cards
\* that it has to.
LEMMA BrainWrites ==
    ASSUME IndInv, NEW c \in Call, NEW s \in {"invalidate", "commit"}, To(c, s),
           stage[c] \in {"write", "refresh", "invalidate"},
           s = "invalidate" => ask[c].op = "sync",
           NEW X \in SUBSET Lockable, \A x \in X : Free(x, c), Take(X, c),
           \A t \in X : t \in Call => ask[c].op = "finalize" /\ ask[c].task = t /\ row[t] = "active",
           \A k \in X : k \in Call \X Module => ask[c].op = "sync" /\ card[k] # NoCard,
           ask[c].op = "fact" => ask[c].statement \in X /\ SameFact(ask[c].statement) = {},
           ask[c].op = "sync" =>
               \A k \in CardsOf(ask[c].project) :
                   /\ k[2] \in ask[c].modules /\ Later(k[1], c) =>
                         \E d \in Call : c \in lock[<<d, k[2]>>] \/ <<d, k[2]>> \in X
                   /\ s = "commit" /\ k[2] \in ask[c].changed \ ask[c].modules => k \in X,
           UNCHANGED <<project, row, report, card, ask, preview, begun, ended, late>>
    PROVE  IndInv'
<1> USE DEF IndInv
<1>1. Busy(c) /\ s \in Open /\ stage[c] # "look"
  BY DEF Busy, Open
<1>2. c \notin late
  BY DEF CallsInv
<1>3. /\ stage' \in [Call -> Stage]
      /\ \A q \in Call : stage'[q] = IF q = c THEN s ELSE stage[q]
      /\ CallsInv' /\ ReportsInv' /\ OrderInv' /\ RootsInv' /\ FreshInv' /\ TwinsRaced' /\ OneFact'
  BY <1>1, <1>2, BrainAdvance
<1>4. /\ lock' \in [Lockable -> SUBSET Call]
      /\ \A x \in Lockable, q \in Call : q \in lock'[x] <=> q \in lock[x] \/ (q = c /\ x \in X)
      /\ \A x \in Lockable : \A q \in lock'[x] : lock'[x] = {q} /\ stage'[q] \in {"invalidate", "commit"}
  <2>1. /\ lock' \in [Lockable -> SUBSET Call]
        /\ \A x \in Lockable : lock'[x] = IF x \in X THEN {c} ELSE lock[x]
    BY DEF Take, TypeOK
  <2>2. \A x \in Lockable, q \in Call : q \in lock'[x] <=> q \in lock[x] \/ (q = c /\ x \in X)
    BY <2>1 DEF Free
  <2>3. \A x \in Lockable : \A q \in lock'[x] : lock'[x] = {q} /\ stage'[q] \in {"invalidate", "commit"}
    BY <1>3, <2>1 DEF LocksInv, TypeOK
  <2> QED BY <2>1, <2>2, <2>3
<1>5. TypeOK'
  BY <1>3, <1>4 DEF TypeOK
<1>6. \A x \in Lockable : \A q \in lock'[x] : q \in Call
  BY <1>4
<1>7. LocksInv'
  <2>1. \A t \in Call : \A q \in lock'[t] : ask'[q].op = "finalize" /\ ask'[q].task = t /\ row'[t] = "active"
    BY <1>4, <1>6, Lockables DEF LocksInv
  <2>2. \A k \in Call \X Module : \A q \in lock'[k] : ask'[q].op = "sync" /\ card'[k] # NoCard
    BY <1>4, <1>6, Lockables DEF LocksInv
  <2>3. \A f \in Statement : SameFact(f)' = SameFact(f)
    BY DEF SameFact, Written
  <2>4. ASSUME NEW q \in Call, stage'[q] = "commit", ask[q].op = "fact"
        PROVE  q \in lock'[ask[q].statement] /\ SameFact(ask[q].statement) = {}
    <3>1. ask[q].statement \in Statement /\ ask[q].statement \in Lockable
      BY <2>4, AskTypes, Lockables DEF TypeOK
    <3>2. CASE q = c
      BY <1>4, <2>4, <3>1, <3>2
    <3>3. CASE q # c
      BY <1>3, <1>4, <2>4, <3>1, <3>3 DEF LocksInv
    <3> QED BY <3>2, <3>3
  <2>5. \A q \in Call : ask[q].op = "fact" => ask[q].statement \in Statement
    BY AskTypes DEF TypeOK
  <2>6. \A q \in Call : stage'[q] = "commit" /\ ask'[q].op = "fact" =>
          q \in lock'[ask'[q].statement] /\ SameFact(ask[q].statement)' = {}
    BY <2>3, <2>4, <2>5
  <2> QED BY <1>4, <2>1, <2>2, <2>6 DEF LocksInv
<1>8. HoldsInv'
  <2> SUFFICES ASSUME NEW q \in Call, NEW k \in Call \X Module,
                      ask[q].op = "sync", card[k] # NoCard, ask[k[1]].project = ask[q].project
               PROVE  /\ stage'[q] \in {"invalidate", "commit"} /\ k[2] \in ask[q].modules /\ Later(k[1], q)
                           => \E d \in Call : q \in lock'[<<d, k[2]>>]
                      /\ stage'[q] = "commit" /\ k[2] \in ask[q].changed \ ask[q].modules /\ Later(card[k].by, q)
                           => q \in lock'[k]
    BY DEF HoldsInv, Later
  <2>1. k \in Lockable /\ \A d \in Call : <<d, k[2]>> \in Lockable
    BY Lockables
  <2>2. CASE q = c
    <3>1. k \in CardsOf(ask[c].project)
      BY <2>2 DEF CardsOf
    <3> QED BY <1>3, <1>4, <2>1, <2>2, <3>1
  <2>3. CASE q # c
    BY <1>3, <1>4, <2>1, <2>3 DEF HoldsInv
  <2> QED BY <2>2, <2>3
<1> QED BY <1>3, <1>5, <1>7, <1>8

\* The first look at the project.
LEMMA BrainLook == ASSUME NEW c \in Call, IndInv, Look(c) PROVE IndInv'
<1> USE DEF IndInv
<1>1. stage[c] = "look" /\ UNCHANGED <<project, row, report, card, preview>>
  BY DEF Look
<1>2. CASE Refuse(c)
  BY <1>1, <1>2, BrainRefuse DEF Busy
<1>3. CASE ~Refuse(c)
  <2> DEFINE s == CASE ask[c].op = "fact" -> "dedupe" [] ask[c].op = "sync" -> "refresh" [] OTHER -> "write"
  <2>1. /\ Alive(ProjectOf(c)) /\ (ask[c].op = "sync" => MayBind(ProjectOf(c), ask[c].root))
        /\ To(c, s) /\ UNCHANGED <<ask, lock, begun, ended, late>>
    BY <1>3 DEF Look
  <2>2. /\ s \in {"dedupe", "write", "refresh"}
        /\ s = "dedupe" => ask[c].op = "fact"
        /\ s = "write" => ask[c].op # "sync"
        /\ s = "refresh" => ask[c].op = "sync"
    OBVIOUS
  <2> HIDE DEF s
  <2> QED BY <1>1, <2>1, <2>2, BrainLooks
<1> QED BY <1>2, <1>3

\* The second look of a fact.
LEMMA BrainDedupe == ASSUME NEW c \in Call, IndInv, Dedupe(c) PROVE IndInv'
<1> USE DEF IndInv
<1>1. stage[c] = "dedupe" /\ UNCHANGED <<project, row, report, card, preview>>
  BY DEF Dedupe
<1>2. Busy(c) /\ "write" \in Open
  BY <1>1 DEF Busy, Open
<1>3. CASE Refuse(c)
  BY <1>1, <1>2, <1>3, BrainRefuse
<1>4. CASE To(c, "write") /\ UNCHANGED <<ask, lock, begun, ended, late>>
  <2>1. ask[c].op = "fact" /\ c \notin late
    BY <1>1 DEF CallsInv
  <2>2. /\ stage' \in [Call -> Stage]
        /\ \A q \in Call : stage'[q] = IF q = c THEN "write" ELSE stage[q]
        /\ CallsInv' /\ ReportsInv' /\ OrderInv' /\ RootsInv' /\ FreshInv' /\ TwinsRaced' /\ OneFact'
    BY <1>1, <1>2, <1>4, <2>1, BrainAdvance
  <2>3. LocksInv' /\ HoldsInv'
    BY <1>1, <1>2, <1>4, <2>2, BrainReads
  <2>4. TypeOK'
    BY <1>1, <1>4, <2>2 DEF TypeOK
  <2> QED BY <2>2, <2>3, <2>4
<1> QED BY <1>3, <1>4 DEF Dedupe

\* The INSERT of a fact.
LEMMA BrainWriteFact == ASSUME NEW c \in Call, IndInv, WriteFact(c) PROVE IndInv'
<1> USE DEF IndInv
<1>1. /\ stage[c] = "write" /\ ask[c].op = "fact" /\ Free(ask[c].statement, c)
      /\ UNCHANGED <<project, row, report, card, preview>>
  BY DEF WriteFact
<1>2. ask[c].statement \in Statement
  BY <1>1, AskTypes DEF TypeOK
<1>3. CASE Refuse(c)
  BY <1>1, <1>3, BrainRefuse DEF Busy, Open
<1>4. CASE ~Refuse(c)
  <2> DEFINE X == {ask[c].statement}
  <2>1. /\ SameFact(ask[c].statement) = {}
        /\ To(c, "commit") /\ Take(X, c) /\ UNCHANGED <<ask, begun, ended, late>>
    BY <1>4 DEF WriteFact
  <2>2. /\ X \in SUBSET Lockable /\ \A x \in X : x \notin Call /\ x \notin Call \X Module /\ Free(x, c)
        /\ ask[c].statement \in X
    BY <1>1, <1>2, Lockables
  <2> HIDE DEF X
  <2> QED BY <1>1, <2>1, <2>2, BrainWrites
<1> QED BY <1>3, <1>4

\* Nothing is locked by a step that leaves the locks as they are.
LEMMA TakeNothing == ASSUME TypeOK, NEW c \in Call, lock' = lock PROVE Take({}, c)
BY DEF TypeOK, Take

\* The INSERT of a task or of a checkpoint.
LEMMA BrainWriteRow == ASSUME NEW c \in Call, IndInv, WriteRow(c) PROVE IndInv'
<1> USE DEF IndInv
<1>1. /\ stage[c] = "write" /\ ask[c].op # "fact" /\ ask[c].op # "sync" /\ To(c, "commit")
      /\ UNCHANGED <<project, row, report, card, ask, preview, begun, ended, late>>
      /\ lock' = lock
  BY DEF WriteRow
<1>2. Take({}, c)
  BY <1>1, TakeNothing
<1> QED BY <1>1, <1>2, BrainWrites

\* The report that ends a task: the guarded UPDATE locks the task while it is active.
LEMMA BrainWriteReport == ASSUME NEW c \in Call, IndInv, WriteReport(c) PROVE IndInv'
<1> USE DEF IndInv
<1>1. /\ stage[c] = "write" /\ ask[c].op = "finalize" /\ To(c, "commit") /\ Free(ask[c].task, c)
      /\ UNCHANGED <<project, row, report, card, ask, preview, begun, ended, late>>
  BY DEF WriteReport
<1>2. ask[c].task \in Call
  BY <1>1, AskTypes DEF TypeOK
<1>3. CASE lock' = lock
  <2>1. Take({}, c)
    BY <1>3, TakeNothing
  <2> QED BY <1>1, <2>1, BrainWrites
<1>4. CASE Unfinished(ask[c].task) /\ Take({ask[c].task}, c)
  <2> DEFINE X == {ask[c].task}
  <2>1. /\ X \in SUBSET Lockable
        /\ \A x \in X : x = ask[c].task /\ x \notin Call \X Module /\ Free(x, c) /\ row[x] = "active"
    BY <1>1, <1>2, <1>4, Lockables DEF Unfinished
  <2>2. Take(X, c)
    BY <1>4
  <2> HIDE DEF X
  <2> QED BY <1>1, <2>1, <2>2, BrainWrites
<1> QED BY <1>3, <1>4 DEF WriteReport

\* The cards that the payload brings are locked, every one that there is.
LEMMA BrainRefresh == ASSUME NEW c \in Call, IndInv, Refresh(c) PROVE IndInv'
<1> USE DEF IndInv
<1>1. stage[c] = "refresh" /\ UNCHANGED <<project, row, report, card, preview>>
  BY DEF Refresh
<1>2. ask[c].op = "sync"
  BY <1>1 DEF CallsInv
<1>3. CASE Refuse(c)
  BY <1>1, <1>3, BrainRefuse DEF Busy, Open
<1>4. CASE ~Refuse(c)
  <2> DEFINE X == UNION {Named(ask[c].project, m) : m \in ask[c].modules}
  <2>1. /\ \A x \in X : Free(x, c)
        /\ Take(X, c) /\ To(c, "invalidate") /\ UNCHANGED <<ask, begun, ended, late>>
    BY <1>4 DEF Refresh
  <2>2. \A x \in X : x \in Call \X Module /\ card[x] # NoCard
    BY DEF Named, CardsOf
  <2>3. \A k \in CardsOf(ask[c].project) : k[2] \in ask[c].modules => k \in X
    BY DEF Named
  <2> HIDE DEF X
  <2>4. X \in SUBSET Lockable /\ \A x \in X : x \notin Call
    BY <2>2, Lockables
  <2>5. \A k \in CardsOf(ask[c].project) : k[1] \in Call /\ k = <<k[1], k[2]>>
    BY Lockables DEF CardsOf
  <2>6. \A k \in CardsOf(ask[c].project) : k[2] \in ask[c].modules => \E d \in Call : <<d, k[2]>> \in X
    BY <2>3, <2>5
  <2> QED BY <1>1, <1>2, <2>1, <2>2, <2>4, <2>6, BrainWrites
<1> QED BY <1>3, <1>4

\* The cards that the payload does not bring and saw changed are locked, with the project.
LEMMA BrainInvalidate == ASSUME NEW c \in Call, IndInv, Invalidate(c) PROVE IndInv'
<1> USE DEF IndInv
<1> DEFINE X == Touched(c) \cup {ask[c].project}
<1>1. /\ stage[c] = "invalidate" /\ To(c, "commit") /\ Take(X, c) /\ \A x \in X : Free(x, c)
      /\ UNCHANGED <<project, row, report, card, ask, preview, begun, ended, late>>
  BY DEF Invalidate
<1>2. ask[c].op = "sync"
  BY <1>1 DEF CallsInv
<1>3. ask[c].project \in Project
  BY <1>2, AskTypes DEF TypeOK
<1>4. \A x \in X : (x \in Call \X Module /\ card[x] # NoCard) \/ x \in Project
  BY <1>3 DEF Touched, CardsOf
<1>5. \A k \in CardsOf(ask[c].project) : k[2] \in ask[c].changed \ ask[c].modules => k \in X
  BY DEF Touched
<1> HIDE DEF X
<1>6. /\ X \in SUBSET Lockable /\ \A x \in X : x \notin Call
      /\ \A x \in X : x \in Call \X Module => card[x] # NoCard
  BY <1>4, Lockables
<1>7. \A k \in CardsOf(ask[c].project) : k[2] \in ask[c].modules /\ Later(k[1], c) =>
        \E d \in Call : c \in lock[<<d, k[2]>>]
  BY <1>1, <1>2 DEF HoldsInv, CardsOf
<1> QED BY <1>1, <1>2, <1>5, <1>6, <1>7, BrainWrites

\* What a sync's commit does to a card: nothing, or the card is the sync's now, new if it
\* held none of that name, or it is stale and was the sync's to touch.
LEMMA CardsCommit ==
    ASSUME IndInv, NEW c \in Call, NEW k \in Call \X Module, stage[c] = "commit", ask[c].op = "sync",
           card' = CardsAfter(c)
    PROVE  /\ card'[k] \in Card \cup {NoCard}
           /\ card[k] # NoCard => card'[k] # NoCard
           /\ card[k] = NoCard /\ card'[k] # NoCard =>
                 /\ k[1] = c /\ k[2] \in ask[c].modules
                 /\ \A d \in Call : c \notin lock[<<d, k[2]>>]
           /\ \/ card'[k] = card[k] /\ c \notin lock[k]
              \/ card'[k].by = c
              \/ /\ c \in lock[k] /\ card'[k].by = card[k].by /\ card'[k].freshness = "stale"
<1> USE DEF IndInv
<1>1. card[k] \in Card \cup {NoCard} /\ (c \in lock[k] => card[k] \in Card)
  <2>1. card[k] \in Card \cup {NoCard}
    BY DEF TypeOK
  <2> QED BY <2>1 DEF LocksInv
<1>2. Refreshed(c) \in Card /\ Refreshed(c) # NoCard /\ Refreshed(c).by = c
  BY DEF Refreshed, Freshness, Card, NoCard
<1>3. card'[k] = IF k[2] \in ask[c].modules /\ c \in lock[k] THEN Refreshed(c)
                 ELSE IF c \in lock[k] THEN [card[k] EXCEPT !.freshness = "stale"]
                 ELSE IF k \in {c} \X ask[c].modules /\ ~\E q \in Call : c \in lock[<<q, k[2]>>] THEN Refreshed(c)
                 ELSE card[k]
  BY DEF CardsAfter
<1>4. CASE c \in lock[k] /\ k[2] \in ask[c].modules
  BY <1>1, <1>2, <1>3, <1>4, AskTypes
<1>5. CASE c \in lock[k] /\ k[2] \notin ask[c].modules
  <2> DEFINE new == [card[k] EXCEPT !.freshness = "stale"]
  <2>1. new \in Card /\ new.by = card[k].by /\ new.freshness = "stale" /\ new # NoCard /\ card[k] # NoCard
    BY <1>1, <1>5 DEF Card, NoCard
  <2>2. card'[k] = new
    BY <1>3, <1>5
  <2> HIDE DEF new
  <2> QED BY <1>5, <2>1, <2>2
<1>6. CASE /\ c \notin lock[k] /\ k \in {c} \X ask[c].modules
           /\ ~\E q \in Call : c \in lock[<<q, k[2]>>]
  <2>1. k[1] = c /\ k[2] \in ask[c].modules
    BY <1>6
  <2>2. card'[k] = Refreshed(c)
    BY <1>3, <1>6
  <2> QED BY <1>2, <1>6, <2>1, <2>2
<1>7. CASE c \notin lock[k] /\ card'[k] = card[k]
  BY <1>1, <1>7
<1> QED BY <1>3, <1>4, <1>5, <1>6, <1>7

\* Locks that a call gives up.
LEMMA BrainReleases ==
    ASSUME IndInv, NEW c \in Call, lock' = Released(c), \A q \in Call : q # c => stage'[q] = stage[q]
    PROVE  /\ lock' \in [Lockable -> SUBSET Call]
           /\ \A x \in Lockable, q \in Call : q \in lock'[x] <=> q \in lock[x] /\ q # c
           /\ \A x \in Lockable : \A q \in lock'[x] : q \in Call /\ q # c /\ q \in lock[x]
           /\ \A x \in Lockable : \A q \in lock'[x] : lock'[x] = {q} /\ stage'[q] \in {"invalidate", "commit"}
<1> USE DEF IndInv
<1>1. lock' \in [Lockable -> SUBSET Call] /\ \A x \in Lockable : lock'[x] = lock[x] \ {c}
  BY DEF Released, TypeOK
<1>2. \A x \in Lockable : \A q \in lock'[x] : q \in Call /\ q # c /\ q \in lock[x]
  BY <1>1
<1>3. \A x \in Lockable : \A q \in lock'[x] : lock'[x] = {q} /\ stage'[q] \in {"invalidate", "commit"}
  <2> SUFFICES ASSUME NEW x \in Lockable, NEW q \in lock'[x]
               PROVE  lock'[x] = {q} /\ stage'[q] \in {"invalidate", "commit"}
    OBVIOUS
  <2>1. lock[x] = {q} /\ stage[q] \in {"invalidate", "commit"} /\ q # c /\ q \in Call
    BY <1>2 DEF LocksInv
  <2> QED BY <1>1, <2>1
<1> QED BY <1>1, <1>2, <1>3

\* A sync is accepted: the project is bound to its workspace and its cards are written.
LEMMA BrainCommitSync == ASSUME NEW c \in Call, IndInv, CommitSync(c) PROVE IndInv'
<1> USE DEF IndInv
<1>1. /\ stage[c] = "commit" /\ ask[c].op = "sync" /\ card' = CardsAfter(c) /\ lock' = Released(c)
      /\ To(c, "accepted") /\ UNCHANGED <<row, report, ask, preview, begun, ended, late>>
  BY DEF CommitSync
<1>2. ask[c].project \in Project /\ ask[c].root \in Root /\ ask[c].modules \subseteq Module
  <2>1. ask[c] \in Ask \cup {NoAsk}
    BY DEF TypeOK
  <2> QED BY <1>1, <2>1 DEF Ask, NoAsk
<1>3. /\ project' \in [Project -> [state : {"absent", "active", "deleted"}, root : SUBSET Root,
                                   evidence : SUBSET Call]]
      /\ \A p \in Project : /\ project'[p].state = project[p].state
                            /\ project'[p].root = IF p = ask[c].project THEN {ask[c].root} ELSE project[p].root
  <2> DEFINE new == [project[ask[c].project] EXCEPT !.root = {ask[c].root}, !.evidence = {c}]
  <2>1. project[ask[c].project] \in [state : {"absent", "active", "deleted"}, root : SUBSET Root,
                                     evidence : SUBSET Call]
    BY <1>2 DEF TypeOK
  <2>2. /\ new \in [state : {"absent", "active", "deleted"}, root : SUBSET Root, evidence : SUBSET Call]
        /\ new.root = {ask[c].root} /\ new.state = project[ask[c].project].state
    BY <1>2, <2>1
  <2>3. project' = [project EXCEPT ![ask[c].project] = new]
    BY <1>2 DEF CommitSync, TypeOK
  <2> HIDE DEF new
  <2> QED BY <1>2, <2>2, <2>3 DEF TypeOK
<1>4. /\ stage' \in [Call -> Stage]
      /\ \A q \in Call : stage'[q] = IF q = c THEN "accepted" ELSE stage[q]
  BY <1>1 DEF To, TypeOK, Stage
<1>5. /\ lock' \in [Lockable -> SUBSET Call]
      /\ \A x \in Lockable, q \in Call : q \in lock'[x] <=> q \in lock[x] /\ q # c
      /\ \A x \in Lockable : \A q \in lock'[x] : q \in Call /\ q # c /\ q \in lock[x]
      /\ \A x \in Lockable : \A q \in lock'[x] : lock'[x] = {q} /\ stage'[q] \in {"invalidate", "commit"}
  <2>1. \A q \in Call : q # c => stage'[q] = stage[q]
    BY <1>4
  <2> QED BY <1>1, <2>1, BrainReleases
<1>6. \A k \in Call \X Module :
        /\ card'[k] \in Card \cup {NoCard}
        /\ card[k] # NoCard => card'[k] # NoCard
        /\ card[k] = NoCard /\ card'[k] # NoCard =>
              /\ k[1] = c /\ k[2] \in ask[c].modules
              /\ \A d \in Call : c \notin lock[<<d, k[2]>>]
        /\ \/ card'[k] = card[k] /\ c \notin lock[k]
           \/ card'[k].by = c
           \/ /\ c \in lock[k] /\ card'[k].by = card[k].by /\ card'[k].freshness = "stale"
  BY <1>1, CardsCommit
<1>7. TypeOK'
  <2>1. card' \in [Call \X Module -> Card \cup {NoCard}]
    BY <1>1, <1>6 DEF CardsAfter
  <2> QED BY <1>1, <1>3, <1>4, <1>5, <2>1 DEF TypeOK
<1>8. /\ \A q \in Call : Accepted(q, "sync")' <=> Accepted(q, "sync") \/ q = c
      /\ \A q \in Call : Accepted(q, "finalize")' <=> Accepted(q, "finalize")
      /\ \A q \in Call : ~Later(c, q)
      /\ ~Accepted(c, "sync")
  BY <1>1, <1>4 DEF Accepted, OrderInv
<1>9. /\ \A d, q \in Call : Overlap(d, q)' <=> Overlap(d, q)
      /\ \A d \in Call : Raced(d) => Raced(d)'
  <2>1. \A d, q \in Call : Overlap(d, q)' <=> Overlap(d, q)
    BY <1>1 DEF Overlap
  <2> QED BY <1>1, <1>8, <2>1 DEF Raced
<1>10. CallsInv'
  <2>1. \A q \in Call :
          /\ stage'[q] \in {"idle", "refused"} <=> ask'[q] = NoAsk
          /\ stage'[q] = "dedupe" => ask'[q].op = "fact"
          /\ stage'[q] = "write" => ask'[q].op # "sync"
          /\ stage'[q] \in {"refresh", "invalidate"} => ask'[q].op = "sync"
          /\ row'[q] # "absent" => stage'[q] = "accepted"
    BY <1>1, <1>4 DEF CallsInv
  <2>2. \A q \in Call : ask'[q].op \in {"checkpoint", "finalize"} => Written(ask[q].task, "start")'
    BY <1>1 DEF CallsInv, Written
  <2>3. \A k \in Call \X Module : card'[k] # NoCard => Accepted(k[1], "sync")'
    BY <1>6, <1>8, Lockables DEF CallsInv
  <2>4. \A q \in late : ProjectOf(q)' = ProjectOf(q) /\ ProjectOf(q) \in Project /\ q \in Call /\ q # c
    <3> SUFFICES ASSUME NEW q \in late
                 PROVE  ProjectOf(q)' = ProjectOf(q) /\ ProjectOf(q) \in Project /\ q \in Call /\ q # c
      OBVIOUS
    <3>1. q \in Call /\ stage[q] = "look"
      BY DEF CallsInv, TypeOK
    <3>2. ProjectOf(q)' = ProjectOf(q)
      BY <1>1 DEF ProjectOf, About
    <3>3. ask[q] \in Ask \cup {NoAsk} /\ ask[q] # NoAsk
      BY <3>1 DEF TypeOK, CallsInv
    <3>4. CASE ask[q].op \in {"checkpoint", "finalize"}
      <4>1. ask[q].task \in Call /\ ask[ask[q].task] \in Ask \cup {NoAsk} /\ ask[ask[q].task].op = "start"
        BY <3>1, <3>3, <3>4, AskTypes DEF CallsInv, Written, TypeOK
      <4> QED BY <1>1, <3>1, <3>2, <3>4, <4>1, AskTypes DEF ProjectOf, About
    <3>5. CASE ask[q].op \notin {"checkpoint", "finalize"}
      BY <1>1, <3>1, <3>2, <3>3, <3>5, AskTypes DEF ProjectOf, About
    <3> QED BY <3>4, <3>5
  <2>5. \A q \in late' : stage'[q] = "look" /\ project'[ProjectOf(q)'].state = "deleted"
    BY <1>1, <1>3, <1>4, <2>4 DEF CallsInv
  <2> QED BY <2>1, <2>2, <2>3, <2>5 DEF CallsInv
<1>11. LocksInv'
  <2>1. \A t \in Call : \A q \in lock'[t] : ask'[q].op = "finalize" /\ ask'[q].task = t /\ row'[t] = "active"
    BY <1>1, <1>5, Lockables DEF LocksInv
  <2>2. \A k \in Call \X Module : \A q \in lock'[k] : ask'[q].op = "sync" /\ card'[k] # NoCard
    BY <1>1, <1>5, <1>6, Lockables DEF LocksInv
  <2>3. ASSUME NEW q \in Call, stage'[q] = "commit", ask[q].op = "fact"
        PROVE  q \in lock'[ask[q].statement] /\ SameFact(ask[q].statement)' = {}
    <3>1. q # c /\ stage[q] = "commit" /\ ask[q].statement \in Statement /\ ask[q].statement \in Lockable
      BY <1>1, <1>4, <2>3, AskTypes, Lockables DEF TypeOK
    <3>2. q \in lock[ask[q].statement] /\ SameFact(ask[q].statement) = {}
      BY <2>3, <3>1 DEF LocksInv
    <3> QED BY <1>1, <1>5, <3>1, <3>2 DEF SameFact, Written
  <2> QED BY <1>1, <1>5, <2>1, <2>2, <2>3 DEF LocksInv
<1>12. ReportsInv'
  BY <1>1, <1>8 DEF ReportsInv, TypeOK, Written
<1>13. OrderInv'
  BY <1>1, <1>8 DEF OrderInv, Later
<1>14. RootsInv'
  <2> SUFFICES ASSUME NEW d \in Call, Accepted(d, "sync")', ~Raced(d)'
               PROVE  /\ project'[ask[d].project].root = {ask[d].root}
                      /\ \A q \in Call : ask[q].op = "sync" /\ stage'[q] # "look"
                                         /\ ask[q].project = ask[d].project /\ Later(d, q)
                                         => ask[q].root = ask[d].root
    BY <1>1 DEF RootsInv, Later
  <2>1. CASE d = c
    BY <1>2, <1>3, <1>8, <2>1
  <2>2. CASE d # c
    <3>1. Accepted(d, "sync") /\ ~Raced(d) /\ ask[d].op = "sync"
      BY <1>8, <1>9, <2>2 DEF Accepted
    <3>2. \A q \in Call : stage'[q] # "look" => stage[q] # "look"
      BY <1>1, <1>4
    <3>3. \A q \in Call : ask[q].op = "sync" /\ stage'[q] # "look" /\ ask[q].project = ask[d].project /\ Later(d, q)
            => ask[q].root = ask[d].root
      BY <3>1, <3>2 DEF RootsInv
    <3>4. ask[d].project \in Project /\ project[ask[d].project].root = {ask[d].root}
      BY <3>1, AskTypes DEF RootsInv, TypeOK
    <3>5. ask[c].project = ask[d].project => ask[c].root = ask[d].root
      <4> SUFFICES ASSUME ask[c].project = ask[d].project, ask[c].root # ask[d].root PROVE FALSE
        OBVIOUS
      <4>1. ~Later(d, c)
        BY <1>1, <1>4, <2>2, <3>1 DEF RootsInv
      <4>2. Overlap(c, d)
        BY <1>1, <1>8, <2>2, <3>1, <4>1 DEF OrderInv, Overlap, Later
      <4>3. Raced(d)'
        BY <1>1, <1>8, <1>9, <4>2 DEF Raced
      <4> QED BY <4>3
    <3> QED BY <1>3, <3>3, <3>4, <3>5
  <2> QED BY <2>1, <2>2
<1>15. HoldsInv'
  <2> SUFFICES ASSUME NEW q \in Call, NEW k \in Call \X Module,
                      ask[q].op = "sync", card'[k] # NoCard, ask[k[1]].project = ask[q].project
               PROVE  /\ stage'[q] \in {"invalidate", "commit"} /\ k[2] \in ask[q].modules /\ Later(k[1], q)
                           => \E d \in Call : q \in lock'[<<d, k[2]>>]
                      /\ stage'[q] = "commit" /\ k[2] \in ask[q].changed \ ask[q].modules /\ Later(card'[k].by, q)
                           => q \in lock'[k]
    BY <1>1 DEF HoldsInv, Later
  <2>1. k \in Lockable /\ \A d \in Call : <<d, k[2]>> \in Lockable
    BY Lockables
  <2>2. CASE q = c
    BY <1>4, <2>2
  <2>3. CASE q # c /\ card[k] = NoCard
    BY <1>6, <1>8, <2>3
  <2>4. CASE q # c /\ card[k] # NoCard
    <3>1. /\ stage[q] \in {"invalidate", "commit"} /\ k[2] \in ask[q].modules /\ Later(k[1], q)
               => \E d \in Call : q \in lock[<<d, k[2]>>]
          /\ stage[q] = "commit" /\ k[2] \in ask[q].changed \ ask[q].modules /\ Later(card[k].by, q)
               => q \in lock[k]
      BY <2>4 DEF HoldsInv
    <3>2. q \in lock[k] => c \notin lock[k]
      BY <2>1, <2>4 DEF LocksInv
    <3>3. Later(card'[k].by, q) => card'[k] = card[k] \/ (c \in lock[k] /\ card'[k].by = card[k].by)
      BY <1>6, <1>8
    <3>4. stage'[q] = stage[q]
      BY <1>4, <2>4
    <3> QED BY <1>5, <2>1, <2>4, <3>1, <3>2, <3>3, <3>4
  <2> QED BY <2>2, <2>3, <2>4
<1>16. FreshInv'
  <2> SUFFICES ASSUME NEW q \in Call, NEW k \in Call \X Module,
                      Accepted(q, "sync")', card'[k].freshness = "fresh", ask[k[1]].project = ask[q].project,
                      k[2] \in ask[q].changed \ ask[q].modules, Later(card'[k].by, q)
               PROVE  FALSE
    BY <1>1 DEF FreshInv, Later
  <2>1. card'[k] = card[k] /\ c \notin lock[k]
    BY <1>6, <1>8
  <2>2. card[k] # NoCard
    BY <2>1, AskTypes
  <2>3. CASE q = c
    BY <1>1, <2>1, <2>2, <2>3 DEF HoldsInv
  <2>4. CASE q # c
    BY <1>8, <2>1, <2>4 DEF FreshInv
  <2> QED BY <2>3, <2>4
<1>17. TwinsRaced'
  <2>1. ASSUME NEW j \in Call \X Module, NEW k \in Call \X Module, j # k, j[2] = k[2],
               card[j] = NoCard, card'[j] # NoCard, card'[k] # NoCard,
               ask[j[1]].project = ask[k[1]].project
        PROVE  Overlap(j[1], k[1]) /\ Overlap(k[1], j[1])
    <3>1. j[1] = c /\ j[2] \in ask[c].modules /\ \A d \in Call : c \notin lock[<<d, j[2]>>]
      BY <1>6, <2>1
    <3>2. k[1] \in Call /\ k[1] # c
      BY <2>1, <3>1, Lockables
    <3>3. card[k] # NoCard
      BY <1>6, <2>1, <3>2
    <3>4. Accepted(k[1], "sync")
      BY <3>3 DEF CallsInv
    <3>5. ~Later(k[1], c)
      BY <1>1, <2>1, <3>1, <3>3 DEF HoldsInv
    <3>6. c \in begun[k[1]] \/ k[1] \in begun[c]
      BY <1>1, <3>2, <3>4 DEF OrderInv, Accepted
    <3> QED BY <1>8, <3>1, <3>2, <3>5, <3>6 DEF Overlap, Later
  <2>2. ASSUME NEW j \in Call \X Module, NEW k \in Call \X Module, j # k, j[2] = k[2],
               card'[j] # NoCard, card'[k] # NoCard, ask[j[1]].project = ask[k[1]].project
        PROVE  Overlap(j[1], k[1])
    <3>1. CASE card[j] = NoCard
      BY <2>1, <2>2, <3>1
    <3>2. CASE card[k] = NoCard
      BY <2>1, <2>2, <3>2
    <3>3. CASE card[j] # NoCard /\ card[k] # NoCard
      BY <2>2, <3>3 DEF TwinsRaced
    <3> QED BY <3>1, <3>2, <3>3
  <2> QED BY <1>1, <1>9, <2>2, Lockables DEF TwinsRaced
<1>18. OneFact'
  BY <1>1 DEF OneFact, Written
<1> QED BY <1>7, <1>10, <1>11, <1>12, <1>13, <1>14, <1>15, <1>16, <1>17, <1>18

\* A row is committed, with the report of the task that it locks.
LEMMA BrainCommitRow == ASSUME NEW c \in Call, IndInv, CommitRow(c) PROVE IndInv'
<1> USE DEF IndInv
<1> DEFINE done == {t \in Call : c \in lock[t]}
<1>1. /\ stage[c] = "commit" /\ ask[c].op # "sync" /\ lock' = Released(c) /\ To(c, "accepted")
      /\ row' = [q \in Call |-> IF q = c THEN "active" ELSE IF q \in done THEN "completed" ELSE row[q]]
      /\ report' = [t \in Call |-> IF t \in done THEN {c} ELSE report[t]]
      /\ UNCHANGED <<project, card, ask, preview, begun, ended, late>>
  BY DEF CommitRow
<1>2. row[c] = "absent"
  BY <1>1 DEF CallsInv
<1>3. \A t \in done : /\ t \in Call /\ t # c /\ row[t] = "active" /\ ask[c].op = "finalize" /\ ask[c].task = t
                      /\ ask[t].op = "start"
  <2>1. \A t \in done : t \in Call /\ row[t] = "active" /\ ask[c].op = "finalize" /\ ask[c].task = t
    BY DEF LocksInv
  <2> QED BY <1>2, <2>1 DEF CallsInv, Written
<1>4. \A t \in Call : t \in done <=> c \in lock[t]
  OBVIOUS
<1> HIDE DEF done
<1>5. /\ stage' \in [Call -> Stage]
      /\ \A q \in Call : stage'[q] = IF q = c THEN "accepted" ELSE stage[q]
  BY <1>1 DEF To, TypeOK, Stage
<1>6. /\ lock' \in [Lockable -> SUBSET Call]
      /\ \A x \in Lockable, q \in Call : q \in lock'[x] <=> q \in lock[x] /\ q # c
      /\ \A x \in Lockable : \A q \in lock'[x] : q \in Call /\ q # c /\ q \in lock[x]
      /\ \A x \in Lockable : \A q \in lock'[x] : lock'[x] = {q} /\ stage'[q] \in {"invalidate", "commit"}
  <2>1. \A q \in Call : q # c => stage'[q] = stage[q]
    BY <1>5
  <2> QED BY <1>1, <2>1, BrainReleases
<1>7. /\ row' \in [Call -> {"absent", "active", "completed", "deleted"}]
      /\ report' \in [Call -> SUBSET Call]
      /\ \A q \in Call : row'[q] # "absent" <=> row[q] # "absent" \/ q = c
  <2>1. \A q \in Call : row[q] \in {"absent", "active", "completed", "deleted"} /\ report[q] \in SUBSET Call
    BY DEF TypeOK
  <2> QED BY <1>1, <1>3, <2>1
<1>8. TypeOK'
  BY <1>1, <1>5, <1>6, <1>7 DEF TypeOK
<1>9. /\ \A q \in Call : Accepted(q, "sync")' <=> Accepted(q, "sync")
      /\ \A q \in Call : Accepted(q, "finalize")' <=> Accepted(q, "finalize") \/ (q = c /\ ask[c].op = "finalize")
  BY <1>1, <1>5 DEF Accepted
<1>10. CallsInv'
  <2>1. \A q \in Call :
          /\ stage'[q] \in {"idle", "refused"} <=> ask'[q] = NoAsk
          /\ stage'[q] = "dedupe" => ask'[q].op = "fact"
          /\ stage'[q] = "write" => ask'[q].op # "sync"
          /\ stage'[q] \in {"refresh", "invalidate"} => ask'[q].op = "sync"
          /\ row'[q] # "absent" => stage'[q] = "accepted"
    BY <1>1, <1>5, <1>7 DEF CallsInv
  <2>2. \A q \in Call : ask[q].op \in {"checkpoint", "finalize"} => ask[q].task \in Call /\ Written(ask[q].task, "start")
    BY AskTypes DEF CallsInv, TypeOK
  <2>3. \A q \in Call : ask'[q].op \in {"checkpoint", "finalize"} => Written(ask[q].task, "start")'
    BY <1>1, <1>7, <2>2 DEF Written
  <2>4. \A k \in Call \X Module : card'[k] # NoCard => Accepted(k[1], "sync")'
    BY <1>1, <1>9, Lockables DEF CallsInv
  <2>5. \A q \in late' : q \in Call /\ q # c /\ stage[q] = "look" /\ project[ProjectOf(q)].state = "deleted"
    BY <1>1 DEF CallsInv, TypeOK
  <2>6. \A q \in late' : ProjectOf(q)' = ProjectOf(q)
    BY <1>1 DEF ProjectOf, About
  <2>7. \A q \in late' : stage'[q] = "look" /\ project'[ProjectOf(q)'].state = "deleted"
    BY <1>1, <1>5, <2>5, <2>6
  <2> QED BY <2>1, <2>3, <2>4, <2>7 DEF CallsInv
<1>11. LocksInv'
  <2>1. ASSUME NEW t \in Call, NEW q \in lock'[t]
        PROVE  ask[q].op = "finalize" /\ ask[q].task = t /\ row'[t] = "active"
    <3>1. t \in Lockable /\ q \in lock[t] /\ q # c
      BY <1>6, Lockables
    <3>2. ask[q].op = "finalize" /\ ask[q].task = t /\ row[t] = "active" /\ lock[t] = {q}
      BY <3>1 DEF LocksInv
    <3>3. t # c /\ t \notin done
      BY <1>2, <1>4, <3>1, <3>2
    <3> QED BY <1>1, <3>2, <3>3
  <2>2. \A k \in Call \X Module : \A q \in lock'[k] : ask'[q].op = "sync" /\ card'[k] # NoCard
    BY <1>1, <1>6, Lockables DEF LocksInv
  <2>3. ASSUME NEW q \in Call, stage'[q] = "commit", ask[q].op = "fact"
        PROVE  q \in lock'[ask[q].statement] /\ SameFact(ask[q].statement)' = {}
    <3>1. q # c /\ stage[q] = "commit" /\ ask[q].statement \in Statement /\ ask[q].statement \in Lockable
      BY <1>1, <1>5, <2>3, AskTypes, Lockables DEF TypeOK
    <3>2. q \in lock[ask[q].statement] /\ SameFact(ask[q].statement) = {}
      BY <2>3, <3>1 DEF LocksInv
    <3>3. ~(ask[c].op = "fact" /\ ask[c].statement = ask[q].statement)
      <4> SUFFICES ASSUME ask[c].op = "fact", ask[c].statement = ask[q].statement PROVE FALSE
        OBVIOUS
      <4>1. c \in lock[ask[q].statement]
        BY <1>1 DEF LocksInv
      <4> QED BY <3>1, <3>2, <4>1 DEF LocksInv
    <3>4. \A d \in Call : Written(d, "fact") => ask[d].statement # ask[q].statement
      BY <3>2 DEF SameFact
    <3>5. \A d \in Call : Written(d, "fact")' => ask[d].statement # ask[q].statement
      BY <1>1, <1>7, <3>3, <3>4 DEF Written
    <3>6. SameFact(ask[q].statement)' = {}
      BY <1>1, <3>5 DEF SameFact
    <3> QED BY <1>6, <3>1, <3>2, <3>6
  <2>4. \A q \in Call : stage'[q] = "commit" /\ ask'[q].op = "fact" =>
          q \in lock'[ask'[q].statement] /\ SameFact(ask[q].statement)' = {}
    BY <1>1, <2>3
  <2>5. \A t \in Call : \A q \in lock'[t] : ask'[q].op = "finalize" /\ ask'[q].task = t /\ row'[t] = "active"
    BY <1>1, <2>1
  <2> QED BY <1>6, <2>2, <2>4, <2>5 DEF LocksInv
<1>12. ReportsInv'
  <2>1. ASSUME NEW t \in Call, NEW q \in report'[t]
        PROVE  Written(t, "start")' /\ row'[t] = "completed" /\ report'[t] = {q} /\ Accepted(q, "finalize")'
    <3>1. CASE t \in done
      BY <1>1, <1>3, <1>7, <1>9, <2>1, <3>1 DEF Written
    <3>2. CASE t \notin done
      <4>1. q \in report[t] /\ report'[t] = report[t] /\ q \in Call
        BY <1>1, <2>1, <3>2 DEF TypeOK
      <4>2. Written(t, "start") /\ row[t] = "completed" /\ report[t] = {q} /\ Accepted(q, "finalize")
        BY <4>1 DEF ReportsInv
      <4>3. t # c
        BY <1>2, <4>2
      <4> QED BY <1>1, <1>7, <1>9, <3>2, <4>1, <4>2, <4>3 DEF Written
    <3> QED BY <3>1, <3>2
  <2>2. \A p \in Project : \A facts \in preview'[p] : \A q \in facts :
          row'[q] # "absent" /\ ask'[q].op \in {"fact", "finalize"}
    BY <1>1, <1>7 DEF ReportsInv, TypeOK
  <2> QED BY <2>1, <2>2 DEF ReportsInv
<1>13. OrderInv'
  BY <1>1, <1>9 DEF OrderInv, Later
<1>14. RootsInv'
  <2>1. \A q \in Call : Raced(q)' <=> Raced(q)
    BY <1>1, <1>9, RacedSame
  <2>2. \A q \in Call : ask[q].op = "sync" /\ stage'[q] # "look" => stage[q] # "look"
    BY <1>1, <1>5
  <2> QED BY <1>1, <1>9, <2>1, <2>2 DEF RootsInv, Later
<1>15. HoldsInv'
  <2> SUFFICES ASSUME NEW q \in Call, NEW k \in Call \X Module,
                      ask[q].op = "sync", card[k] # NoCard, ask[k[1]].project = ask[q].project
               PROVE  /\ stage'[q] \in {"invalidate", "commit"} /\ k[2] \in ask[q].modules /\ Later(k[1], q)
                           => \E d \in Call : q \in lock'[<<d, k[2]>>]
                      /\ stage'[q] = "commit" /\ k[2] \in ask[q].changed \ ask[q].modules /\ Later(card[k].by, q)
                           => q \in lock'[k]
    BY <1>1 DEF HoldsInv, Later
  <2>1. q # c /\ stage'[q] = stage[q] /\ k \in Lockable /\ \A d \in Call : <<d, k[2]>> \in Lockable
    BY <1>1, <1>5, Lockables
  <2> QED BY <1>6, <2>1 DEF HoldsInv
<1>16. FreshInv' /\ TwinsRaced'
  BY <1>1, <1>9 DEF FreshInv, TwinsRaced, Later, Overlap
<1>17. OneFact'
  <2>1. ASSUME NEW q \in Call, Written(q, "fact"), ask[c].op = "fact", ask[c].statement = ask[q].statement
        PROVE  FALSE
    <3>1. SameFact(ask[c].statement) = {}
      BY <1>1, <2>1 DEF LocksInv
    <3> QED BY <2>1, <3>1 DEF SameFact
  <2>2. \A q \in Call : Written(q, "fact")' <=> Written(q, "fact") \/ (q = c /\ ask[c].op = "fact")
    BY <1>1, <1>7 DEF Written
  <2> QED BY <1>1, <2>1, <2>2 DEF OneFact
<1> QED BY <1>8, <1>10, <1>11, <1>12, <1>13, <1>14, <1>15, <1>16, <1>17

\* What a call is about, where it is on a task that was written.
LEMMA AboutTasks ==
    ASSUME IndInv, NEW a \in Ask, a.op \in {"checkpoint", "finalize"} => Written(a.task, "start")
    PROVE  About(a) \in Project /\ (a.op \in {"checkpoint", "finalize"} => a.task \in Call)
<1> USE DEF IndInv
<1>1. /\ a.op \in {"checkpoint", "finalize"} => a.task \in Call
      /\ a.op \in {"start", "checkpoint", "finalize", "fact", "sync"}
      /\ a.op \in {"start", "fact", "sync"} => a.project \in Project
  BY DEF Ask
<1>2. CASE a.op \in {"checkpoint", "finalize"}
  BY <1>1, <1>2, AskTypes DEF Written, TypeOK, About
<1>3. CASE a.op \in {"start", "fact", "sync"}
  BY <1>1, <1>3 DEF About
<1> QED BY <1>1, <1>2, <1>3

\* A call arrives, and has seen what was accepted by then.
LEMMA BrainBegin == ASSUME NEW c \in Call, NEW a \in Ask, IndInv, Begin(c, a) PROVE IndInv'
<1> USE DEF IndInv
<1>1. /\ stage[c] = "idle" /\ (a.op \in {"checkpoint", "finalize"} => Written(a.task, "start"))
      /\ ask' = [ask EXCEPT ![c] = a] /\ To(c, "look")
      /\ late' = IF project[About(a)].state = "deleted" THEN late \cup {c} ELSE late
      /\ UNCHANGED <<project, row, report, card, lock, preview>>
  BY DEF Begin
<1>2. About(a) \in Project /\ (a.op \in {"checkpoint", "finalize"} => a.task \in Call)
  BY <1>1, AboutTasks
<1>3. /\ begun' \in [Call -> SUBSET Call] /\ ended' \in [Call -> SUBSET Call]
      /\ \A q \in Call : q # c => begun'[q] = begun[q] /\ ended'[q] = ended[q]
      /\ \A q \in Call : q \in begun'[c] <=> a.op = "sync" /\ ask[q].op = "sync"
      /\ \A q \in Call : q \in ended'[c] => ask[q].op = "sync" /\ stage[q] = "accepted"
  <2>1. begun' = [begun EXCEPT ![c] = {q \in Call : {a.op, ask[q].op} = {"sync"}}]
    BY DEF Begin
  <2>2. ended' = [ended EXCEPT ![c] = {q \in begun'[c] : stage[q] = "accepted"}]
    BY DEF Begin
  <2>3. begun' \in [Call -> SUBSET Call] /\ begun'[c] = {q \in Call : {a.op, ask[q].op} = {"sync"}}
        /\ \A q \in Call : q # c => begun'[q] = begun[q]
    BY <2>1 DEF TypeOK
  <2>4. ended' \in [Call -> SUBSET Call] /\ ended'[c] = {q \in begun'[c] : stage[q] = "accepted"}
        /\ \A q \in Call : q # c => ended'[q] = ended[q]
    BY <2>2, <2>3 DEF TypeOK
  <2>5. \A q \in Call : q \in begun'[c] <=> a.op = "sync" /\ ask[q].op = "sync"
    BY <2>3
  <2>6. \A q \in Call : q \in ended'[c] => ask[q].op = "sync" /\ stage[q] = "accepted"
    BY <2>4, <2>5
  <2> QED BY <2>3, <2>4, <2>5, <2>6
<1>4. /\ stage' \in [Call -> Stage] /\ ask' \in [Call -> Ask \cup {NoAsk}] /\ late' \in SUBSET Call
      /\ \A q \in Call : /\ stage'[q] = IF q = c THEN "look" ELSE stage[q]
                         /\ ask'[q] = IF q = c THEN a ELSE ask[q]
  BY <1>1 DEF To, TypeOK, Stage
<1>5. ask[c] = NoAsk /\ row[c] = "absent" /\ a # NoAsk /\ a.op # "none"
  BY <1>1, AskTypes DEF CallsInv, Ask, NoAsk
<1>6. \A q \in Call : stage[q] = "accepted" => q # c
  BY <1>1
<1>7. /\ \A q \in Call : Accepted(q, "sync")' <=> Accepted(q, "sync")
      /\ \A q \in Call : Accepted(q, "finalize")' <=> Accepted(q, "finalize")
      /\ \A q \in Call : Written(q, "start")' <=> Written(q, "start")
      /\ \A q \in Call : Written(q, "fact")' <=> Written(q, "fact")
  BY <1>1, <1>4, <1>5 DEF Accepted, Written
<1>8. \A k \in Call \X Module : card[k] # NoCard => k[1] # c /\ k[1] \in Call /\ ask'[k[1]] = ask[k[1]]
  BY <1>4, <1>6, Lockables DEF CallsInv, Accepted
<1>9. /\ \A d, q \in Call : stage[d] = "accepted" /\ stage[q] = "accepted" =>
            (Overlap(d, q)' <=> Overlap(d, q))
      /\ \A d \in Call : stage[d] = "accepted" /\ Raced(d) => Raced(d)'
  <2>1. \A q \in Call : stage[q] = "accepted" => stage'[q] = "accepted" /\ ask'[q] = ask[q]
    BY <1>4, <1>6
  <2>2. \A d, q \in Call : stage[d] = "accepted" /\ stage[q] = "accepted" =>
          (d \in begun'[q] <=> d \in begun[q]) /\ (d \in ended'[q] <=> d \in ended[q])
    BY <1>3, <1>6
  <2> QED BY <2>1, <2>2, RacesStay
<1>10. TypeOK'
  BY <1>1, <1>3, <1>4 DEF TypeOK
<1>11. CallsInv'
  <2>1. \A q \in Call :
          /\ stage'[q] \in {"idle", "refused"} <=> ask'[q] = NoAsk
          /\ stage'[q] = "dedupe" => ask'[q].op = "fact"
          /\ stage'[q] = "write" => ask'[q].op # "sync"
          /\ stage'[q] \in {"refresh", "invalidate"} => ask'[q].op = "sync"
          /\ row'[q] # "absent" => stage'[q] = "accepted"
    BY <1>1, <1>4, <1>5 DEF CallsInv
  <2>2. \A q \in Call : ask'[q].op \in {"checkpoint", "finalize"} =>
          /\ ask'[q].task \in Call
          /\ row[ask'[q].task] # "absent" /\ ask[ask'[q].task].op = "start"
    <3>1. \A q \in Call : ask[q].op \in {"checkpoint", "finalize"} => ask[q].task \in Call /\ Written(ask[q].task, "start")
      BY AskTypes DEF CallsInv, TypeOK
    <3> QED BY <1>1, <1>2, <1>4, <3>1 DEF Written
  <2>3. \A q \in Call : ask'[q].op \in {"checkpoint", "finalize"} =>
          row'[ask'[q].task] # "absent" /\ ask'[ask'[q].task] = ask[ask'[q].task]
    BY <1>1, <1>4, <1>5, <2>2
  <2>4. \A q \in Call : ask'[q].op \in {"checkpoint", "finalize"} => Written(ask[q].task, "start")'
    BY <2>2, <2>3 DEF Written
  <2>5. \A k \in Call \X Module : card'[k] # NoCard => Accepted(k[1], "sync")'
    BY <1>1, <1>7, <1>8 DEF CallsInv
  <2>6. \A q \in late' : q \in Call /\ ((q = c /\ project[About(a)].state = "deleted") \/ (q # c /\ q \in late))
    <3>1. late \subseteq Call /\ c \notin late
      BY <1>1 DEF CallsInv, TypeOK
    <3>2. late' \subseteq late \cup {c} /\ (c \in late' => c \in late \/ project[About(a)].state = "deleted")
      BY <1>1
    <3> QED BY <3>1, <3>2
  <2>7. ProjectOf(c)' = About(a)
    BY <1>4, <2>3 DEF ProjectOf, About
  <2>8. \A q \in Call : q # c => ProjectOf(q)' = ProjectOf(q)
    BY <1>4, <2>3 DEF ProjectOf, About
  <2>9. \A q \in late' : stage'[q] = "look" /\ project'[ProjectOf(q)'].state = "deleted"
    BY <1>1, <1>4, <2>6, <2>7, <2>8 DEF CallsInv
  <2> QED BY <2>1, <2>4, <2>5, <2>9 DEF CallsInv
<1>12. \A x \in Lockable : \A q \in lock[x] : q \in Call /\ q # c /\ ask'[q] = ask[q] /\ stage'[q] = stage[q]
  BY <1>1, <1>4 DEF LocksInv, TypeOK
<1>13. LocksInv'
  <2>1. \A x \in Lockable : \A q \in lock'[x] : lock'[x] = {q} /\ stage'[q] \in {"invalidate", "commit"}
    BY <1>1, <1>12 DEF LocksInv
  <2>2. \A t \in Call : \A q \in lock'[t] : ask'[q].op = "finalize" /\ ask'[q].task = t /\ row'[t] = "active"
    BY <1>1, <1>12, Lockables DEF LocksInv
  <2>3. \A k \in Call \X Module : \A q \in lock'[k] : ask'[q].op = "sync" /\ card'[k] # NoCard
    BY <1>1, <1>12, Lockables DEF LocksInv
  <2>4. \A q \in Call : stage'[q] = "commit" => ask'[q] = ask[q] /\ stage[q] = "commit"
    BY <1>4
  <2>5. \A q \in Call : ask[q].op = "fact" => ask[q].statement \in Statement
    BY AskTypes DEF TypeOK
  <2>6. \A q \in Call : stage'[q] = "commit" /\ ask'[q].op = "fact" =>
          q \in lock'[ask'[q].statement] /\ SameFact(ask[q].statement)' = {}
    <3> SUFFICES ASSUME NEW q \in Call, stage'[q] = "commit", ask'[q].op = "fact"
                 PROVE  q \in lock'[ask'[q].statement] /\ SameFact(ask[q].statement)' = {}
      OBVIOUS
    <3>1. q \in lock[ask[q].statement] /\ SameFact(ask[q].statement) = {} /\ ask'[q] = ask[q]
          /\ ask[q].statement \in Statement
      BY <2>4, <2>5 DEF LocksInv
    <3>2. \A d \in Call : ~(Written(d, "fact") /\ ask[d].statement = ask[q].statement)
      BY <3>1 DEF SameFact
    <3>3. \A d \in Call : ~(Written(d, "fact")' /\ ask'[d].statement = ask[q].statement)
      BY <1>1, <1>4, <1>5, <3>2 DEF Written
    <3> QED BY <1>1, <3>1, <3>3 DEF SameFact
  <2> QED BY <2>1, <2>2, <2>3, <2>6 DEF LocksInv
<1>14. ReportsInv'
  <2>1. \A p \in Project : \A facts \in preview[p] : \A q \in facts : q \in Call /\ ask'[q] = ask[q]
    BY <1>4, <1>5 DEF ReportsInv, TypeOK
  <2> QED BY <1>1, <1>7, <2>1 DEF ReportsInv, TypeOK
<1>15. OrderInv'
  <2>1. \A d, q \in Call : Later(d, q)' => Accepted(d, "sync")'
    BY <1>3, <1>7 DEF OrderInv, Later, Accepted
  <2>2. \A d, q \in Call : d # q /\ ask'[d].op = "sync" /\ ask'[q].op = "sync" => d \in begun'[q] \/ q \in begun'[d]
    BY <1>3, <1>4 DEF OrderInv
  <2> QED BY <2>1, <2>2 DEF OrderInv
<1>16. RootsInv'
  <2>1. \A d \in Call : Accepted(d, "sync")' /\ ~Raced(d)' => Accepted(d, "sync") /\ ~Raced(d) /\ ask'[d] = ask[d]
    BY <1>4, <1>6, <1>7, <1>9 DEF Accepted
  <2>2. \A q \in Call : stage'[q] # "look" =>
          ask'[q] = ask[q] /\ stage'[q] = stage[q] /\ ended'[q] = ended[q]
    BY <1>3, <1>4
  <2> QED BY <1>1, <2>1, <2>2 DEF RootsInv, Later
<1>17. HoldsInv'
  <2>1. \A q \in Call : stage'[q] \in {"invalidate", "commit"} =>
          ask'[q] = ask[q] /\ stage'[q] = stage[q] /\ ended'[q] = ended[q]
    BY <1>3, <1>4
  <2> QED BY <1>1, <1>8, <2>1 DEF HoldsInv, Later
<1>18. FreshInv'
  <2>1. \A q \in Call : Accepted(q, "sync")' => Accepted(q, "sync") /\ ask'[q] = ask[q] /\ ended'[q] = ended[q]
    BY <1>3, <1>4, <1>6, <1>7 DEF Accepted
  <2>2. \A k \in Call \X Module : card[k].freshness = "fresh" => ask'[k[1]] = ask[k[1]]
    BY <1>8, AskTypes
  <2> QED BY <1>1, <2>1, <2>2 DEF FreshInv, Later
<1>19. TwinsRaced'
  <2>1. \A k \in Call \X Module : card[k] # NoCard =>
          k[1] \in Call /\ stage[k[1]] = "accepted" /\ ask'[k[1]] = ask[k[1]]
    BY <1>8 DEF CallsInv, Accepted
  <2> QED BY <1>1, <1>9, <2>1 DEF TwinsRaced
<1>20. OneFact'
  BY <1>1, <1>4, <1>5 DEF OneFact, Written
<1> QED BY <1>10, <1>11, <1>13, <1>14, <1>15, <1>16, <1>17, <1>18, <1>19, <1>20

\* A step of the projects: they come, are planned away and go, with the facts that the
\* plan names; what is absent does not appear, and what is late stays so.
LEMMA BrainProjects ==
    ASSUME IndInv,
           project' \in [Project -> [state : {"absent", "active", "deleted"}, root : SUBSET Root,
                                     evidence : SUBSET Call]],
           \A p \in Project : /\ project'[p].root = project[p].root
                              /\ project[p].state = "deleted" => project'[p].state = "deleted",
           row' \in [Call -> {"absent", "active", "completed", "deleted"}],
           \A q \in Call : (row'[q] # "absent" <=> row[q] # "absent") /\ (ask[q].op = "start" => row'[q] = row[q]),
           preview' \in [Project -> SUBSET (SUBSET Call)],
           \A p \in Project : \A facts \in preview'[p] : \A q \in facts :
               row[q] # "absent" /\ ask[q].op \in {"fact", "finalize"},
           UNCHANGED <<report, card, lock, ask, stage, begun, ended, late>>
    PROVE  IndInv'
<1> USE DEF IndInv
<1>1. TypeOK'
  BY DEF TypeOK
<1>2. \A q \in Call : ask[q].op \in {"checkpoint", "finalize"} => ask[q].task \in Call /\ Written(ask[q].task, "start")
  BY AskTypes DEF CallsInv, TypeOK
<1>3. CallsInv'
  <2>1. \A q \in Call : ask'[q].op \in {"checkpoint", "finalize"} => Written(ask[q].task, "start")'
    BY <1>2 DEF Written
  <2>2. \A k \in Call \X Module : card'[k] # NoCard => Accepted(k[1], "sync")'
    BY DEF CallsInv, Accepted
  <2>3. ASSUME NEW q \in late PROVE stage[q] = "look" /\ project'[ProjectOf(q)].state = "deleted"
    <3>1. q \in Call /\ stage[q] = "look" /\ ask[q] # NoAsk /\ ask[q] \in Ask
      BY DEF CallsInv, TypeOK
    <3>2. ProjectOf(q) \in Project
      BY <1>2, <3>1, AboutTasks DEF ProjectOf
    <3> QED BY <3>1, <3>2 DEF CallsInv
  <2>4. \A q \in late' : ProjectOf(q)' = ProjectOf(q)
    BY DEF ProjectOf, About
  <2>5. \A q \in Call :
          /\ stage'[q] \in {"idle", "refused"} <=> ask'[q] = NoAsk
          /\ stage'[q] = "dedupe" => ask'[q].op = "fact"
          /\ stage'[q] = "write" => ask'[q].op # "sync"
          /\ stage'[q] \in {"refresh", "invalidate"} => ask'[q].op = "sync"
          /\ row'[q] # "absent" => stage'[q] = "accepted"
    BY DEF CallsInv
  <2>6. \A q \in late' : stage'[q] = "look" /\ project'[ProjectOf(q)'].state = "deleted"
    BY <2>3, <2>4
  <2> QED BY <2>1, <2>2, <2>5, <2>6 DEF CallsInv
<1>4. LocksInv'
  <2>1. ASSUME NEW t \in Call, NEW q \in lock[t]
        PROVE  ask[q].op = "finalize" /\ ask[q].task = t /\ row'[t] = "active"
    <3>1. ask[q].op = "finalize" /\ ask[q].task = t /\ row[t] = "active" /\ q \in Call
      BY Lockables DEF LocksInv, TypeOK
    <3> QED BY <1>2, <3>1 DEF Written
  <2>2. \A t \in Call : \A q \in lock'[t] : ask'[q].op = "finalize" /\ ask'[q].task = t /\ row'[t] = "active"
    BY <2>1
  <2>3. \A q \in Call : ask[q].op = "fact" => ask[q].statement \in Statement
    BY AskTypes DEF TypeOK
  <2>4. \A q \in Call : stage'[q] = "commit" /\ ask'[q].op = "fact" =>
          q \in lock'[ask'[q].statement] /\ SameFact(ask[q].statement)' = {}
    <3> SUFFICES ASSUME NEW q \in Call, stage[q] = "commit", ask[q].op = "fact"
                 PROVE  q \in lock[ask[q].statement] /\ SameFact(ask[q].statement)' = {}
      OBVIOUS
    <3>1. q \in lock[ask[q].statement] /\ SameFact(ask[q].statement) = {} /\ ask[q].statement \in Statement
      BY <2>3 DEF LocksInv
    <3>2. \A d \in Call : ~(Written(d, "fact")' /\ ask[d].statement = ask[q].statement)
      BY <3>1 DEF SameFact, Written
    <3> QED BY <3>1, <3>2 DEF SameFact
  <2>5. \A x \in Lockable : \A q \in lock'[x] : lock'[x] = {q} /\ stage'[q] \in {"invalidate", "commit"}
    BY DEF LocksInv
  <2>6. \A k \in Call \X Module : \A q \in lock'[k] : ask'[q].op = "sync" /\ card'[k] # NoCard
    BY DEF LocksInv
  <2> QED BY <2>2, <2>4, <2>5, <2>6 DEF LocksInv
<1>5. ReportsInv'
  <2>1. \A t \in Call : \A q \in report[t] :
          Written(t, "start") /\ row[t] = "completed" /\ report[t] = {q} /\ Accepted(q, "finalize")
    BY DEF ReportsInv
  <2>2. \A t \in Call : \A q \in report'[t] :
          Written(t, "start")' /\ row'[t] = "completed" /\ report'[t] = {q} /\ Accepted(q, "finalize")'
    BY <2>1 DEF Written, Accepted
  <2>3. \A p \in Project : \A facts \in preview'[p] : \A q \in facts :
          row'[q] # "absent" /\ ask'[q].op \in {"fact", "finalize"}
    BY DEF TypeOK
  <2> QED BY <2>2, <2>3 DEF ReportsInv
<1>6. \A q \in Call : Accepted(q, "sync")' <=> Accepted(q, "sync")
  BY DEF Accepted
<1>7. OrderInv'
  BY <1>6 DEF OrderInv, Later
<1>8. RootsInv'
  <2>1. \A q \in Call : Raced(q)' <=> Raced(q)
    BY <1>6, RacedSame
  <2>2. \A q \in Call : Accepted(q, "sync") => ask[q].project \in Project
    BY AskTypes DEF Accepted, TypeOK
  <2> QED BY <1>6, <2>1, <2>2 DEF RootsInv, Later
<1>9. HoldsInv'
  BY DEF HoldsInv, Later
<1>10. FreshInv' /\ TwinsRaced'
  BY <1>6 DEF FreshInv, TwinsRaced, Later, Overlap
<1>11. OneFact'
  BY DEF OneFact, Written
<1> QED BY <1>1, <1>3, <1>4, <1>5, <1>7, <1>8, <1>9, <1>10, <1>11

\* A project is created.
LEMMA BrainCreate == ASSUME NEW p \in Project, IndInv, CreateProject(p) PROVE IndInv'
<1> USE DEF IndInv
<1> DEFINE new == [project[p] EXCEPT !.state = "active"]
<1>1. /\ project[p].state = "absent" /\ project' = [project EXCEPT ![p] = new]
      /\ UNCHANGED <<row, report, card, lock, ask, stage, preview, begun, ended, late>>
  BY DEF CreateProject
<1>2. project[p] \in [state : {"absent", "active", "deleted"}, root : SUBSET Root, evidence : SUBSET Call]
  BY DEF TypeOK
<1>3. /\ new \in [state : {"absent", "active", "deleted"}, root : SUBSET Root, evidence : SUBSET Call]
      /\ new.root = project[p].root
  BY <1>2
<1> HIDE DEF new
<1>4. /\ project' \in [Project -> [state : {"absent", "active", "deleted"}, root : SUBSET Root,
                                   evidence : SUBSET Call]]
      /\ \A q \in Project : /\ project'[q].root = project[q].root
                            /\ project[q].state = "deleted" => project'[q].state = "deleted"
  BY <1>1, <1>3 DEF TypeOK
<1>5. /\ row' \in [Call -> {"absent", "active", "completed", "deleted"}]
      /\ preview' \in [Project -> SUBSET (SUBSET Call)]
      /\ \A q \in Project : \A facts \in preview'[q] : \A c \in facts :
            row[c] # "absent" /\ ask[c].op \in {"fact", "finalize"}
  BY <1>1 DEF TypeOK, ReportsInv
<1> QED BY <1>1, <1>4, <1>5, BrainProjects

\* A deletion is planned for the facts and reports that there are.
LEMMA BrainPlan == ASSUME NEW p \in Project, IndInv, PlanDeletion(p) PROVE IndInv'
<1> USE DEF IndInv
<1> DEFINE found == {c \in Call : row[c] = "active" /\ ask[c].op \in {"fact", "finalize"} /\ ProjectOf(c) = p}
<1>1. /\ preview' = [preview EXCEPT ![p] = {found}]
      /\ UNCHANGED <<project, row, report, card, lock, ask, stage, begun, ended, late>>
  BY DEF PlanDeletion
<1>2. found \in SUBSET Call /\ \A c \in found : row[c] # "absent" /\ ask[c].op \in {"fact", "finalize"}
  OBVIOUS
<1> HIDE DEF found
<1>3. /\ preview' \in [Project -> SUBSET (SUBSET Call)]
      /\ \A q \in Project : \A facts \in preview'[q] : facts = found \/ facts \in preview[q]
  BY <1>1, <1>2 DEF TypeOK
<1>4. \A q \in Project : \A facts \in preview'[q] : \A c \in facts :
        row[c] # "absent" /\ ask[c].op \in {"fact", "finalize"}
  BY <1>2, <1>3 DEF ReportsInv
<1>5. project' = project /\ row' = row /\ project \in [Project -> [state : {"absent", "active", "deleted"},
        root : SUBSET Root, evidence : SUBSET Call]] /\ row \in [Call -> {"absent", "active", "completed", "deleted"}]
  BY <1>1 DEF TypeOK
<1> QED BY <1>1, <1>3, <1>4, <1>5, BrainProjects

\* A project is deleted, with what the plan names.
LEMMA BrainExecute == ASSUME NEW p \in Project, IndInv, ExecuteDeletion(p) PROVE IndInv'
<1> USE DEF IndInv
<1> DEFINE new == [project[p] EXCEPT !.state = "deleted"]
<1>1. PICK facts \in preview[p] :
        /\ project' = [project EXCEPT ![p] = new]
        /\ row' = [c \in Call |-> IF c \in facts THEN "deleted" ELSE row[c]]
  BY DEF ExecuteDeletion
<1>2. UNCHANGED <<report, card, lock, ask, stage, preview, begun, ended, late>>
  BY DEF ExecuteDeletion
<1>3. project[p] \in [state : {"absent", "active", "deleted"}, root : SUBSET Root, evidence : SUBSET Call]
  BY DEF TypeOK
<1>4. /\ new \in [state : {"absent", "active", "deleted"}, root : SUBSET Root, evidence : SUBSET Call]
      /\ new.root = project[p].root /\ new.state = "deleted"
  BY <1>3
<1> HIDE DEF new
<1>5. /\ project' \in [Project -> [state : {"absent", "active", "deleted"}, root : SUBSET Root,
                                   evidence : SUBSET Call]]
      /\ \A q \in Project : /\ project'[q].root = project[q].root
                            /\ project[q].state = "deleted" => project'[q].state = "deleted"
  BY <1>1, <1>4 DEF TypeOK
<1>6. \A c \in facts : row[c] # "absent" /\ ask[c].op \in {"fact", "finalize"}
  BY DEF ReportsInv
<1>7. /\ row' \in [Call -> {"absent", "active", "completed", "deleted"}]
      /\ \A q \in Call : (row'[q] # "absent" <=> row[q] # "absent") /\ (ask[q].op = "start" => row'[q] = row[q])
  <2>1. \A q \in Call : row[q] \in {"absent", "active", "completed", "deleted"}
    BY DEF TypeOK
  <2> QED BY <1>1, <1>6, <2>1
<1>8. /\ preview' \in [Project -> SUBSET (SUBSET Call)]
      /\ \A q \in Project : \A f \in preview'[q] : \A c \in f :
            row[c] # "absent" /\ ask[c].op \in {"fact", "finalize"}
  BY <1>2 DEF TypeOK, ReportsInv
<1> QED BY <1>2, <1>5, <1>7, <1>8, BrainProjects

\* A rollback leaves no trace.
LEMMA BrainRollback == ASSUME NEW c \in Call, IndInv, Rollback(c) PROVE IndInv'
BY BrainRefuse DEF Rollback

\* Every step of the project brain keeps the inductive invariant.
LEMMA BrainStep == IndInv /\ [Next]_vars => IndInv'
<1> SUFFICES ASSUME IndInv, [Next]_vars PROVE IndInv'
  OBVIOUS
<1>1. CASE UNCHANGED vars
  <2> USE DEF IndInv
  <2>1. UNCHANGED <<project, row, report, card, lock, ask, stage, preview, begun, ended, late>>
    BY <1>1 DEF vars
  <2>2. /\ project' \in [Project -> [state : {"absent", "active", "deleted"}, root : SUBSET Root,
                                     evidence : SUBSET Call]]
        /\ row' \in [Call -> {"absent", "active", "completed", "deleted"}]
        /\ preview' \in [Project -> SUBSET (SUBSET Call)]
        /\ \A p \in Project : \A facts \in preview'[p] : \A q \in facts :
              row[q] # "absent" /\ ask[q].op \in {"fact", "finalize"}
    BY <2>1 DEF TypeOK, ReportsInv
  <2> QED BY <2>1, <2>2, BrainProjects
<1>2. CASE Next
  BY <1>2, BrainCreate, BrainPlan, BrainExecute, BrainBegin, BrainLook, BrainDedupe, BrainWriteFact,
     BrainWriteRow, BrainWriteReport, BrainRefresh, BrainInvalidate, BrainCommitSync, BrainCommitRow,
     BrainRollback DEF Next
<1> QED BY <1>1, <1>2

\* A task that has its report is not written again: who would report on it has to lock
\* it while it is active.
LEMMA ReportsStay == IndInv /\ [Next]_vars => KeepsReports
<1> SUFFICES ASSUME IndInv, [Next]_vars, NEW t \in Call, report[t] # {}
             PROVE  report'[t] = report[t] /\ row'[t] = "completed"
  BY DEF KeepsReports
<1> USE DEF IndInv
<1>1. row[t] = "completed" /\ ask[t].op = "start"
  BY DEF ReportsInv, Written
<1>2. CASE report' = report /\ row' = row
  BY <1>1, <1>2
<1>3. ASSUME NEW c \in Call, CommitRow(c) PROVE report'[t] = report[t] /\ row'[t] = "completed"
  <2>1. stage[c] = "commit"
    BY <1>3 DEF CommitRow
  <2>2. c \notin lock[t] /\ t # c
    BY <1>1, <2>1 DEF LocksInv, CallsInv
  <2> QED BY <1>1, <1>3, <2>2 DEF CommitRow
<1>4. ASSUME NEW p \in Project, ExecuteDeletion(p) PROVE report'[t] = report[t] /\ row'[t] = "completed"
  BY <1>1, <1>4 DEF ExecuteDeletion, ReportsInv
<1>5. CASE Next
  BY <1>2, <1>3, <1>4, <1>5 DEF Next, CreateProject, PlanDeletion, Begin, Look, Dedupe, WriteFact, WriteRow,
     WriteReport, Refresh, Invalidate, CommitSync, Rollback
<1>6. CASE UNCHANGED vars
  BY <1>2, <1>6 DEF vars
<1> QED BY <1>5, <1>6

\* What the inductive invariant says of syncs that follow one another.
LEMMA SyncsFollow == IndInv => SyncsInOrder
<1> SUFFICES ASSUME IndInv PROVE SyncsInOrder
  OBVIOUS
<1> USE DEF IndInv
<1>1. OneWorkspace
  BY DEF OneWorkspace, RootsInv, Accepted
<1>2. FreshUnlessChanged
  <2> SUFFICES ASSUME NEW p \in Project, NEW k \in Recovery(p).fresh, NEW q \in SawChanged(p),
                      k[2] \in ask[q].changed \ ask[q].modules
               PROVE  ~Later(card[k].by, q)
    BY DEF FreshUnlessChanged
  <2>1. k \in Call \X Module /\ ask[k[1]].project = p /\ card[k].freshness = "fresh"
    BY DEF Recovery, CardsOf
  <2>2. q \in Call /\ Accepted(q, "sync") /\ ask[q].project = p
    BY DEF SawChanged
  <2> QED BY <2>1, <2>2 DEF FreshInv
<1> QED BY <1>1, <1>2 DEF SyncsInOrder

\* What it says of projects and statements that were deleted.
LEMMA DeletionsFollow == IndInv => DeletedStaysDeleted
<1> SUFFICES ASSUME IndInv PROVE DeletedStaysDeleted
  OBVIOUS
<1> USE DEF IndInv
<1>1. ASSUME NEW c \in late PROVE row[c] = "absent" /\ \A m \in Module : card[<<c, m>>] = NoCard
  <2>1. c \in Call /\ stage[c] = "look"
    BY DEF CallsInv, TypeOK
  <2>2. \A m \in Module : card[<<c, m>>] # NoCard => Accepted(<<c, m>>[1], "sync")
    BY <2>1 DEF CallsInv
  <2> QED BY <2>1, <2>2 DEF CallsInv, Accepted
<1> QED BY <1>1 DEF DeletedStaysDeleted

(***************************************************************************)
(* The theorems.                                                           *)
(***************************************************************************)
\* The offline queue keeps its inductive invariant: what left the table arrived, and
\* operations take effect in the order of their insertion.
THEOREM QueueCorrect == Q!Spec => [](Q!IndInv)
<1>1. Q!Init => Q!IndInv
  BY QueueInit
<1>2. Q!IndInv /\ [Q!Next]_(Q!vars) => Q!IndInv'
  BY QueueStep
<1> QED BY <1>1, <1>2, PTL DEF Q!Spec

\* The project brain keeps its inductive invariant, whatever calls race.
THEOREM BrainCorrect == Spec => []IndInv
<1> QED BY BrainInit, BrainStep, PTL DEF Spec

\* The final report of a task stays, with any deletions of its project.
THEOREM ReportsKept == Spec => ReportsAreKept
<1> QED BY BrainCorrect, ReportsStay, PTL DEF Spec, ReportsAreKept

\* The invariants of both sides, in the specification of the run.
THEOREM BridgeHolds == BridgeSpec => []QueueSound
<1>1. BridgeInit => QueueSound
  BY QueueInit, BrainInit DEF BridgeInit, QueueSound
<1>2. QueueSound /\ [BridgeNext]_bridgeVars => QueueSound'
  <2> SUFFICES ASSUME QueueSound, [BridgeNext]_bridgeVars PROVE QueueSound'
    OBVIOUS
  <2>1. side' = side
    BY DEF BridgeNext, bridgeVars
  <2>2. CASE side = "queue"
    <3>1. [Q!Next]_(Q!vars)
      BY <2>2 DEF BridgeNext, bridgeVars, queueVars, Q!vars
    <3> QED BY <2>1, <2>2, <3>1, QueueStep DEF QueueSound
  <2>3. CASE side = "brain"
    <3>1. [Next]_vars
      BY <2>3 DEF BridgeNext, bridgeVars
    <3> QED BY <2>1, <2>3, <3>1, BrainStep DEF QueueSound
  <2>4. CASE side \notin {"queue", "brain"}
    <3>1. UNCHANGED bridgeVars
      BY <2>4 DEF BridgeNext
    <3>2. [Next]_vars
      BY <3>1 DEF bridgeVars
    <3> QED BY <2>1, <2>4, <3>2, BrainStep DEF QueueSound
  <2> QED BY <2>2, <2>3, <2>4
<1> QED BY <1>1, <1>2, PTL DEF BridgeSpec

\* The offline queue implements ExactlyOnce: whatever is lost, crashes or runs side by
\* side, a key takes effect once, and a row that left the bridge's table took effect at
\* the server with the payload that was enqueued.
THEOREM WritesArrive == BridgeSpec => QueueIsExactlyOnce
<1>1. BridgeInit => Promise!Init
  BY DEF BridgeInit, Q!Init, Promise!Init, Made, Dropped
<1>2. QueueSound /\ [BridgeNext]_bridgeVars => [Promise!Next]_Promise!onceVars
  <2> SUFFICES ASSUME QueueSound, [BridgeNext]_bridgeVars PROVE [Promise!Next]_Promise!onceVars
    OBVIOUS
  <2>1. side' = side
    BY DEF BridgeNext, bridgeVars
  <2>2. CASE side = "queue"
    <3>1. [Q!Next]_(Q!vars)
      BY <2>2 DEF BridgeNext, bridgeVars, queueVars, Q!vars
    <3> QED BY <2>1, <2>2, <3>1, OnceStep DEF QueueSound
  <2>3. CASE side # "queue"
    BY <2>1, <2>3 DEF Made, Dropped, Promise!onceVars
  <2> QED BY <2>2, <2>3
<1> QED BY <1>1, <1>2, BridgeHolds, PTL DEF BridgeSpec, QueueIsExactlyOnce, Promise!Spec

\* A conflict holds up what was enqueued after it.
THEOREM ConflictsBlock == BridgeSpec => ConflictsHoldUp
<1>1. QueueSound /\ [BridgeNext]_bridgeVars => [side = "queue" => Q!HoldsUp]_bridgeVars
  <2> SUFFICES ASSUME QueueSound, [BridgeNext]_bridgeVars, side = "queue" PROVE Q!HoldsUp
    OBVIOUS
  <2>1. [Q!Next]_(Q!vars)
    BY DEF BridgeNext, bridgeVars, queueVars, Q!vars
  <2> QED BY <2>1, QueueHoldsUp DEF QueueSound
<1> QED BY <1>1, BridgeHolds, PTL DEF BridgeSpec, ConflictsHoldUp

\* Syncs that follow one another see each other: one workspace, no twins and nothing
\* called fresh that a later sync saw changed, unless they raced.
THEOREM SyncsAreOrdered == BridgeSpec => []SyncsSeeEachOther
<1>1. QueueSound => SyncsSeeEachOther
  BY SyncsFollow DEF QueueSound, SyncsSeeEachOther
<1> QED BY <1>1, BridgeHolds, PTL

\* A call that begins when its project is deleted leaves nothing behind, and a statement
\* that was deleted is not recorded again.
THEOREM DeletionIsTheEnd == BridgeSpec => []DeletedProjectStays
<1>1. QueueSound => DeletedProjectStays
  BY DeletionsFollow DEF QueueSound, DeletedProjectStays
<1> QED BY <1>1, BridgeHolds, PTL

\* A task has one final report for good.
THEOREM ReportsAreFinal == BridgeSpec => FinalReportsAreKept
<1>1. QueueSound /\ [BridgeNext]_bridgeVars => [side = "brain" => KeepsReports]_bridgeVars
  <2> SUFFICES ASSUME QueueSound, [BridgeNext]_bridgeVars, side = "brain" PROVE KeepsReports
    OBVIOUS
  <2>1. [Next]_vars
    BY DEF BridgeNext, bridgeVars
  <2> QED BY <2>1, ReportsStay DEF QueueSound
<1> QED BY <1>1, BridgeHolds, PTL DEF BridgeSpec, FinalReportsAreKept
=============================================================================

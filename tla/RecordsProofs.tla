--------------------------- MODULE RecordsProofs ---------------------------
(***************************************************************************)
(* The safety of the canonical records, for any executions, keys, todos,   *)
(* versions and texts.  Each of the components of MCRecords has an         *)
(* inductive invariant, which its run checks; the theorems of a component  *)
(* are about its own specification, and those at the end about the         *)
(* specification of the run.                                               *)
(***************************************************************************)
EXTENDS MCRecords, FiniteSetTheorems, TLAPS

(***************************************************************************)
(* Todos.                                                                  *)
(***************************************************************************)
\* The initial states satisfy the inductive invariant.
LEMMA TodosInit == T!Init => T!IndInv
BY DEF T!Init, T!IndInv, T!TypeOK, T!WantsInv, T!LocksInv, T!TookInv,
       T!OneWriterPerVersion, T!NoTodo, T!Stage, T!Answer, T!Want

\* What a request does with a row that it locked: the version goes up by one, and
\* nothing that was done or deleted is undone.
LEMMA TodosUpdated ==
    ASSUME NEW w \in T!Want, todo[w.id] \in T!Row,
           todo[w.id].version = w.version, w.version < MaxVersion
    PROVE  /\ T!Updated(w) \in T!Row
           /\ T!Updated(w).version = w.version + 1
           /\ T!Updated(w) # T!NoTodo
           /\ todo[w.id].done => T!Updated(w).done
           /\ todo[w.id].deleted => T!Updated(w).deleted
<1> DEFINE row == todo[w.id]
<1>0. /\ row \in T!Row
      /\ w.version \in 1..MaxVersion /\ w.version + 1 \in 1..MaxVersion
      /\ w.op \in {"complete", "delete"}
  BY MaxVersionAssumption DEF T!Want
<1>1. T!Updated(w) = IF w.op = "complete"
                     THEN [row EXCEPT !.done = TRUE, !.version = w.version + 1]
                     ELSE [row EXCEPT !.deleted = TRUE, !.version = w.version + 1]
  BY DEF T!Updated
<1> HIDE DEF row
<1>2. /\ T!Updated(w) \in T!Row
      /\ T!Updated(w).version = w.version + 1
      /\ row.done => T!Updated(w).done
      /\ row.deleted => T!Updated(w).deleted
  BY <1>0, <1>1 DEF T!Row
<1>3. T!Updated(w) # T!NoTodo
  BY <1>0, <1>2 DEF T!NoTodo
<1> QED BY <1>2, <1>3 DEF row

\* A request that begins names what it wants and touches no row.
LEMMA TodosAsk ==
    ASSUME NEW r \in TodoRequest, NEW w \in T!Want, T!IndInv, T!Ask(r, w) PROVE T!IndInv'
<1> USE DEF T!IndInv, T!Ask
<1>1. T!TypeOK'
  BY DEF T!TypeOK, T!Stage
<1>2. T!WantsInv'
  BY DEF T!TypeOK, T!WantsInv
<1>3. (\A t \in Todo : r \notin todoLock[t]) /\ r \notin took
  BY DEF T!TypeOK, T!WantsInv, T!LocksInv
<1>4. \A q \in TodoRequest : q # r => want'[q] = want[q] /\ todoPc'[q] = todoPc[q]
  BY DEF T!TypeOK
<1>5. T!LocksInv'
  BY <1>3, <1>4 DEF T!TypeOK, T!LocksInv
<1>6. T!TookInv' /\ T!OneWriterPerVersion'
  BY <1>3, <1>4 DEF T!TypeOK, T!TookInv, T!OneWriterPerVersion
<1> QED BY <1>1, <1>2, <1>5, <1>6

\* A new row is nobody's yet: no one has it locked, no one wrote upon it.
LEMMA TodosAdd == ASSUME NEW t \in Todo, T!IndInv, T!AddTodo(t) PROVE T!IndInv'
<1> USE DEF T!IndInv, T!AddTodo
<1>1. T!TypeOK'
  BY MaxVersionAssumption DEF T!TypeOK, T!Row
<1>2. \A u \in Todo : u # t => todo'[u] = todo[u]
  BY DEF T!TypeOK
<1>3. T!LocksInv'
  BY <1>2 DEF T!TypeOK, T!LocksInv
<1>4. \A r \in took : \A w \in want[r] : w.id # t
  BY DEF T!TypeOK, T!TookInv, T!NoTodo, T!Want
<1>5. T!TookInv'
  BY <1>2, <1>4 DEF T!TypeOK, T!TookInv, T!Want
<1> QED BY <1>1, <1>3, <1>5 DEF T!WantsInv, T!OneWriterPerVersion

\* A tombstone by plan leaves the version alone, and nobody has the row.
LEMMA TodosGovernedDelete ==
    ASSUME NEW t \in Todo, T!IndInv, T!GovernedDelete(t) PROVE T!IndInv'
<1> USE DEF T!IndInv, T!GovernedDelete
<1>1. todo[t] \in T!Row
  BY DEF T!TypeOK
<1>2. [todo[t] EXCEPT !.deleted = TRUE] \in T!Row
      /\ [todo[t] EXCEPT !.deleted = TRUE].version = todo[t].version
  BY <1>1 DEF T!Row
<1>3. \A u \in Todo : todo'[u].version = todo[u].version /\ (u # t => todo'[u] = todo[u])
  BY <1>2 DEF T!TypeOK
<1>4. T!TypeOK'
  BY <1>2 DEF T!TypeOK
<1>5. T!LocksInv'
  BY <1>3 DEF T!TypeOK, T!LocksInv
<1>6. T!TookInv'
  BY <1>3 DEF T!TypeOK, T!TookInv, T!Want
<1> QED BY <1>4, <1>5, <1>6 DEF T!WantsInv, T!OneWriterPerVersion

\* Reading decides, and changes nothing but the request.
LEMMA TodosRead == ASSUME NEW r \in TodoRequest, T!IndInv, T!ReadRow(r) PROVE T!IndInv'
<1> USE DEF T!IndInv, T!ReadRow
<1>1. T!TypeOK'
  BY DEF T!TypeOK, T!Stage, T!Answer, T!Verdict
<1>2. T!WantsInv'
  BY DEF T!TypeOK, T!WantsInv
<1>3. T!LocksInv'
  BY DEF T!TypeOK, T!LocksInv
<1> QED BY <1>1, <1>2, <1>3 DEF T!TookInv, T!OneWriterPerVersion

\* An UPDATE that matches locks a free row, at the version that the request named.
LEMMA TodosUpdate == ASSUME NEW r \in TodoRequest, T!IndInv, T!UpdateRow(r) PROVE T!IndInv'
<1> USE DEF T!IndInv, T!UpdateRow
<1>1. PICK w \in want[r] :
        /\ todoLock[w.id] = {}
        /\ todoLock' = IF T!Matches(w) THEN [todoLock EXCEPT ![w.id] = {r}] ELSE todoLock
  OBVIOUS
<1>2. w \in T!Want /\ w.id \in Todo /\ \A v \in want[r] : v = w
  BY <1>1 DEF T!TypeOK, T!WantsInv, T!Want
<1>3. T!TypeOK'
  BY <1>1, <1>2 DEF T!TypeOK, T!Stage
<1>4. T!WantsInv'
  BY DEF T!TypeOK, T!WantsInv
<1>5. T!Matches(w) => todo[w.id] # T!NoTodo
  BY <1>2 DEF T!Matches, T!NoTodo, T!Want
<1>6. T!LocksInv'
  BY <1>1, <1>2, <1>5 DEF T!TypeOK, T!LocksInv, T!Matches
<1> QED BY <1>3, <1>4, <1>6 DEF T!TookInv, T!OneWriterPerVersion

\* The commit of a request that has its row moves it past the version it named, which
\* no other request in took can have named too.
LEMMA TodosCommit == ASSUME NEW r \in TodoRequest, T!IndInv, T!Commit(r) PROVE T!IndInv'
<1> USE DEF T!IndInv
<1>1. PICK w \in want[r] :
        /\ r \in todoLock[w.id] => w.version < MaxVersion
        /\ todo' = IF r \in todoLock[w.id] THEN [todo EXCEPT ![w.id] = T!Updated(w)] ELSE todo
        /\ took' = IF r \in todoLock[w.id] THEN took \cup {r} ELSE took
        /\ todoLock' = [todoLock EXCEPT ![w.id] = @ \ {r}]
  BY DEF T!Commit
<1>2. /\ todoPc[r] = "commit" /\ todoPc' = [todoPc EXCEPT ![r] = "done"]
      /\ todoAnswer' = [todoAnswer EXCEPT ![r] = "accepted"]
      /\ want' = want
  BY DEF T!Commit
<1>3. w \in T!Want /\ w.id \in Todo /\ \A v \in want[r] : v = w
  BY <1>1 DEF T!TypeOK, T!WantsInv, T!Want
<1>4. r \notin took
  BY <1>2 DEF T!WantsInv
<1>5. CASE r \in todoLock[w.id]
  <2>1. /\ todo[w.id] \in T!Row /\ todo[w.id].version = w.version
        /\ todoLock[w.id] = {r}
    BY <1>3, <1>5 DEF T!TypeOK, T!LocksInv
  <2>2. T!Updated(w) \in T!Row /\ T!Updated(w).version = w.version + 1
    BY <1>1, <1>3, <1>5, <2>1, TodosUpdated
  <2>3. /\ \A t \in Todo : t # w.id => todo'[t] = todo[t] /\ todoLock'[t] = todoLock[t]
        /\ todo'[w.id] = T!Updated(w) /\ todoLock'[w.id] = {}
        /\ took' = took \cup {r}
    BY <1>1, <1>3, <1>5, <2>1 DEF T!TypeOK
  <2>4. \A t \in Todo : r \in todoLock[t] => t = w.id
    BY <1>3 DEF T!LocksInv
  <2>5. T!TypeOK'
    BY <1>1, <1>2, <1>3, <1>5, <2>2 DEF T!TypeOK, T!Stage, T!Answer
  <2>6. T!WantsInv'
    BY <1>2, <2>3 DEF T!TypeOK, T!WantsInv
  <2>7. T!LocksInv'
    BY <1>2, <2>3, <2>4 DEF T!TypeOK, T!LocksInv
  <2>8. \A q \in took : \A v \in want[q] : v.id = w.id => v.version < w.version
    BY <2>1 DEF T!TypeOK, T!TookInv
  <2>9. T!TookInv'
    BY <1>2, <1>3, <2>2, <2>3, <2>8 DEF T!TypeOK, T!TookInv, T!Want
  <2>10. T!OneWriterPerVersion'
    BY <1>2, <1>3, <2>3, <2>8 DEF T!TypeOK, T!OneWriterPerVersion, T!Want
  <2> QED BY <2>5, <2>6, <2>7, <2>9, <2>10
<1>6. CASE r \notin todoLock[w.id]
  <2>1. todo' = todo /\ took' = took /\ todoLock' = todoLock
    BY <1>1, <1>3, <1>6 DEF T!TypeOK
  <2>2. T!TypeOK' /\ T!WantsInv'
    BY <1>2, <2>1, <1>4 DEF T!TypeOK, T!WantsInv, T!Stage, T!Answer
  <2>3. \A t \in Todo : r \notin todoLock[t]
    BY <1>3, <1>6 DEF T!LocksInv
  <2>4. T!LocksInv'
    BY <1>2, <2>1, <2>3 DEF T!TypeOK, T!LocksInv
  <2> QED BY <1>2, <2>1, <2>2, <2>4 DEF T!TookInv, T!OneWriterPerVersion
<1> QED BY <1>5, <1>6

\* A rollback leaves its locks.
LEMMA TodosRollback == ASSUME NEW r \in TodoRequest, T!IndInv, T!Rollback(r) PROVE T!IndInv'
<1> USE DEF T!IndInv, T!Rollback
<1>1. T!TypeOK'
  BY DEF T!TypeOK, T!Stage, T!Answer
<1>2. T!WantsInv'
  BY DEF T!TypeOK, T!WantsInv
<1>3. T!LocksInv'
  BY DEF T!TypeOK, T!LocksInv
<1> QED BY <1>1, <1>2, <1>3 DEF T!TookInv, T!OneWriterPerVersion

\* Every step keeps the inductive invariant.
LEMMA TodosStep == T!IndInv /\ [T!Next]_(T!vars) => T!IndInv'
<1> SUFFICES ASSUME T!IndInv, [T!Next]_(T!vars) PROVE T!IndInv'
  OBVIOUS
<1>1. CASE UNCHANGED T!vars
  BY <1>1 DEF T!vars, T!IndInv, T!TypeOK, T!WantsInv, T!LocksInv, T!TookInv,
              T!OneWriterPerVersion
<1> QED
  BY <1>1, TodosAsk, TodosAdd, TodosGovernedDelete, TodosRead, TodosUpdate, TodosCommit,
     TodosRollback DEF T!Next

\* A step never reopens, revives or turns back a row.
LEMMA TodosKept == T!IndInv /\ [T!Next]_(T!vars) => T!KeepsTodos
<1> SUFFICES ASSUME T!IndInv, [T!Next]_(T!vars), NEW t \in Todo, todo[t] # T!NoTodo
             PROVE  /\ todo[t].deleted => todo'[t].deleted
                    /\ todo[t].done => todo'[t].done
                    /\ todo[t].version <= todo'[t].version
  BY DEF T!KeepsTodos
<1> USE DEF T!IndInv
<1>0. todo[t] \in T!Row /\ todo[t].version \in Nat
  BY DEF T!TypeOK, T!Row
<1>1. CASE todo' = todo
  BY <1>0, <1>1
<1>2. ASSUME NEW u \in Todo, T!AddTodo(u) PROVE todo'[t] = todo[t]
  BY <1>2 DEF T!AddTodo, T!TypeOK
<1>3. ASSUME NEW u \in Todo, T!GovernedDelete(u)
      PROVE  todo'[t] = todo[t] \/ todo'[t] = [todo[t] EXCEPT !.deleted = TRUE]
  BY <1>3 DEF T!GovernedDelete, T!TypeOK
<1>4. ASSUME NEW r \in TodoRequest, T!Commit(r), todo'[t] # todo[t]
      PROVE  \E w \in T!Want : /\ w.id = t /\ todo[t].version = w.version
                               /\ w.version < MaxVersion /\ todo'[t] = T!Updated(w)
  BY <1>4 DEF T!Commit, T!TypeOK, T!LocksInv
<1>5. [todo[t] EXCEPT !.deleted = TRUE].deleted
      /\ [todo[t] EXCEPT !.deleted = TRUE].done = todo[t].done
      /\ [todo[t] EXCEPT !.deleted = TRUE].version = todo[t].version
  BY <1>0 DEF T!Row
<1>6. CASE \E w \in T!Want : /\ w.id = t /\ todo[t].version = w.version
                             /\ w.version < MaxVersion /\ todo'[t] = T!Updated(w)
  BY <1>0, <1>6, TodosUpdated
<1>7. CASE todo'[t] = todo[t]
  BY <1>0, <1>7
<1>8. CASE todo'[t] = [todo[t] EXCEPT !.deleted = TRUE]
  BY <1>0, <1>5, <1>8
<1>9. ASSUME NEW r \in TodoRequest, T!ReadRow(r) \/ T!UpdateRow(r) \/ T!Rollback(r)
      PROVE  todo' = todo
  BY <1>9 DEF T!ReadRow, T!UpdateRow, T!Rollback
<1>10. ASSUME NEW r \in TodoRequest, NEW w \in T!Want, T!Ask(r, w) PROVE todo' = todo
  BY <1>10 DEF T!Ask
<1> QED
  BY <1>1, <1>2, <1>3, <1>4, <1>6, <1>7, <1>8, <1>9, <1>10 DEF T!Next, T!vars

(***************************************************************************)
(* Notes.                                                                  *)
(***************************************************************************)
\* The initial states satisfy the inductive invariant.
LEMMA NotesInit == N!Init => N!IndInv
BY DEF N!Init, N!IndInv, N!TypeOK, N!State, N!Stage, N!SaveRequest, N!SavedInv,
       N!CorrectionsInv, N!Open, N!OpenOverlap, N!Looked, N!MissedOverlap,
       N!ForksMissedOverlap, N!CopiesOverlap, N!ForksOverlap, N!SupersededIsGone

\* A step that only moves a request on keeps what was asked.
LEMMA NotesMoved ==
    ASSUME N!TypeOK, NEW r \in Saver, NEW stage \in N!Stage, N!To(r, stage)
    PROVE  /\ saver' \in [Saver -> N!SaveRequest]
           /\ saver'[r].stage = stage
           /\ \A q \in Saver : /\ q # r => saver'[q] = saver[q]
                               /\ saver'[q].text = saver[q].text
                               /\ saver'[q].dedupe = saver[q].dedupe
                               /\ saver'[q].old = saver[q].old
<1> DEFINE request == saver[r]
<1>1. request \in N!SaveRequest
  BY DEF N!TypeOK
<1>2. /\ saver' = [saver EXCEPT ![r] = [request EXCEPT !.stage = stage]]
      /\ saver \in [Saver -> N!SaveRequest]
  BY DEF N!To, N!TypeOK
<1> HIDE DEF request
<1>3. /\ [request EXCEPT !.stage = stage] \in N!SaveRequest
      /\ [request EXCEPT !.stage = stage].stage = stage
      /\ [request EXCEPT !.stage = stage].text = request.text
      /\ [request EXCEPT !.stage = stage].dedupe = request.dedupe
      /\ [request EXCEPT !.stage = stage].old = request.old
  BY <1>1 DEF N!SaveRequest
<1>4. /\ saver'[r] = [request EXCEPT !.stage = stage]
      /\ \A q \in Saver : q # r => saver'[q] = saver[q]
  BY <1>2
<1>5. saver' \in [Saver -> N!SaveRequest]
  BY <1>2, <1>3
<1>6. \A q \in Saver : q = r \/ saver'[q] = saver[q]
  BY <1>4
<1> QED BY <1>3, <1>4, <1>5, <1>6 DEF request

\* A request that begins is open beside all that are.
LEMMA NotesBegin ==
    ASSUME NEW r \in Saver, NEW t \in Text, NEW dedupe \in BOOLEAN,
           NEW old \in {{}} \cup {{n} : n \in Saver \ {r}},
           N!IndInv, N!Begin(r, t, dedupe, old)
    PROVE  N!IndInv'
<1> USE DEF N!IndInv
<1>0. old \subseteq Saver /\ r \notin old
  OBVIOUS
<1>1. /\ saver[r].stage = "idle"
      /\ saver'[r] = [stage |-> "look", text |-> {t}, dedupe |-> dedupe, old |-> old]
      /\ \A q \in Saver : q # r => saver'[q] = saver[q]
      /\ saver' \in [Saver -> N!SaveRequest]
      /\ note' = note /\ noteLock' = noteLock
  BY <1>0 DEF N!Begin, N!TypeOK, N!SaveRequest, N!Stage
<1>2. /\ met' \in [Saver -> SUBSET Saver]
      /\ \A q \in Saver : q # r => met[q] \subseteq met'[q]
      /\ \A q \in Saver : N!Open(q) => r \in met'[q]
  BY <1>1 DEF N!Begin, N!TypeOK, N!Open
<1>3. note[r] = "absent"
  BY <1>1 DEF N!SavedInv
<1>4. N!TypeOK'
  BY <1>1, <1>2 DEF N!TypeOK
<1>5. N!SavedInv'
  BY <1>0, <1>1, <1>3 DEF N!SavedInv
<1>6. N!CorrectionsInv'
  BY <1>1 DEF N!CorrectionsInv
<1>7. N!OpenOverlap'
  BY <1>1, <1>2 DEF N!OpenOverlap, N!Open
<1>8. N!MissedOverlap'
  BY <1>1, <1>2, <1>3 DEF N!MissedOverlap, N!Looked
<1>9. N!ForksMissedOverlap'
  BY <1>1, <1>2 DEF N!ForksMissedOverlap
<1>10. N!CopiesOverlap'
  BY <1>1, <1>2, <1>3 DEF N!CopiesOverlap
<1>11. N!ForksOverlap'
  BY <1>1, <1>2 DEF N!ForksOverlap
<1>12. N!SupersededIsGone'
  BY <1>1 DEF N!SupersededIsGone
<1> QED BY <1>4, <1>5, <1>6, <1>7, <1>8, <1>9, <1>10, <1>11, <1>12

\* Who gets past the look found no active copy: a copy there is comes later.
LEMMA NotesLook == ASSUME NEW r \in Saver, N!IndInv, N!Look(r) PROVE N!IndInv'
<1> USE DEF N!IndInv
<1>1. PICK stage \in {"duplicate", "insert"} :
        /\ N!To(r, stage)
        /\ stage = "insert" => ~saver[r].dedupe \/ N!SameContent(saver[r].text) = {}
  BY DEF N!Look
<1>2. saver[r].stage = "look" /\ note' = note /\ noteLock' = noteLock /\ met' = met
  BY DEF N!Look
<1>3. stage \in N!Stage
  BY DEF N!Stage
<1>4. /\ saver' \in [Saver -> N!SaveRequest]
      /\ saver'[r].stage = stage
      /\ \A q \in Saver : /\ q # r => saver'[q] = saver[q]
                          /\ saver'[q].text = saver[q].text
                          /\ saver'[q].dedupe = saver[q].dedupe
                          /\ saver'[q].old = saver[q].old
  BY <1>1, <1>3, NotesMoved
<1>5. N!TypeOK' /\ N!SavedInv' /\ N!CorrectionsInv' /\ N!OpenOverlap'
  BY <1>2, <1>4 DEF N!TypeOK, N!SavedInv, N!CorrectionsInv, N!OpenOverlap, N!Open
<1>6. \A n \in Saver : stage = "insert" /\ saver[r].dedupe /\ note[n] = "active"
        => saver[n].text # saver[r].text
  BY <1>1 DEF N!SameContent
<1>7. N!MissedOverlap'
  BY <1>2, <1>4, <1>6 DEF N!MissedOverlap, N!Looked
<1>8. N!ForksMissedOverlap' /\ N!CopiesOverlap' /\ N!ForksOverlap' /\ N!SupersededIsGone'
  BY <1>2, <1>4 DEF N!ForksMissedOverlap, N!CopiesOverlap, N!ForksOverlap, N!SupersededIsGone
<1> QED BY <1>5, <1>7, <1>8

\* A correction that finds its note active is the first but for those it runs beside.
LEMMA NotesInsert == ASSUME NEW r \in Saver, N!IndInv, N!Insert(r) PROVE N!IndInv'
<1> USE DEF N!IndInv
<1>1. PICK stage \in {"commit", "tombstone", "refused"} :
        /\ N!To(r, stage)
        /\ stage = "commit" => saver[r].old = {}
        /\ stage = "tombstone" => \A n \in saver[r].old : note[n] = "active"
  BY DEF N!Insert, N!MaySupersede
<1>2. saver[r].stage = "insert" /\ note' = note /\ noteLock' = noteLock /\ met' = met
  BY DEF N!Insert
<1>3. stage \in N!Stage
  BY DEF N!Stage
<1>4. /\ saver' \in [Saver -> N!SaveRequest]
      /\ saver'[r].stage = stage
      /\ \A q \in Saver : /\ q # r => saver'[q] = saver[q]
                          /\ saver'[q].text = saver[q].text
                          /\ saver'[q].dedupe = saver[q].dedupe
                          /\ saver'[q].old = saver[q].old
  BY <1>1, <1>3, NotesMoved
<1>5. N!TypeOK' /\ N!SavedInv' /\ N!OpenOverlap' /\ N!MissedOverlap'
  BY <1>2, <1>4 DEF N!TypeOK, N!SavedInv, N!OpenOverlap, N!Open, N!MissedOverlap, N!Looked
<1>6. N!CorrectionsInv'
  BY <1>1, <1>2, <1>4 DEF N!CorrectionsInv
<1>7. \A q \in Saver : stage = "tombstone" /\ saver[q].stage = "saved"
        /\ saver[r].old # {} => saver[q].old # saver[r].old
  BY <1>1 DEF N!SupersededIsGone
<1>8. N!ForksMissedOverlap'
  BY <1>1, <1>2, <1>4, <1>7 DEF N!ForksMissedOverlap
<1>9. N!CopiesOverlap' /\ N!ForksOverlap' /\ N!SupersededIsGone'
  BY <1>2, <1>4 DEF N!CopiesOverlap, N!ForksOverlap, N!SupersededIsGone
<1> QED BY <1>5, <1>6, <1>8, <1>9

\* The UPDATE of the old row waits, and writes nothing that others see yet.
LEMMA NotesTombstone == ASSUME NEW r \in Saver, N!IndInv, N!TombstoneOld(r) PROVE N!IndInv'
<1> USE DEF N!IndInv
<1>1. /\ saver[r].stage = "tombstone" /\ N!To(r, "commit")
      /\ note' = note /\ met' = met
      /\ noteLock' \in [Saver -> SUBSET Saver]
  BY DEF N!TombstoneOld, N!TypeOK
<1>2. /\ saver' \in [Saver -> N!SaveRequest]
      /\ saver'[r].stage = "commit"
      /\ \A q \in Saver : /\ q # r => saver'[q] = saver[q]
                          /\ saver'[q].text = saver[q].text
                          /\ saver'[q].dedupe = saver[q].dedupe
                          /\ saver'[q].old = saver[q].old
  BY <1>1, NotesMoved DEF N!Stage
<1>3. N!TypeOK' /\ N!SavedInv' /\ N!CorrectionsInv' /\ N!OpenOverlap' /\ N!MissedOverlap'
  BY <1>1, <1>2 DEF N!TypeOK, N!SavedInv, N!CorrectionsInv, N!OpenOverlap, N!Open,
                    N!MissedOverlap, N!Looked
<1>4. N!ForksMissedOverlap' /\ N!CopiesOverlap' /\ N!ForksOverlap' /\ N!SupersededIsGone'
  BY <1>1, <1>2 DEF N!ForksMissedOverlap, N!CopiesOverlap, N!ForksOverlap, N!SupersededIsGone
<1> QED BY <1>3, <1>4

\* A commit publishes the new row and the end of the old one; all that could have
\* missed the new one are still open, or missed it before.
LEMMA NotesCommit == ASSUME NEW r \in Saver, N!IndInv, N!Commit(r) PROVE N!IndInv'
<1> USE DEF N!IndInv
<1>1. /\ saver[r].stage = "commit" /\ N!To(r, "saved") /\ met' = met
      /\ noteLock' \in [Saver -> SUBSET Saver]
  BY DEF N!Commit, N!Released, N!TypeOK
<1>2. /\ saver' \in [Saver -> N!SaveRequest]
      /\ saver'[r].stage = "saved"
      /\ \A q \in Saver : /\ q # r => saver'[q] = saver[q]
                          /\ saver'[q].text = saver[q].text
                          /\ saver'[q].dedupe = saver[q].dedupe
                          /\ saver'[q].old = saver[q].old
  BY <1>1, NotesMoved DEF N!Stage
<1>3. /\ note' \in [Saver -> N!State]
      /\ note'[r] = "active"
      /\ \A n \in Saver : n # r => note'[n] = IF n \in saver[r].old THEN "deleted" ELSE note[n]
  BY DEF N!Commit, N!Written, N!TypeOK, N!State
<1>4. /\ note[r] = "absent" /\ r \notin saver[r].old
      /\ \A n \in saver[r].old : n \in Saver /\ note[n] # "absent"
  BY <1>1 DEF N!SavedInv, N!CorrectionsInv, N!TypeOK, N!SaveRequest
<1>5. N!TypeOK'
  BY <1>1, <1>2, <1>3 DEF N!TypeOK
<1>6. N!SavedInv'
  BY <1>1, <1>2, <1>3, <1>4 DEF N!SavedInv
<1>7. \A n \in Saver : note[n] # "absent" => note'[n] # "absent"
  BY <1>3, <1>4
<1>8. \A n \in Saver : note[n] = "deleted" => note'[n] = "deleted"
  BY <1>3, <1>4
<1>9. \A n \in Saver : n # r /\ note'[n] = "active" => note[n] = "active"
  BY <1>3
<1>10. N!CorrectionsInv'
  BY <1>2, <1>7 DEF N!CorrectionsInv, N!TypeOK, N!SaveRequest
<1>11. N!OpenOverlap'
  BY <1>1, <1>2 DEF N!OpenOverlap, N!Open
<1>12. N!MissedOverlap'
  BY <1>1, <1>2, <1>9 DEF N!MissedOverlap, N!Looked, N!OpenOverlap, N!Open
<1>13. N!ForksMissedOverlap'
  BY <1>1, <1>2 DEF N!ForksMissedOverlap, N!OpenOverlap, N!Open
<1>14. N!CopiesOverlap'
  BY <1>1, <1>2, <1>9 DEF N!CopiesOverlap, N!MissedOverlap, N!Looked
<1>15. N!ForksOverlap'
  BY <1>1, <1>2 DEF N!ForksOverlap, N!ForksMissedOverlap
<1>16. N!SupersededIsGone'
  BY <1>2, <1>3, <1>4, <1>8 DEF N!SupersededIsGone, N!TypeOK, N!SaveRequest
<1> QED BY <1>5, <1>6, <1>10, <1>11, <1>12, <1>13, <1>14, <1>15, <1>16

\* A refused request leaves nothing but its place.
LEMMA NotesRollback == ASSUME NEW r \in Saver, N!IndInv, N!Rollback(r) PROVE N!IndInv'
<1> USE DEF N!IndInv
<1>1. /\ N!Open(r) /\ N!To(r, "refused") /\ note' = note /\ met' = met
      /\ noteLock' \in [Saver -> SUBSET Saver]
  BY DEF N!Rollback, N!Released, N!TypeOK
<1>2. /\ saver' \in [Saver -> N!SaveRequest]
      /\ saver'[r].stage = "refused"
      /\ \A q \in Saver : /\ q # r => saver'[q] = saver[q]
                          /\ saver'[q].text = saver[q].text
                          /\ saver'[q].dedupe = saver[q].dedupe
                          /\ saver'[q].old = saver[q].old
  BY <1>1, NotesMoved DEF N!Stage
<1>3. N!TypeOK' /\ N!CorrectionsInv' /\ N!OpenOverlap' /\ N!MissedOverlap'
  BY <1>1, <1>2 DEF N!TypeOK, N!CorrectionsInv, N!OpenOverlap, N!Open, N!MissedOverlap, N!Looked
<1>5. N!SavedInv'
  BY <1>1, <1>2 DEF N!SavedInv, N!Open
<1>4. N!ForksMissedOverlap' /\ N!CopiesOverlap' /\ N!ForksOverlap' /\ N!SupersededIsGone'
  BY <1>1, <1>2 DEF N!ForksMissedOverlap, N!CopiesOverlap, N!ForksOverlap, N!SupersededIsGone
<1> QED BY <1>3, <1>4, <1>5

\* A deletion by plan only takes an active note away.
LEMMA NotesGovernedDelete ==
    ASSUME NEW n \in Saver, N!IndInv, N!GovernedDelete(n) PROVE N!IndInv'
<1> USE DEF N!IndInv
<1>1. /\ note[n] = "active" /\ note' = [note EXCEPT ![n] = "deleted"]
      /\ noteLock' = noteLock /\ saver' = saver /\ met' = met
  BY DEF N!GovernedDelete
<1>2. N!TypeOK' /\ N!SavedInv' /\ N!CorrectionsInv' /\ N!OpenOverlap'
  BY <1>1 DEF N!TypeOK, N!State, N!SaveRequest, N!SavedInv, N!CorrectionsInv,
              N!OpenOverlap, N!Open
<1>3. N!MissedOverlap' /\ N!CopiesOverlap'
  BY <1>1 DEF N!TypeOK, N!MissedOverlap, N!Looked, N!CopiesOverlap
<1>4. N!ForksMissedOverlap' /\ N!ForksOverlap'
  BY <1>1 DEF N!ForksMissedOverlap, N!ForksOverlap
<1>5. N!SupersededIsGone'
  BY <1>1 DEF N!TypeOK, N!SaveRequest, N!SupersededIsGone
<1> QED BY <1>2, <1>3, <1>4, <1>5

\* Every step keeps the inductive invariant.
LEMMA NotesStep == N!IndInv /\ [N!Next]_(N!vars) => N!IndInv'
<1> SUFFICES ASSUME N!IndInv, [N!Next]_(N!vars) PROVE N!IndInv'
  OBVIOUS
<1>1. CASE UNCHANGED N!vars
  BY <1>1 DEF N!vars, N!IndInv, N!TypeOK, N!SavedInv, N!CorrectionsInv, N!Open, N!OpenOverlap,
              N!Looked, N!MissedOverlap, N!ForksMissedOverlap, N!CopiesOverlap, N!ForksOverlap,
              N!SupersededIsGone
<1> QED
  BY <1>1, NotesBegin, NotesLook, NotesInsert, NotesTombstone, NotesCommit, NotesRollback,
     NotesGovernedDelete DEF N!Next

(***************************************************************************)
(* Expenses.                                                               *)
(***************************************************************************)
\* The initial states satisfy the inductive invariant.
LEMMA ExpensesInit == Init => IndInv
<1> SUFFICES ASSUME Init PROVE IndInv
  OBVIOUS
<1> USE DEF Init
<1>1. RowIds = {} /\ Tips = {}
  BY DEF RowIds, Tips
<1>2. TypeOK
  BY RequestAssumption, FS_CardinalityType DEF TypeOK, Stage
<1>3. AskedInv
  BY <1>1 DEF AskedInv, Named
<1>4. LocksInv /\ ClaimsInv
  BY DEF LocksInv, ClaimsInv
<1>5. AnswersInv
  BY DEF AnswersInv, NoAnswer
<1> QED BY <1>1, <1>2, <1>3, <1>4, <1>5 DEF IndInv, ChainsInv, OneTip, VersionsCountCorrections

\* What the guards and the rows look like from the types.
LEMMA ExpenseTypes ==
    ASSUME TypeOK
    PROVE  /\ \A x \in RowIds : expense[x] \in Row /\ x \in Request
           /\ \A r \in Request : \A b \in body[r] : b \in Body
           /\ \A r \in Request : Named(r) \subseteq Request
           /\ \A b \in Body : SlotOf(b) \in Slot /\ b.amount \in Amount
           /\ \A b \in Body : b.op = "correct" => b.of \in Request
           /\ Cardinality(Request) \in Nat
<1>1. \A r \in Request : \A b \in body[r] : b \in Body
  BY DEF TypeOK
<1>2. \A b \in Body : b.op = "correct" => b.of \in Request
  BY DEF Body
<1>3. \A b \in Body : SlotOf(b) \in Slot /\ b.amount \in Amount
  BY DEF Body, SlotOf, Slot
<1>4. \A x \in RowIds : expense[x] \in Row /\ x \in Request
  BY DEF TypeOK, RowIds
<1>5. Cardinality(Request) \in Nat
  BY RequestAssumption, FS_CardinalityType
<1>6. \A r \in Request : Named(r) \subseteq Request
  BY <1>1, <1>2 DEF Named
<1> QED BY <1>1, <1>2, <1>3, <1>4, <1>5, <1>6

\* The row that a correction names, in terms of what it was asked.
LEMMA NamedBy ==
    ASSUME NEW r \in Request, NEW b \in body[r], AskedInv
    PROVE  Named(r) = IF b.op = "correct" THEN {b.of} ELSE {}
BY DEF AskedInv, Named

\* A step that leaves the rows alone, and what the executions that inserted them were
\* asked, leaves the chains alone.
LEMMA SameLedger ==
    ASSUME IndInv, UNCHANGED expense,
           \A r \in RowIds : body'[r] = body[r]
    PROVE  /\ RowIds' = RowIds /\ Tips' = Tips
           /\ ChainsInv' /\ OneTip' /\ VersionsCountCorrections'
           /\ \A x, b : Records(x, b) => Records(x, b)'
<1>1. RowIds' = RowIds
  BY DEF RowIds
<1>2. \A r \in RowIds : Named(r)' = Named(r)
  BY DEF Named
<1>3. Tips' = Tips
  BY <1>1, <1>2 DEF Tips
<1>4. \A root : VersionsOf(root)' = VersionsOf(root)
  BY <1>1 DEF VersionsOf
<1>5. \A x, b : Records(x, b) => Records(x, b)'
  BY <1>1 DEF Records
<1> QED BY <1>1, <1>3, <1>4, <1>5 DEF IndInv, ChainsInv, OneTip, VersionsCountCorrections

\* A request names a row that is there, and begins without a row of its own.
LEMMA ExpensesAsk ==
    ASSUME NEW r \in Request, NEW b \in Body, IndInv, Ask(r, b) PROVE IndInv'
<1> USE DEF Ask
<1>1. pc[r] = "idle" /\ r \notin RowIds /\ body[r] = {}
  BY DEF IndInv, AskedInv
<1>2. /\ RowIds' = RowIds
      /\ ChainsInv' /\ OneTip' /\ VersionsCountCorrections'
      /\ \A x, c : Records(x, c) => Records(x, c)'
  BY <1>1, SameLedger DEF IndInv, TypeOK, RowIds
<1>3. \A q \in Request : q # r => body'[q] = body[q] /\ pc'[q] = pc[q] /\ Named(q)' = Named(q)
  BY DEF IndInv, TypeOK, Named
<1>4. /\ body'[r] = {b} /\ pc'[r] \in {"claiming", "preread"}
      /\ b.op = "correct" => b.of \in RowIds
      /\ pc'[r] = "preread" => b.op = "correct"
  BY ExpenseTypes DEF IndInv, TypeOK, RowIds, Body
<1>5. TypeOK'
  BY DEF IndInv, TypeOK, Stage
<1>6. AskedInv'
  <2>1. Named(r)' = IF b.op = "correct" THEN {b.of} ELSE {}
    BY <1>4 DEF Named
  <2> QED BY <1>1, <1>2, <1>3, <1>4, <2>1 DEF IndInv, AskedInv
<1>7. LocksInv'
  <2>1. r \notin UNION {lock[x] : x \in Request}
    BY <1>1 DEF IndInv, LocksInv
  <2>2. \A x \in Request : \A q \in lock[x] : q \in Request /\ q # r
    BY <2>1 DEF IndInv, TypeOK
  <2>3. \A q \in Request : pc'[q] = "commit" => q # r
    BY <1>4
  <2> QED BY <1>3, <2>2, <2>3 DEF IndInv, LocksInv, Active
<1>9. AnswersInv'
  BY <1>1, <1>2, <1>3 DEF IndInv, AnswersInv
<1>8. ClaimsInv'
  BY <1>2 DEF IndInv, ClaimsInv
<1> QED BY <1>2, <1>5, <1>6, <1>7, <1>8, <1>9 DEF IndInv

\* A step before the commit moves its execution on and leaves the ledger alone.
LEMMA ExpensesAside ==
    ASSUME NEW r \in Request, IndInv, UNCHANGED <<expense, claim, body>>,
           pc[r] \notin {"idle", "done"}, pc'[r] # "idle",
           pc'[r] = "guard" => Named(r) # {}, pc'[r] # "preread",
           \A q \in Request \ {r} : pc'[q] = pc[q] /\ answer'[q] = answer[q]
    PROVE  /\ ChainsInv' /\ OneTip' /\ VersionsCountCorrections'
           /\ AskedInv' /\ ClaimsInv'
           /\ answer'[r].kind \notin {"accepted", "replay"} => AnswersInv'
           /\ \A x, c : Records(x, c) => Records(x, c)'
           /\ RowIds' = RowIds
           /\ \A q \in Request : Named(q)' = Named(q)
<1>1. /\ RowIds' = RowIds
      /\ ChainsInv' /\ OneTip' /\ VersionsCountCorrections'
      /\ \A x, c : Records(x, c) => Records(x, c)'
  BY SameLedger DEF RowIds
<1>2. r \notin RowIds
  BY DEF IndInv, AskedInv
<1>3. \A q \in Request : Named(q)' = Named(q)
  BY DEF Named
<1>4. AskedInv'
  BY <1>1, <1>2, <1>3 DEF IndInv, AskedInv
<1>5. ClaimsInv'
  BY <1>1 DEF IndInv, ClaimsInv
<1>6. ASSUME answer'[r].kind \notin {"accepted", "replay"} PROVE AnswersInv'
  <2>1. SUFFICES ASSUME NEW q \in Request, answer'[q].kind \in {"accepted", "replay"}
                 PROVE  /\ pc'[q] = "done"
                        /\ answer'[q].outcome \in RowIds'
                        /\ \A b \in body'[q] : Records(answer[q].outcome, b)'
    BY DEF AnswersInv
  <2>2. q # r /\ answer'[q] = answer[q] /\ pc'[q] = pc[q]
    BY <1>6, <2>1
  <2> QED BY <1>1, <2>1, <2>2 DEF IndInv, AnswersInv
<1> QED BY <1>1, <1>3, <1>4, <1>5, <1>6

\* The first look at the row decides nothing that holds others up.
LEMMA ExpensesReadOld == ASSUME NEW r \in Request, IndInv, ReadOld(r) PROVE IndInv'
<1> USE DEF ReadOld
<1>1. PICK b \in body[r] :
          \/ /\ Active(b.of)
             /\ seen' = [seen EXCEPT ![r] = expense[b.of].version]
             /\ pc' = [pc EXCEPT ![r] = "claiming"]
             /\ UNCHANGED answer
          \/ /\ ~Active(b.of)
             /\ Finish(r, [kind |-> "not_found"])
             /\ UNCHANGED seen
  OBVIOUS
<1>2. /\ pc[r] = "preread" /\ pc'[r] \in {"claiming", "done"} /\ pc' \in [Request -> Stage]
      /\ \A q \in Request \ {r} : pc'[q] = pc[q] /\ answer'[q] = answer[q]
      /\ UNCHANGED <<expense, claim, holder, lock, body>>
  BY <1>1 DEF IndInv, TypeOK, Stage, Finish
<1>3. answer' \in [Request -> Answer \cup {NoAnswer}]
  BY <1>1 DEF IndInv, TypeOK, Answer, Finish
<1>4. answer'[r].kind \notin {"accepted", "replay"}
  BY <1>1, <1>2 DEF IndInv, TypeOK, Finish, AnswersInv
<1>5. seen' \in [Request -> 0..Cardinality(Request)] /\ \A q \in Request \ {r} : seen'[q] = seen[q]
  <2>1. b.of \in Request
    BY <1>2, NamedBy, ExpenseTypes DEF IndInv, AskedInv
  <2>2. Active(b.of) => expense[b.of].version \in 0..Cardinality(Request)
    BY <2>1, ExpenseTypes DEF IndInv, Active, RowIds, Row
  <2> QED BY <1>1, <2>2 DEF IndInv, TypeOK
<1>6. LocksInv'
  BY <1>2, <1>5, ExpensesAside DEF IndInv, TypeOK, LocksInv, Active
<1> QED BY <1>2, <1>3, <1>4, <1>5, <1>6, ExpensesAside DEF IndInv, TypeOK

\* The claim is taken or found; a claim that is found answers for its row.
LEMMA ExpensesClaimKey == ASSUME NEW r \in Request, IndInv, ClaimKey(r) PROVE IndInv'
<1> USE DEF ClaimKey
<1>1. PICK b \in body[r] :
          \/ /\ claim[SlotOf(b)] = NoClaim
             /\ holder' = [holder EXCEPT ![SlotOf(b)] = {r}]
             /\ pc' = [pc EXCEPT ![r] = IF b.op = "add" THEN "commit" ELSE "guard"]
             /\ UNCHANGED answer
          \/ /\ claim[SlotOf(b)] # NoClaim
             /\ Finish(r, IF claim[SlotOf(b)].digest = b
                          THEN [kind |-> "replay", outcome |-> claim[SlotOf(b)].outcome]
                          ELSE [kind |-> "idempotency_conflict"])
             /\ UNCHANGED holder
  OBVIOUS
<1>2. /\ b \in Body /\ SlotOf(b) \in Slot
      /\ Named(r) = IF b.op = "correct" THEN {b.of} ELSE {}
      /\ \A c \in body[r] : c = b
      /\ b.op \in {"add", "correct"}
  BY <1>1, ExpenseTypes, NamedBy DEF IndInv, AskedInv, Body
<1>3. /\ pc[r] = "claiming" /\ pc'[r] \in {"commit", "guard", "done"} /\ pc' \in [Request -> Stage]
      /\ pc'[r] = "commit" => Named(r) = {}
      /\ pc'[r] = "guard" => Named(r) # {}
      /\ \A q \in Request \ {r} : pc'[q] = pc[q] /\ answer'[q] = answer[q]
      /\ UNCHANGED <<expense, claim, lock, body, seen>>
  BY <1>1, <1>2 DEF IndInv, TypeOK, Stage, Finish
<1>4. claim[SlotOf(b)] # NoClaim => claim[SlotOf(b)] \in Claim
  BY <1>2 DEF IndInv, TypeOK
<1>5. /\ answer' \in [Request -> Answer \cup {NoAnswer}]
      /\ holder' \in [Slot -> SUBSET Request]
  <2>1. claim[SlotOf(b)] # NoClaim => claim[SlotOf(b)].outcome \in Request
    BY <1>4 DEF Claim
  <2>2. /\ [kind |-> "idempotency_conflict"] \in Answer
        /\ \A x \in Request : [kind |-> "replay", outcome |-> x] \in Answer
    BY DEF Answer
  <2>3. answer' = answer \/ \E a \in Answer : answer' = [answer EXCEPT ![r] = a]
    BY <1>1, <2>1, <2>2 DEF Finish
  <2>4. answer' \in [Request -> Answer \cup {NoAnswer}]
    BY <2>3 DEF IndInv, TypeOK
  <2> QED BY <1>1, <1>2, <2>4 DEF IndInv, TypeOK
<1>6. LocksInv'
  BY <1>3, ExpensesAside DEF IndInv, TypeOK, LocksInv, Active
<1>7. AnswersInv'
  <2>1. CASE claim[SlotOf(b)] # NoClaim /\ claim[SlotOf(b)].digest = b
    <3>1. answer'[r] = [kind |-> "replay", outcome |-> claim[SlotOf(b)].outcome] /\ pc'[r] = "done"
      BY <1>1, <2>1 DEF IndInv, TypeOK, Finish
    <3>2. Records(claim[SlotOf(b)].outcome, b)'
      BY <1>2, <1>3, <2>1, ExpensesAside DEF IndInv, ClaimsInv
    <3>3. Records(answer[r].outcome, b)'
      BY <3>1, <3>2 DEF Records
    <3>4. \A q \in Request \ {r} : answer'[q].kind \in {"accepted", "replay"} =>
              \A c \in body'[q] : Records(answer[q].outcome, c)'
      BY <1>3, ExpensesAside DEF IndInv, AnswersInv, Records
    <3>5. \A q \in Request \ {r} : answer'[q].kind \in {"accepted", "replay"} =>
              pc'[q] = "done" /\ answer'[q].outcome \in RowIds'
      BY <1>3, ExpensesAside DEF IndInv, AnswersInv
    <3>6. body'[r] = body[r] /\ answer'[r].outcome \in RowIds'
      BY <1>3, <3>3 DEF Records
    <3> QED BY <1>2, <3>1, <3>3, <3>4, <3>5, <3>6 DEF AnswersInv
  <2>2. CASE ~ (claim[SlotOf(b)] # NoClaim /\ claim[SlotOf(b)].digest = b)
    <3>1. answer'[r].kind \notin {"accepted", "replay"}
      BY <1>1, <1>3, <2>2 DEF IndInv, TypeOK, Finish, AnswersInv
    <3> QED BY <1>3, <3>1, ExpensesAside
  <2> QED BY <2>1, <2>2
<1> QED BY <1>3, <1>5, <1>6, <1>7, ExpensesAside DEF IndInv, TypeOK

\* The guarded tombstone locks an active row, at the version that was read, or fails.
LEMMA ExpensesTombstone == ASSUME NEW r \in Request, IndInv, TombstoneOld(r) PROVE IndInv'
<1> USE DEF TombstoneOld
<1>1. PICK b \in body[r] :
          /\ lock[b.of] = {}
          /\ \/ /\ GuardHolds(r, b)
                /\ lock' = [lock EXCEPT ![b.of] = {r}]
                /\ pc' = [pc EXCEPT ![r] = "commit"]
                /\ UNCHANGED <<holder, answer>>
             \/ /\ ~GuardHolds(r, b)
                /\ Finish(r, [kind |-> "version_conflict"])
                /\ holder' = [holder EXCEPT ![SlotOf(b)] = @ \ {r}]
                /\ UNCHANGED lock
  OBVIOUS
<1>2. /\ b \in Body /\ SlotOf(b) \in Slot
      /\ Named(r) = {b.of} /\ b.of \in Request
  BY <1>1, ExpenseTypes, NamedBy DEF IndInv, AskedInv
<1>3. /\ pc[r] = "guard" /\ pc'[r] \in {"commit", "done"} /\ pc' \in [Request -> Stage]
      /\ \A q \in Request \ {r} : pc'[q] = pc[q] /\ answer'[q] = answer[q]
      /\ UNCHANGED <<expense, claim, body, seen>>
  BY <1>1 DEF IndInv, TypeOK, Stage, Finish
<1>4. /\ answer' \in [Request -> Answer \cup {NoAnswer}]
      /\ answer'[r].kind \notin {"accepted", "replay"}
  BY <1>1, <1>3 DEF IndInv, TypeOK, Answer, Finish, AnswersInv
<1>5. holder' \in [Slot -> SUBSET Request] /\ lock' \in [Request -> SUBSET Request]
  BY <1>1, <1>2 DEF IndInv, TypeOK
<1>6. LocksInv'
  <2>1. \A q \in Request : Named(q)' = Named(q)
    BY <1>3, ExpensesAside
  <2>2. CASE lock' = [lock EXCEPT ![b.of] = {r}] /\ GuardHolds(r, b) /\ pc'[r] = "commit"
    <3>1. \A x \in Request : x # b.of => lock'[x] = lock[x]
      BY <2>2 DEF IndInv, TypeOK
    <3>2. lock'[b.of] = {r} /\ lock[b.of] = {}
      BY <1>1, <1>2, <2>2 DEF IndInv, TypeOK
    <3>3. \A x \in Request : \A q \in lock[x] : q # r /\ q \in Request
      BY <1>3 DEF IndInv, TypeOK, LocksInv
    <3>4. \A q \in Request : pc[q] = "commit" => b.of \notin Named(q)
      BY <3>2, <1>2 DEF IndInv, LocksInv
    <3> QED BY <1>2, <1>3, <2>1, <2>2, <3>1, <3>2, <3>3, <3>4, ExpenseTypes
            DEF IndInv, LocksInv, Active, GuardHolds
  <2>3. CASE lock' = lock /\ pc'[r] = "done"
    BY <1>3, <2>1, <2>3 DEF IndInv, TypeOK, LocksInv, Active
  <2> QED BY <1>1, <1>3, <2>2, <2>3 DEF IndInv, TypeOK, Finish
<1> QED BY <1>3, <1>4, <1>5, <1>6, ExpensesAside DEF IndInv, TypeOK

\* Whoever gives up lets go of its key and its row.
LEMMA ExpensesRollback == ASSUME NEW r \in Request, IndInv, Rollback(r) PROVE IndInv'
<1> USE DEF Rollback
<1>1. /\ pc[r] \notin {"idle", "done"} /\ pc'[r] = "done" /\ pc' \in [Request -> Stage]
      /\ \A q \in Request \ {r} : pc'[q] = pc[q] /\ answer'[q] = answer[q]
      /\ UNCHANGED <<expense, claim, body, seen>>
  BY DEF IndInv, TypeOK, Stage, Finish
<1>2. /\ answer' \in [Request -> Answer \cup {NoAnswer}]
      /\ answer'[r].kind \notin {"accepted", "replay"}
  BY DEF IndInv, TypeOK, Answer, Finish
<1>3. holder' \in [Slot -> SUBSET Request] /\ lock' \in [Request -> SUBSET Request]
  BY DEF IndInv, TypeOK
<1>4. LocksInv'
  <2>1. \A q \in Request : Named(q)' = Named(q)
    BY <1>1, ExpensesAside
  <2>2. \A x \in Request : lock'[x] = lock[x] \ {r}
    OBVIOUS
  <2>3. \A q \in Request \ {r} : pc[q] = "commit" =>
            \A x \in Named(q) : x \in Request /\ lock[x] = {q}
    BY ExpenseTypes DEF IndInv, LocksInv
  <2> QED BY <1>1, <2>1, <2>2, <2>3 DEF IndInv, TypeOK, LocksInv, Active
<1> QED BY <1>1, <1>2, <1>3, <1>4, ExpensesAside DEF IndInv, TypeOK

\* A deletion by plan ends what an expense counts for, and no chain.
LEMMA ExpensesGovernedDelete ==
    ASSUME NEW d \in Request, IndInv, GovernedDelete(d) PROVE IndInv'
<1> USE DEF GovernedDelete
<1> DEFINE row == expense[d]
<1>1. row \in Row /\ expense' = [expense EXCEPT ![d] = [row EXCEPT !.active = FALSE]]
  BY DEF Active, IndInv, TypeOK
<1>2. /\ [row EXCEPT !.active = FALSE] \in Row
      /\ [row EXCEPT !.active = FALSE].version = row.version
      /\ [row EXCEPT !.active = FALSE].amount = row.amount
      /\ [row EXCEPT !.active = FALSE].root = row.root
      /\ [row EXCEPT !.active = FALSE].active = FALSE
      /\ [row EXCEPT !.active = FALSE] # NoRow
  <2> HIDE DEF row
  <2> QED BY <1>1 DEF Row, NoRow
<1>3. \A x \in Request : /\ x # d => expense'[x] = expense[x]
                         /\ expense'[d] = [row EXCEPT !.active = FALSE]
  BY <1>1 DEF IndInv, TypeOK
<1>4. /\ expense' \in [Request -> Row \cup {NoRow}]
      /\ RowIds' = RowIds
      /\ \A x \in Request : /\ expense'[x].version = expense[x].version
                            /\ expense'[x].amount = expense[x].amount
                            /\ expense'[x].root = expense[x].root
                            /\ expense'[x].active => expense[x].active
  BY <1>1, <1>2, <1>3 DEF IndInv, TypeOK, RowIds, Active
<1> HIDE DEF row
<1>5. \A q \in Request : Named(q)' = Named(q)
  BY DEF Named
<1>6. /\ Tips' = Tips
      /\ \A root : VersionsOf(root)' = VersionsOf(root)
      /\ Tips \subseteq Request /\ RowIds \subseteq Request
  BY <1>4, <1>5, ExpenseTypes DEF Tips, VersionsOf, RowIds
<1>7. ChainsInv' /\ OneTip' /\ VersionsCountCorrections'
  BY <1>4, <1>6 DEF IndInv, ChainsInv, OneTip, VersionsCountCorrections
<1>8. \A x, b : Records(x, b) => Records(x, b)'
  BY <1>4, <1>6 DEF Records
<1>9. ClaimsInv' /\ AnswersInv'
  <2>1. \A x, b : Records(x, b)' => x \in RowIds'
    BY DEF Records
  <2> QED BY <1>4, <1>8, <2>1 DEF IndInv, ClaimsInv, AnswersInv
<1>10. AskedInv'
  BY <1>4, <1>5 DEF IndInv, AskedInv
<1>11. LocksInv'
  <2>1. \A x \in Request : \A q \in lock[x] : x # d /\ q \in Request
    BY DEF IndInv, TypeOK, LocksInv
  <2> QED BY <1>3, <1>5, <2>1 DEF IndInv, LocksInv, Active
<1>12. TypeOK'
  BY <1>4 DEF IndInv, TypeOK
<1> QED BY <1>7, <1>9, <1>10, <1>11, <1>12 DEF IndInv

\* A chain whose end is x, and a row more, counts one version more than x.
LEMMA OneVersionMore ==
    ASSUME NEW x \in Tips, NEW r \in Request \ RowIds, IndInv
    PROVE  /\ Cardinality(VersionsOf(expense[x].root) \cup {r}) = expense[x].version + 1
           /\ expense[x].version + 1 \in 1..Cardinality(Request)
<1> DEFINE chain == VersionsOf(expense[x].root)
<1>1. chain \subseteq Request /\ r \notin chain /\ r \in Request /\ x \in Request
  BY DEF VersionsOf, RowIds, Tips
<1>2. IsFiniteSet(chain)
  BY <1>1, RequestAssumption, FS_Subset
<1>3. Cardinality(chain \cup {r}) = Cardinality(chain) + 1
  BY <1>1, <1>2, FS_AddElement
<1>4. Cardinality(chain \cup {r}) <= Cardinality(Request)
  BY <1>1, RequestAssumption, FS_Subset
<1>5. Cardinality(chain) \in Nat /\ Cardinality(Request) \in Nat
  BY <1>2, RequestAssumption, FS_CardinalityType
<1>6. expense[x].version = Cardinality(chain)
  BY DEF IndInv, VersionsCountCorrections
<1> QED BY <1>3, <1>4, <1>5, <1>6

\* The rows after the commit of an addition.
LEMMA AddedRows ==
    ASSUME NEW r \in Request, NEW b \in body[r], IndInv, b.op = "add", r \notin RowIds,
           expense' = Added(r, b)
    PROVE  /\ expense' \in [Request -> Row \cup {NoRow}]
           /\ expense'[r] = [version |-> 1, amount |-> b.amount, root |-> r, active |-> TRUE]
           /\ \A x \in Request \ {r} : expense'[x] = expense[x]
           /\ RowIds' = RowIds \cup {r}
<1> DEFINE new == [version |-> 1, amount |-> b.amount, root |-> r, active |-> TRUE]
<1>1. Cardinality(Request) \in Nat /\ Cardinality(Request) # 0
  BY RequestAssumption, FS_CardinalityType, FS_EmptySet
<1>2. b.amount \in Amount
  BY ExpenseTypes DEF IndInv
<1>3. new \in Row /\ new # NoRow
  BY <1>1, <1>2 DEF Row, NoRow
<1>4. expense' = [expense EXCEPT ![r] = new]
  BY DEF Added
<1> QED BY <1>3, <1>4 DEF IndInv, TypeOK, RowIds

\* The rows after the commit of a correction.
LEMMA CorrectedRows ==
    ASSUME NEW r \in Request, NEW b \in body[r], IndInv, pc[r] = "commit",
           b.op = "correct", r \notin RowIds, expense' = Corrected(r, b)
    PROVE  /\ b.of \in RowIds \cap Tips /\ b.of # r
           /\ expense' \in [Request -> Row \cup {NoRow}]
           /\ expense'[r].version = expense[b.of].version + 1
           /\ expense'[r].amount = b.amount
           /\ expense'[r].root = expense[b.of].root
           /\ expense'[b.of].amount = expense[b.of].amount
           /\ expense'[b.of].root = expense[b.of].root
           /\ ~expense'[b.of].active
           /\ \A x \in Request \ {r, b.of} : expense'[x] = expense[x]
           /\ RowIds' = RowIds \cup {r}
<1> DEFINE old == expense[b.of]
           version == seen[r] + 1
           new == [version |-> version, amount |-> b.amount, root |-> old.root, active |-> TRUE]
<1>1. /\ b.of \in RowIds /\ b.of # r /\ b.of \in Request
      /\ lock[b.of] = {r} /\ Active(b.of) /\ old.version = seen[r]
      /\ b.amount \in Amount
  BY NamedBy, ExpenseTypes DEF IndInv, AskedInv, LocksInv
<1>2. b.of \in Tips
  BY <1>1 DEF IndInv, ChainsInv, Active
<1>3. old \in Row /\ version \in 1..Cardinality(Request) /\ version = old.version + 1
  BY <1>1, <1>2, ExpenseTypes, OneVersionMore DEF IndInv
<1>4. expense' = [expense EXCEPT ![b.of] = [old EXCEPT !.active = FALSE, !.version = version],
                                 ![r] = new]
  BY <1>1 DEF Corrected, IndInv, TypeOK
<1> HIDE DEF old, version
<1>5. /\ [old EXCEPT !.active = FALSE, !.version = version] \in Row
      /\ [old EXCEPT !.active = FALSE, !.version = version].amount = old.amount
      /\ [old EXCEPT !.active = FALSE, !.version = version].root = old.root
      /\ [old EXCEPT !.active = FALSE, !.version = version].active = FALSE
      /\ [old EXCEPT !.active = FALSE, !.version = version] # NoRow
  BY <1>3 DEF Row, NoRow
<1>6. new \in Row /\ new # NoRow
  BY <1>1, <1>3 DEF Row, NoRow
<1>7. /\ expense'[b.of] = [old EXCEPT !.active = FALSE, !.version = version]
      /\ expense'[r] = new
      /\ \A x \in Request \ {r, b.of} : expense'[x] = expense[x]
      /\ expense' \in [Request -> Row \cup {NoRow}]
  BY <1>1, <1>4, <1>5, <1>6 DEF IndInv, TypeOK
<1>8. RowIds' = RowIds \cup {r}
  BY <1>1, <1>5, <1>6, <1>7 DEF RowIds
<1> QED BY <1>1, <1>2, <1>3, <1>5, <1>6, <1>7, <1>8 DEF old

\* A committed addition is a chain of its own.
LEMMA AddedChains ==
    ASSUME NEW r \in Request, NEW b \in body[r], IndInv, b.op = "add", r \notin RowIds,
           expense' = Added(r, b), body' = body
    PROVE  ChainsInv' /\ OneTip' /\ VersionsCountCorrections'
<1>1. /\ expense'[r].version = 1 /\ expense'[r].root = r
      /\ \A x \in RowIds : expense'[x] = expense[x] /\ expense'[x].root \in RowIds
      /\ RowIds' = RowIds \cup {r}
  <2>1. RowIds \subseteq Request \ {r} /\ \A x \in RowIds : expense[x].root \in RowIds
    BY DEF IndInv, ChainsInv, RowIds
  <2>2. /\ expense'[r] = [version |-> 1, amount |-> b.amount, root |-> r, active |-> TRUE]
        /\ \A x \in Request \ {r} : expense'[x] = expense[x]
        /\ RowIds' = RowIds \cup {r}
    BY AddedRows
  <2> QED BY <2>1, <2>2
<1>2. /\ \A q \in Request : Named(q)' = Named(q) /\ Named(q) \subseteq RowIds
      /\ Named(r) = {} /\ RowIds \subseteq Request
  BY NamedBy DEF Named, IndInv, AskedInv, RowIds
<1>3. Tips' = Tips \cup {r}
  BY <1>1, <1>2 DEF Tips
<1>4. /\ VersionsOf(r)' = {r}
      /\ \A x \in RowIds : VersionsOf(expense[x].root)' = VersionsOf(expense[x].root)
  <2>1. \A root : VersionsOf(root)' = {x \in RowIds \cup {r} : expense'[x].root = root}
    BY <1>1 DEF VersionsOf
  <2>2. VersionsOf(r)' = {r}
    BY <1>1, <2>1
  <2>3. ASSUME NEW x \in RowIds
        PROVE  {y \in RowIds \cup {r} : expense'[y].root = expense'[x].root}
                 = {y \in RowIds : expense[y].root = expense[x].root}
    BY <1>1
  <2>4. RowIds' = RowIds \cup {r}
    BY <1>1
  <2> QED BY <2>2, <2>3, <2>4 DEF VersionsOf
<1>5. Tips \subseteq RowIds
  BY DEF Tips
<1>6. ChainsInv'
  BY <1>1, <1>3, <1>5 DEF IndInv, ChainsInv
<1>7. OneTip'
  BY <1>1, <1>3, <1>5 DEF IndInv, OneTip
<1>8. VersionsCountCorrections'
  <2>1. Cardinality({r}) = 1
    BY FS_Singleton
  <2>2. \A x \in Tips' : expense'[x].version = Cardinality(VersionsOf(expense[x].root)')
    BY <1>1, <1>3, <1>4, <1>5, <2>1 DEF IndInv, VersionsCountCorrections
  <2> QED BY <2>2 DEF VersionsCountCorrections, VersionsOf
<1> QED BY <1>6, <1>7, <1>8

\* A committed correction takes the place of the end of its chain.
LEMMA CorrectedChains ==
    ASSUME NEW r \in Request, NEW b \in body[r], IndInv, pc[r] = "commit",
           b.op = "correct", r \notin RowIds, expense' = Corrected(r, b), body' = body
    PROVE  ChainsInv' /\ OneTip' /\ VersionsCountCorrections'
<1> DEFINE old == b.of
<1>0. PICK chain : chain = expense[old].root
  OBVIOUS
<1>1. /\ old \in RowIds /\ old \in Tips /\ old # r
      /\ expense'[r].version = expense[old].version + 1
      /\ expense'[r].root = chain
      /\ ~expense'[old].active
      /\ \A x \in RowIds : x # old => expense'[x] = expense[x]
      /\ \A x \in RowIds : expense'[x].root = expense[x].root /\ expense[x].root \in RowIds
      /\ RowIds' = RowIds \cup {r}
  BY <1>0, CorrectedRows DEF IndInv, ChainsInv, RowIds
<1>2. /\ \A q \in Request : Named(q)' = Named(q) /\ Named(q) \subseteq RowIds
      /\ Named(r) = {old} /\ RowIds \subseteq Request
  BY NamedBy DEF Named, IndInv, AskedInv, RowIds
<1>3. Tips' = (Tips \ {old}) \cup {r}
  BY <1>1, <1>2 DEF Tips
<1>4. Tips \subseteq RowIds
  BY DEF Tips
<1> HIDE DEF old
<1>5. ChainsInv'
  <2>1. \A x \in RowIds' : expense'[x].root \in RowIds'
    BY <1>0, <1>1
  <2>2. \A x \in RowIds' : expense'[x].active => x \in Tips'
    BY <1>1, <1>3 DEF IndInv, ChainsInv
  <2>3. \A x \in RowIds : \E y \in Tips' : expense'[y].root = expense[x].root
    <3>1. SUFFICES ASSUME NEW x \in RowIds
                   PROVE  \E y \in Tips' : expense'[y].root = expense[x].root
      OBVIOUS
    <3>2. PICK y \in Tips : expense[y].root = expense[x].root
      BY DEF IndInv, ChainsInv
    <3>3. CASE y = old
      BY <1>0, <1>1, <1>3, <3>2, <3>3
    <3>4. CASE y # old
      BY <1>1, <1>3, <1>4, <3>2, <3>4
    <3> QED BY <3>3, <3>4
  <2>4. \A x \in RowIds' : \E y \in Tips' : expense'[y].root = expense'[x].root
    BY <1>1, <2>3, <1>3
  <2> QED BY <2>1, <2>2, <2>4 DEF ChainsInv
<1>6. \A x \in Tips : x # old => expense[x].root # chain
  BY <1>0, <1>1 DEF IndInv, OneTip
<1>7. OneTip'
  BY <1>1, <1>3, <1>4, <1>6 DEF IndInv, OneTip
<1>8. /\ VersionsOf(chain)' = VersionsOf(chain) \cup {r}
      /\ \A root : root # chain => VersionsOf(root)' = VersionsOf(root)
  BY <1>0, <1>1 DEF VersionsOf
<1>9. VersionsCountCorrections'
  <2>1. expense'[r].version = Cardinality(VersionsOf(expense[r].root)')
    <3>1. Cardinality(VersionsOf(chain) \cup {r}) = expense[old].version + 1
      BY <1>0, <1>1, OneVersionMore
    <3>2. VersionsOf(expense[r].root)' = VersionsOf(chain)'
      BY <1>1 DEF VersionsOf
    <3>3. VersionsOf(expense[r].root)' = VersionsOf(chain) \cup {r}
      BY <1>8, <3>2
    <3> QED BY <1>1, <3>1, <3>3
  <2>2. \A x \in Tips \ {old} : expense'[x].version = Cardinality(VersionsOf(expense[x].root)')
    BY <1>1, <1>4, <1>6, <1>8 DEF IndInv, VersionsCountCorrections, VersionsOf
  <2> QED BY <1>3, <2>1, <2>2 DEF VersionsCountCorrections, VersionsOf
<1> QED BY <1>5, <1>7, <1>9

\* What the commit publishes: the row that was asked for, beside all that were there.
LEMMA CommittedRows ==
    ASSUME NEW r \in Request, NEW b \in body[r], IndInv, pc[r] = "commit",
           expense' = Ledger(r, b), body' = body
    PROVE  /\ expense' \in [Request -> Row \cup {NoRow}]
           /\ ChainsInv' /\ OneTip' /\ VersionsCountCorrections'
           /\ Records(r, b)'
           /\ \A x, c : Records(x, c) => Records(x, c)'
           /\ RowIds' = RowIds \cup {r}
           /\ \A x \in Request : (\A q \in lock[x] : q # r) /\ x # r => 
                \A q \in lock[x] : Active(x)' /\ expense'[x] = expense[x]
<1>1. r \notin RowIds /\ b \in Body /\ b.op \in {"add", "correct"}
  BY ExpenseTypes DEF IndInv, AskedInv, Body
<1>2. CASE b.op = "add"
  <2>1. expense' = Added(r, b)
    BY <1>2 DEF Ledger
  <2>2. /\ expense' \in [Request -> Row \cup {NoRow}]
        /\ expense'[r] = [version |-> 1, amount |-> b.amount, root |-> r, active |-> TRUE]
        /\ \A x \in Request \ {r} : expense'[x] = expense[x]
        /\ RowIds' = RowIds \cup {r}
    BY <1>1, <1>2, <2>1, AddedRows
  <2>3. \A x \in RowIds : expense'[x] = expense[x]
    BY <1>1, <2>2 DEF RowIds
  <2>4. Records(r, b)' /\ \A x, c : Records(x, c) => Records(x, c)'
    BY <1>2, <2>2, <2>3 DEF Records
  <2>5. \A x \in Request : \A q \in lock[x] : Active(x)' /\ expense'[x] = expense[x]
    BY <1>1, <2>3 DEF IndInv, LocksInv, Active, RowIds
  <2> QED BY <1>1, <1>2, <2>1, <2>2, <2>4, <2>5, AddedChains
<1>3. CASE b.op = "correct"
  <2>1. expense' = Corrected(r, b)
    BY <1>3 DEF Ledger
  <2>2. /\ b.of \in RowIds
        /\ expense' \in [Request -> Row \cup {NoRow}]
        /\ expense'[r].amount = b.amount
        /\ expense'[r].root = expense'[b.of].root
        /\ \A x \in Request \ {r, b.of} : expense'[x] = expense[x]
        /\ \A x \in RowIds : expense'[x].amount = expense[x].amount
                             /\ expense'[x].root = expense[x].root
        /\ RowIds' = RowIds \cup {r}
    BY <1>1, <1>3, <2>1, CorrectedRows DEF RowIds
  <2>3. Records(r, b)' /\ \A x, c : Records(x, c) => Records(x, c)'
    BY <2>2 DEF Records
  <2>4. \A x \in Request : (\A q \in lock[x] : q # r) => x # b.of
    BY <1>3, NamedBy DEF IndInv, LocksInv
  <2>5. \A x \in Request : (\A q \in lock[x] : q # r) /\ x # r =>
            \A q \in lock[x] : Active(x)' /\ expense'[x] = expense[x]
    BY <2>2, <2>4 DEF IndInv, LocksInv, Active
  <2> QED BY <1>1, <1>3, <2>1, <2>2, <2>3, <2>5, CorrectedChains
<1> QED BY <1>1, <1>2, <1>3

\* A commit answers for the row that it publishes, if the answer arrives.
LEMMA ExpensesCommit == ASSUME NEW r \in Request, IndInv, Commit(r) PROVE IndInv'
<1>1. PICK b \in body[r] :
        /\ expense' = Ledger(r, b)
        /\ claim' = [claim EXCEPT ![SlotOf(b)] = [taken |-> TRUE, digest |-> b, outcome |-> r]]
        /\ holder' = [holder EXCEPT ![SlotOf(b)] = @ \ {r}]
  BY DEF Commit
<1>2. /\ pc[r] = "commit" /\ pc'[r] = "done" /\ pc' \in [Request -> Stage]
      /\ \A q \in Request \ {r} : pc'[q] = pc[q] /\ answer'[q] = answer[q]
      /\ lock' = [x \in Request |-> lock[x] \ {r}]
      /\ body' = body /\ seen' = seen
  BY DEF IndInv, TypeOK, Stage, Finish, Commit
<1>3. /\ b \in Body /\ SlotOf(b) \in Slot /\ r \notin RowIds
      /\ \A c \in body[r] : c = b
  BY <1>1, <1>2, ExpenseTypes DEF IndInv, AskedInv
<1>4. /\ expense' \in [Request -> Row \cup {NoRow}]
      /\ ChainsInv' /\ OneTip' /\ VersionsCountCorrections'
      /\ Records(r, b)'
      /\ \A x, c : Records(x, c) => Records(x, c)'
      /\ RowIds' = RowIds \cup {r}
      /\ \A x \in Request : (\A q \in lock[x] : q # r) /\ x # r =>
           \A q \in lock[x] : Active(x)' /\ expense'[x] = expense[x]
  BY <1>1, <1>2, CommittedRows
<1>5. \/ answer' = [answer EXCEPT ![r] = [kind |-> "accepted", outcome |-> r]]
      \/ answer' = [answer EXCEPT ![r] = [kind |-> "error"]]
  BY DEF Finish, Commit
<1>6. TypeOK'
  <2>1. [taken |-> TRUE, digest |-> b, outcome |-> r] \in Claim
    BY <1>3 DEF Claim
  <2>2. [kind |-> "accepted", outcome |-> r] \in Answer /\ [kind |-> "error"] \in Answer
    BY DEF Answer
  <2>3. claim' \in [Slot -> Claim \cup {NoClaim}]
    BY <1>1, <2>1 DEF IndInv, TypeOK
  <2>4. answer' \in [Request -> Answer \cup {NoAnswer}]
    BY <1>5, <2>2 DEF IndInv, TypeOK
  <2>5. holder' \in [Slot -> SUBSET Request] /\ lock' \in [Request -> SUBSET Request]
    BY <1>1, <1>2, <1>3 DEF IndInv, TypeOK
  <2> QED BY <1>2, <1>4, <2>3, <2>4, <2>5 DEF IndInv, TypeOK
<1>7. \A q \in Request : Named(q)' = Named(q)
  BY <1>2 DEF Named
<1>8. AskedInv'
  BY <1>2, <1>4, <1>7 DEF IndInv, AskedInv
<1>9. LocksInv'
  <2>1. \A x \in Request : \A q \in lock[x] : q \in Request /\ lock[x] = {q} /\ x \in RowIds
    BY DEF IndInv, TypeOK, LocksInv, Active, RowIds
  <2>2. \A x \in Request : \A q \in lock'[x] :
            /\ q \in lock[x] /\ q # r /\ x # r /\ lock'[x] = {q}
            /\ Active(x)' /\ expense'[x] = expense[x]
    BY <1>2, <1>3, <1>4, <2>1
  <2>3. \A q \in Request \ {r} : pc[q] = "commit" =>
            \A x \in Named(q) : x \in Request /\ lock[x] = {q}
    BY ExpenseTypes DEF IndInv, LocksInv
  <2>4. \A x \in Request : \A q \in lock'[x] :
            /\ pc'[q] = "commit" /\ x \in Named(q)'
            /\ expense'[x].version = seen'[q]
    BY <1>2, <1>7, <2>1, <2>2 DEF IndInv, LocksInv
  <2>5. \A q \in Request : pc'[q] = "commit" => \A x \in Named(q)' : lock'[x] = {q}
    BY <1>2, <1>7, <2>3
  <2> QED BY <2>2, <2>4, <2>5 DEF LocksInv
<1>10. ClaimsInv'
  <2>1. \A s \in Slot : IF s = SlotOf(b)
                        THEN claim'[s] = [taken |-> TRUE, digest |-> b, outcome |-> r]
                        ELSE claim'[s] = claim[s]
    BY <1>1 DEF IndInv, TypeOK
  <2>2. SUFFICES ASSUME NEW s \in Slot, claim'[s] # NoClaim
                 PROVE  Records(claim[s].outcome, claim[s].digest)'
    BY DEF ClaimsInv
  <2>3. CASE s = SlotOf(b)
    <3>1. claim'[s].outcome = r /\ claim'[s].digest = b
      BY <2>1, <2>3
    <3> QED BY <1>4, <3>1 DEF Records
  <2>4. CASE s # SlotOf(b)
    <3>1. claim'[s] = claim[s] /\ Records(claim[s].outcome, claim[s].digest)
      BY <2>1, <2>2, <2>4 DEF IndInv, ClaimsInv
    <3>2. PICK x, c : x = claim[s].outcome /\ c = claim[s].digest
      OBVIOUS
    <3>3. Records(x, c)'
      BY <1>4, <3>1, <3>2
    <3> QED BY <3>1, <3>2, <3>3 DEF Records
  <2> QED BY <2>3, <2>4
<1>11. AnswersInv'
  <2>1. /\ answer'[r].kind \in {"accepted", "replay"} => answer'[r].outcome = r
    BY <1>5 DEF IndInv, TypeOK
  <2>2. SUFFICES ASSUME NEW q \in Request, answer'[q].kind \in {"accepted", "replay"}
                 PROVE  /\ pc'[q] = "done"
                        /\ answer'[q].outcome \in RowIds'
                        /\ \A c \in body'[q] : Records(answer[q].outcome, c)'
    BY DEF AnswersInv
  <2>3. CASE q = r
    BY <1>2, <1>3, <1>4, <2>1, <2>2, <2>3 DEF Records
  <2>4. CASE q # r
    <3>1. /\ answer'[q] = answer[q] /\ pc'[q] = "done"
          /\ \A c \in body[q] : Records(answer[q].outcome, c)
          /\ answer[q].outcome \in RowIds
      BY <1>2, <2>2, <2>4 DEF IndInv, AnswersInv
    <3>2. PICK x : x = answer[q].outcome
      OBVIOUS
    <3>3. \A c \in body[q] : Records(x, c)'
      BY <1>4, <3>1, <3>2
    <3> QED BY <1>2, <1>4, <3>1, <3>2, <3>3 DEF Records
  <2> QED BY <2>3, <2>4
<1> QED BY <1>4, <1>6, <1>8, <1>9, <1>10, <1>11 DEF IndInv

\* Every step keeps the inductive invariant.
LEMMA ExpensesStep == IndInv /\ [Next]_vars => IndInv'
<1> SUFFICES ASSUME IndInv, [Next]_vars PROVE IndInv'
  OBVIOUS
<1>1. CASE UNCHANGED vars
  <2>1. UNCHANGED <<expense, claim, holder, lock, pc, body, seen, answer>>
    BY <1>1 DEF vars
  <2>2. /\ RowIds' = RowIds
        /\ ChainsInv' /\ OneTip' /\ VersionsCountCorrections'
        /\ \A x, b : Records(x, b) => Records(x, b)'
    BY <2>1, SameLedger
  <2>3. \A q \in Request : Named(q)' = Named(q)
    BY <2>1 DEF Named
  <2>4. ClaimsInv' /\ AnswersInv' /\ AskedInv' /\ LocksInv'
    BY <2>1, <2>2, <2>3 DEF IndInv, ClaimsInv, AnswersInv, AskedInv, LocksInv, Active, Records, TypeOK
  <2> QED BY <2>1, <2>2, <2>4 DEF IndInv, TypeOK
<1>2. CASE Next
  BY <1>2, ExpensesAsk, ExpensesReadOld, ExpensesClaimKey, ExpensesTombstone, ExpensesCommit,
     ExpensesRollback, ExpensesGovernedDelete DEF Next
<1> QED BY <1>1, <1>2

\* What is active is the end of its chain, so the summary is over ends, one of each.
LEMMA NothingCountedTwice == IndInv => NoDoubleCounting
<1> SUFFICES ASSUME IndInv PROVE NoDoubleCounting
  OBVIOUS
<1>1. Tips \subseteq RowIds
  BY DEF Tips
<1>2. ASSUME NEW x \in RowIds
      PROVE  Cardinality(Tips \cap VersionsOf(expense[x].root)) = 1
  <2>1. PICK y \in Tips : expense[y].root = expense[x].root
    BY DEF IndInv, ChainsInv
  <2>2. Tips \cap VersionsOf(expense[x].root) = {y}
    BY <1>1, <2>1 DEF IndInv, OneTip, VersionsOf
  <2> QED BY <2>2, FS_Singleton
<1>3. Counted = {x \in Tips : expense[x].active}
  BY <1>1 DEF Counted, IndInv, ChainsInv
<1>4. Summary = MapThenSumSet(AmountOf, {x \in Tips : expense[x].active})
  BY <1>3 DEF Summary
<1> QED BY <1>2, <1>4 DEF NoDoubleCounting

\* An answer names the row that was asked for.
LEMMA AnswersAreRows == IndInv => AcknowledgedIsRecorded
BY DEF IndInv, AnswersInv, AcknowledgedIsRecorded, Records

\* An execution that holds a key has it to itself.
LEMMA HoldersInit == Init => HoldersInv
BY DEF Init, HoldersInv

\* A key is taken when nobody has it, and given back by who had it.
LEMMA HoldersStep == IndInv /\ HoldersInv /\ [Next]_vars => HoldersInv'
<1> SUFFICES ASSUME IndInv, HoldersInv, [Next]_vars PROVE HoldersInv'
  OBVIOUS
<1>1. /\ pc \in [Request -> Stage] /\ body \in [Request -> SUBSET Body]
      /\ holder \in [Slot -> SUBSET Request] /\ claim \in [Slot -> Claim \cup {NoClaim}]
      /\ \A r \in Request : \A b \in body[r] : SlotOf(b) \in Slot
      /\ \A r \in Request : \A b, c \in body[r] : b = c
  BY ExpenseTypes DEF IndInv, TypeOK, AskedInv
<1>2. CASE UNCHANGED <<pc, body, holder, claim>>
  BY <1>2 DEF HoldersInv
<1>3. ASSUME NEW r \in Request, UNCHANGED claim,
             \A q \in Request : q # r => pc'[q] = pc[q] /\ body'[q] = body[q],
             pc'[r] \notin {"guard", "commit"},
             \A s \in Slot : holder'[s] = holder[s] \/ holder'[s] = holder[s] \ {r}
      PROVE  HoldersInv'
  <2> SUFFICES ASSUME NEW q \in Request, pc'[q] \in {"guard", "commit"}, NEW b \in body'[q]
               PROVE  holder'[SlotOf(b)] = {q} /\ claim'[SlotOf(b)] = NoClaim
    BY DEF HoldersInv
  <2>1. q # r /\ pc[q] \in {"guard", "commit"} /\ b \in body[q]
    BY <1>3
  <2>2. holder[SlotOf(b)] = {q} /\ claim[SlotOf(b)] = NoClaim /\ SlotOf(b) \in Slot
    BY <1>1, <2>1 DEF HoldersInv
  <2> QED BY <1>3, <2>1, <2>2
<1>4. ASSUME NEW r \in Request, NEW b \in Body, Ask(r, b) PROVE HoldersInv'
  <2>1. UNCHANGED <<holder, claim>> /\ pc'[r] \notin {"guard", "commit"}
    BY <1>1, <1>4 DEF Ask
  <2>2. \A q \in Request : q # r => pc'[q] = pc[q] /\ body'[q] = body[q]
    BY <1>1, <1>4 DEF Ask
  <2> QED BY <1>3, <2>1, <2>2
<1>5. ASSUME NEW r \in Request, ReadOld(r) PROVE HoldersInv'
  <2>1. UNCHANGED <<holder, claim, body>> /\ pc'[r] \notin {"guard", "commit"}
    BY <1>1, <1>5 DEF ReadOld, Finish
  <2>2. \A q \in Request : q # r => pc'[q] = pc[q]
    BY <1>1, <1>5 DEF ReadOld, Finish
  <2> QED BY <1>3, <2>1, <2>2
<1>6. ASSUME NEW r \in Request, ClaimKey(r) PROVE HoldersInv'
  <2>1. PICK b \in body[r] :
          /\ holder[SlotOf(b)] = {}
          /\ \/ /\ claim[SlotOf(b)] = NoClaim
                /\ holder' = [holder EXCEPT ![SlotOf(b)] = {r}]
                /\ pc' = [pc EXCEPT ![r] = IF b.op = "add" THEN "commit" ELSE "guard"]
             \/ pc' = [pc EXCEPT ![r] = "done"] /\ UNCHANGED holder
    BY <1>6 DEF ClaimKey, Finish
  <2>2. UNCHANGED <<claim, body>>
    BY <1>6 DEF ClaimKey
  <2>3. \A q \in Request : q # r => pc'[q] = pc[q]
    BY <1>1, <2>1
  <2>4. CASE pc' = [pc EXCEPT ![r] = "done"] /\ UNCHANGED holder
    BY <1>1, <1>3, <2>2, <2>3, <2>4
  <2>5. CASE claim[SlotOf(b)] = NoClaim /\ holder' = [holder EXCEPT ![SlotOf(b)] = {r}]
    <3> SUFFICES ASSUME NEW q \in Request, pc'[q] \in {"guard", "commit"}, NEW c \in body[q]
                 PROVE  holder'[SlotOf(c)] = {q} /\ claim[SlotOf(c)] = NoClaim
      BY <2>2 DEF HoldersInv
    <3>1. \A s \in Slot : holder'[s] = IF s = SlotOf(b) THEN {r} ELSE holder[s]
      BY <1>1, <2>5
    <3>2. SlotOf(c) \in Slot
      BY <1>1
    <3>3. CASE q = r
      <4>1. c = b
        BY <1>1, <3>3
      <4> QED BY <2>5, <3>1, <3>2, <3>3, <4>1
    <3>4. CASE q # r
      <4>1. holder[SlotOf(c)] = {q} /\ claim[SlotOf(c)] = NoClaim
        BY <2>3, <3>4 DEF HoldersInv
      <4>2. SlotOf(c) # SlotOf(b)
        BY <2>1, <4>1
      <4> QED BY <3>1, <3>2, <4>1, <4>2
    <3> QED BY <3>3, <3>4
  <2> QED BY <2>1, <2>4, <2>5
<1>7. ASSUME NEW r \in Request, TombstoneOld(r) PROVE HoldersInv'
  <2>1. PICK b \in body[r] :
          \/ pc' = [pc EXCEPT ![r] = "commit"] /\ UNCHANGED holder
          \/ pc' = [pc EXCEPT ![r] = "done"] /\ holder' = [holder EXCEPT ![SlotOf(b)] = @ \ {r}]
    BY <1>7 DEF TombstoneOld, Finish
  <2>2. pc[r] = "guard" /\ UNCHANGED <<claim, body>>
    BY <1>7 DEF TombstoneOld
  <2>3. CASE pc' = [pc EXCEPT ![r] = "commit"] /\ UNCHANGED holder
    <3>1. \A q \in Request : pc'[q] \in {"guard", "commit"} => pc[q] \in {"guard", "commit"}
      BY <1>1, <2>2, <2>3
    <3> QED BY <2>2, <2>3, <3>1 DEF HoldersInv
  <2>4. CASE pc' = [pc EXCEPT ![r] = "done"] /\ holder' = [holder EXCEPT ![SlotOf(b)] = @ \ {r}]
    <3>1. pc'[r] \notin {"guard", "commit"} /\ \A q \in Request : q # r => pc'[q] = pc[q]
      BY <1>1, <2>4
    <3>2. \A s \in Slot : holder'[s] = holder[s] \/ holder'[s] = holder[s] \ {r}
      BY <1>1, <2>4
    <3> QED BY <1>3, <2>2, <3>1, <3>2
  <2> QED BY <2>1, <2>3, <2>4
<1>8. ASSUME NEW r \in Request, Commit(r) PROVE HoldersInv'
  <2>1. PICK b \in body[r] :
          /\ claim' = [claim EXCEPT ![SlotOf(b)] = [taken |-> TRUE, digest |-> b, outcome |-> r]]
          /\ holder' = [holder EXCEPT ![SlotOf(b)] = @ \ {r}]
    BY <1>8 DEF Commit
  <2>2. pc[r] = "commit" /\ UNCHANGED body /\ pc' = [pc EXCEPT ![r] = "done"]
    BY <1>8 DEF Commit, Finish
  <2> SUFFICES ASSUME NEW q \in Request, pc'[q] \in {"guard", "commit"}, NEW c \in body[q]
               PROVE  holder'[SlotOf(c)] = {q} /\ claim'[SlotOf(c)] = NoClaim
    BY <2>2 DEF HoldersInv
  <2>3. q # r /\ pc[q] \in {"guard", "commit"}
    BY <1>1, <2>2
  <2>4. holder[SlotOf(c)] = {q} /\ claim[SlotOf(c)] = NoClaim /\ holder[SlotOf(b)] = {r}
    BY <2>2, <2>3 DEF HoldersInv
  <2>5. SlotOf(c) # SlotOf(b) /\ SlotOf(c) \in Slot /\ SlotOf(b) \in Slot
    BY <1>1, <2>3, <2>4
  <2> QED BY <1>1, <2>1, <2>4, <2>5
<1>9. ASSUME NEW r \in Request, Rollback(r) PROVE HoldersInv'
  <2>1. UNCHANGED <<claim, body>> /\ pc' = [pc EXCEPT ![r] = "done"]
        /\ \A s \in Slot : holder'[s] = holder[s] \ {r}
    BY <1>9 DEF Rollback, Finish
  <2>2. pc'[r] \notin {"guard", "commit"} /\ \A q \in Request : q # r => pc'[q] = pc[q]
    BY <1>1, <2>1
  <2> QED BY <1>3, <2>1, <2>2
<1>10. ASSUME NEW x \in Request, GovernedDelete(x) PROVE UNCHANGED <<pc, body, holder, claim>>
  BY <1>10 DEF GovernedDelete
<1>11. CASE UNCHANGED vars
  BY <1>2, <1>11 DEF vars
<1>12. CASE Next
  BY <1>2, <1>4, <1>5, <1>6, <1>7, <1>8, <1>9, <1>10, <1>12 DEF Next
<1> QED BY <1>11, <1>12

\* What a single request is told, when nothing else changes.
LEMMA OneTold ==
    ASSUME NEW r \in Request, NEW b \in Body, body[r] = {b}, IndInv, pc[r] # "done",
           UNCHANGED body, \A q \in Request : q # r => answer'[q] = answer[q]
    PROVE  Told' = IF answer'[r].kind \in {"accepted", "replay"}
                   THEN Told \cup {[key |-> SlotOf(b), payload |-> b, outcome |-> answer'[r].outcome]}
                   ELSE Told
<1> DEFINE Reports(q, o) == {[key |-> SlotOf(c), payload |-> c, outcome |-> o] : c \in body[q]}
<1> DEFINE Succeeded == {q \in Request : answer[q].kind \in {"accepted", "replay"}}
<1>1. r \notin Succeeded
  BY DEF IndInv, AnswersInv
<1>2. \A q \in Succeeded : q # r /\ answer'[q] = answer[q]
  BY <1>1
<1>3. Told = UNION {Reports(q, answer[q].outcome) : q \in Succeeded}
  BY DEF Told
<1>4. Told' = UNION {Reports(q, answer'[q].outcome) :
                        q \in {p \in Request : answer'[p].kind \in {"accepted", "replay"}}}
  BY DEF Told
<1>5. Reports(r, answer'[r].outcome) = {[key |-> SlotOf(b), payload |-> b, outcome |-> answer'[r].outcome]}
  OBVIOUS
<1>6. {p \in Request : answer'[p].kind \in {"accepted", "replay"}}
        = IF answer'[r].kind \in {"accepted", "replay"} THEN Succeeded \cup {r} ELSE Succeeded
  BY <1>1
<1> HIDE DEF Succeeded, Reports
<1>7. {Reports(q, answer'[q].outcome) : q \in Succeeded} = {Reports(q, answer[q].outcome) : q \in Succeeded}
  BY <1>2
<1> QED BY <1>3, <1>4, <1>5, <1>6, <1>7

\* Every step of the ledger is one that the promise allows, or none.
LEMMA OnceStep == IndInv /\ HoldersInv /\ [Next]_vars => [Promise!Next]_Promise!onceVars
<1> SUFFICES ASSUME IndInv, HoldersInv, [Next]_vars PROVE [Promise!Next]_Promise!onceVars
  OBVIOUS
<1>1. /\ pc \in [Request -> Stage] /\ body \in [Request -> SUBSET Body]
      /\ claim \in [Slot -> Claim \cup {NoClaim}] /\ answer \in [Request -> Answer \cup {NoAnswer}]
      /\ \A r \in Request : \A b \in body[r] : b \in Body /\ SlotOf(b) \in Slot
      /\ \A r \in Request : \A b, c \in body[r] : b = c
  BY ExpenseTypes DEF IndInv, TypeOK, AskedInv
<1>2. UNCHANGED claim => Booked' = Booked
  BY DEF Booked
<1>3. UNCHANGED <<body, answer>> => Told' = Told
  BY DEF Told
<1>4. ASSUME NEW r \in Request, pc[r] # "done", UNCHANGED body,
             \E a \in Answer : a.kind \notin {"accepted", "replay"} /\ answer' = [answer EXCEPT ![r] = a]
      PROVE  Told' = Told
  <2>1. \A q \in Request : answer'[q] = answer[q] \/ (q = r /\ answer'[q].kind \notin {"accepted", "replay"})
    BY <1>1, <1>4
  <2>2. answer[r].kind \notin {"accepted", "replay"}
    BY <1>4 DEF IndInv, AnswersInv
  <2>3. {q \in Request : answer'[q].kind \in {"accepted", "replay"}}
          = {q \in Request : answer[q].kind \in {"accepted", "replay"}}
    BY <2>1, <2>2
  <2>4. \A q \in Request : answer[q].kind \in {"accepted", "replay"} => answer'[q] = answer[q]
    BY <2>1, <2>2
  <2> QED BY <1>4, <2>3, <2>4 DEF Told
<1>5. ASSUME NEW r \in Request, NEW b \in Body, Ask(r, b) PROVE Told' = Told /\ Booked' = Booked
  <2>1. answer[r].kind \notin {"accepted", "replay"} /\ UNCHANGED <<answer, claim>>
    BY <1>5 DEF Ask, IndInv, AnswersInv
  <2>2. \A q \in Request : q # r => body'[q] = body[q]
    BY <1>1, <1>5 DEF Ask
  <2>3. \A q \in Request : answer[q].kind \in {"accepted", "replay"} => body'[q] = body[q]
    BY <2>1, <2>2
  <2> QED BY <1>2, <2>1, <2>3 DEF Told
<1>6. ASSUME NEW r \in Request, ReadOld(r) \/ TombstoneOld(r) \/ Rollback(r)
      PROVE  Told' = Told /\ Booked' = Booked
  <2>1. UNCHANGED <<claim, body>> /\ pc[r] # "done"
    BY <1>6 DEF ReadOld, TombstoneOld, Rollback
  <2>2. \/ UNCHANGED answer
        \/ \E k \in {"not_found", "version_conflict", "error"} : answer' = [answer EXCEPT ![r] = [kind |-> k]]
    BY <1>6 DEF ReadOld, TombstoneOld, Rollback, Finish
  <2>3. \A k \in {"not_found", "version_conflict", "error"} :
           [kind |-> k] \in Answer /\ [kind |-> k].kind \notin {"accepted", "replay"}
    BY DEF Answer
  <2> QED BY <1>2, <1>3, <1>4, <2>1, <2>2, <2>3
<1>7. ASSUME NEW r \in Request, ClaimKey(r) PROVE [Promise!Next]_Promise!onceVars
  <2>1. pc[r] # "done" /\ UNCHANGED <<claim, body>>
    BY <1>7 DEF ClaimKey
  <2>2. PICK b \in body[r] :
          \/ UNCHANGED answer
          \/ /\ claim[SlotOf(b)] # NoClaim
             /\ answer' = [answer EXCEPT ![r] = IF claim[SlotOf(b)].digest = b
                                               THEN [kind |-> "replay", outcome |-> claim[SlotOf(b)].outcome]
                                               ELSE [kind |-> "idempotency_conflict"]]
    BY <1>7 DEF ClaimKey, Finish
  <2>3. b \in Body /\ SlotOf(b) \in Slot /\ body[r] = {b}
    BY <1>1
  <2>4. CASE UNCHANGED answer
    BY <1>2, <1>3, <2>1, <2>4 DEF Promise!onceVars
  <2>5. CASE /\ claim[SlotOf(b)].digest # b
             /\ answer' = [answer EXCEPT ![r] = [kind |-> "idempotency_conflict"]]
    <3>1. [kind |-> "idempotency_conflict"] \in Answer
      BY DEF Answer
    <3> QED BY <1>2, <1>4, <2>1, <2>5, <3>1 DEF Promise!onceVars
  <2>6. CASE /\ claim[SlotOf(b)] # NoClaim /\ claim[SlotOf(b)].digest = b
             /\ answer' = [answer EXCEPT ![r] = [kind |-> "replay", outcome |-> claim[SlotOf(b)].outcome]]
    <3> DEFINE e == [key |-> SlotOf(b), payload |-> b, outcome |-> claim[SlotOf(b)].outcome]
    <3>1. claim[SlotOf(b)] \in Claim
      BY <1>1, <2>3, <2>6
    <3>2. e \in Promise!Effect /\ e \in Booked
      BY <2>3, <2>6, <3>1 DEF Promise!Effect, Booked, Claim
    <3>3. answer'[r].kind = "replay" /\ answer'[r].outcome = e.outcome
          /\ \A q \in Request : q # r => answer'[q] = answer[q]
      BY <1>1, <2>6
    <3>4. Told' = Told \cup {e}
      BY <2>1, <2>3, <3>3, OneTold
    <3>5. Booked' = Booked
      BY <1>2, <2>1
    <3> QED BY <3>2, <3>4, <3>5 DEF Promise!Next, Promise!Tell
  <2> QED BY <2>2, <2>4, <2>5, <2>6
<1>8. ASSUME NEW r \in Request, Commit(r) PROVE Promise!Next
  <2>1. pc[r] = "commit" /\ UNCHANGED body
    BY <1>8 DEF Commit
  <2>2. PICK b \in body[r] :
          claim' = [claim EXCEPT ![SlotOf(b)] = [taken |-> TRUE, digest |-> b, outcome |-> r]]
    BY <1>8 DEF Commit
  <2>3. b \in Body /\ SlotOf(b) \in Slot /\ body[r] = {b}
    BY <1>1
  <2> DEFINE s == SlotOf(b)
  <2> DEFINE new == [taken |-> TRUE, digest |-> b, outcome |-> r]
  <2> DEFINE e == [key |-> s, payload |-> b, outcome |-> r]
  <2>4. claim[s] = NoClaim
    BY <2>1, <2>2 DEF HoldersInv
  <2>5. \A t \in Slot : claim'[t] = IF t = s THEN new ELSE claim[t]
    BY <1>1, <2>2
  <2>6. new # NoClaim /\ new.digest = b /\ new.outcome = r
    BY DEF NoClaim
  <2>7. e \in Promise!Effect
    BY <2>3 DEF Promise!Effect
  <2> HIDE DEF new, s
  <2>8. \A f \in Booked : f.key # e.key
    BY <2>4 DEF Booked
  <2>9. Booked' = Booked \cup {e}
    <3> DEFINE Entry(t) == [key |-> t, payload |-> claim[t].digest, outcome |-> claim[t].outcome]
    <3> DEFINE Held == {t \in Slot : claim[t] # NoClaim}
    <3>1. {t \in Slot : claim'[t] # NoClaim} = Held \cup {s} /\ s \notin Held
      BY <2>3, <2>4, <2>5, <2>6 DEF s
    <3>2. Booked' = {[key |-> t, payload |-> claim'[t].digest, outcome |-> claim'[t].outcome] : t \in Held \cup {s}}
      BY <3>1 DEF Booked
    <3>3. \A t \in Held : claim'[t] = claim[t]
      BY <2>5, <3>1
    <3>4. claim'[s] = new
      BY <2>3, <2>5 DEF s
    <3>5. Booked = {Entry(t) : t \in Held}
      BY DEF Booked
    <3> HIDE DEF Held
    <3>6. {[key |-> t, payload |-> claim'[t].digest, outcome |-> claim'[t].outcome] : t \in Held \cup {s}}
            = {Entry(t) : t \in Held} \cup {e}
      BY <2>6, <3>3, <3>4
    <3> QED BY <3>2, <3>5, <3>6
  <2>10. Promise!Make(e)
    BY <2>8, <2>9 DEF Promise!Make
  <2>11. CASE answer' = [answer EXCEPT ![r] = [kind |-> "accepted", outcome |-> r]]
    <3>1. answer'[r].kind = "accepted" /\ answer'[r].outcome = r
          /\ \A q \in Request : q # r => answer'[q] = answer[q]
      BY <1>1, <2>11
    <3>2. Told' = Told \cup {e}
      BY <2>1, <2>3, <3>1, OneTold DEF s
    <3> QED BY <2>7, <2>9, <2>10, <3>2 DEF Promise!Next, Promise!Tell
  <2>12. CASE answer' = [answer EXCEPT ![r] = [kind |-> "error"]]
    <3>1. [kind |-> "error"] \in Answer /\ [kind |-> "error"].kind \notin {"accepted", "replay"}
      BY DEF Answer
    <3>2. Told' = Told
      BY <1>4, <2>1, <2>12, <3>1
    <3> QED BY <2>7, <2>10, <3>2 DEF Promise!Next
  <2> QED BY <1>8, <2>11, <2>12 DEF Commit, Finish
<1>9. ASSUME NEW x \in Request, GovernedDelete(x) PROVE Told' = Told /\ Booked' = Booked
  BY <1>2, <1>3, <1>9 DEF GovernedDelete
<1>10. CASE UNCHANGED vars
  BY <1>2, <1>3, <1>10 DEF vars, Promise!onceVars
<1>11. CASE Next
  BY <1>5, <1>6, <1>7, <1>8, <1>9, <1>11 DEF Next, Promise!onceVars
<1> QED BY <1>10, <1>11

(***************************************************************************)
(* The components, and then the run that takes them in turn.               *)
(***************************************************************************)
\* The inductive invariant of the expense ledger holds in every reachable state.
THEOREM ExpensesCorrect == Spec => [](IndInv /\ HoldersInv)
BY ExpensesInit, ExpensesStep, HoldersInit, HoldersStep, PTL DEF Spec

\* The expense ledger implements ExactlyOnce: under a key one request is booked, the one
\* that committed first, and every answer that reports success reports its row, whatever
\* corrections, retries, rollbacks and deletions race and whatever answers are lost.
THEOREM LedgerBooksOnce == Spec => BooksOnce
<1>1. Init => Promise!Init
  BY DEF Init, Promise!Init, Booked, Told, NoAnswer
<1>2. IndInv /\ HoldersInv /\ [Next]_vars => [Promise!Next]_Promise!onceVars
  BY OnceStep
<1> QED BY <1>1, <1>2, ExpensesCorrect, PTL DEF Spec, BooksOnce, Promise!Spec

\* The inductive invariant of the todos holds in every reachable state.
THEOREM TodosCorrect == T!Spec => []T!IndInv
BY TodosInit, TodosStep, PTL DEF T!Spec

\* The inductive invariant of the notes holds in every reachable state.
THEOREM NotesCorrect == N!Spec => []N!IndInv
BY NotesInit, NotesStep, PTL DEF N!Spec

RecordsInv ==
    /\ shelf \in {"expenses", "todos", "notes"}
    /\ shelf = "expenses" => IndInv /\ HoldersInv
    /\ shelf = "todos" => T!IndInv
    /\ shelf = "notes" => N!IndInv

\* The component whose turn it is keeps its invariant.
LEMMA RecordsCorrect == RecordsSpec => []RecordsInv
<1>1. RecordsInit => RecordsInv
  BY ExpensesInit, HoldersInit, TodosInit, NotesInit DEF RecordsInit, RecordsInv
<1>2. RecordsInv /\ [RecordsNext]_recordVars => RecordsInv'
  <2> SUFFICES ASSUME RecordsInv, [RecordsNext]_recordVars PROVE RecordsInv'
    OBVIOUS
  <2>1. shelf' = shelf
    BY DEF RecordsNext, recordVars
  <2>2. CASE shelf = "expenses"
    <3>1. [Next]_vars
      BY <2>2 DEF RecordsNext, recordVars
    <3> QED BY <2>1, <2>2, <3>1, ExpensesStep, HoldersStep DEF RecordsInv
  <2>3. CASE shelf = "todos"
    <3>1. [T!Next]_(T!vars)
      BY <2>3 DEF RecordsNext, recordVars, todoVars, T!vars
    <3> QED BY <2>1, <2>3, <3>1, TodosStep DEF RecordsInv
  <2>4. CASE shelf = "notes"
    <3>1. [N!Next]_(N!vars)
      BY <2>4 DEF RecordsNext, recordVars, noteVars, N!vars
    <3> QED BY <2>1, <2>4, <3>1, NotesStep DEF RecordsInv
  <2> QED BY <2>2, <2>3, <2>4 DEF RecordsInv
<1> QED BY <1>1, <1>2, PTL DEF RecordsSpec

\* No expense is counted twice and no correction lost: whatever corrections, retries
\* and deletions race, an expense is one chain whose end alone is counted, and the
\* version at the end is the number of rows of the chain.
THEOREM LedgerHolds == RecordsSpec => []LedgerSound
<1>1. RecordsInv => LedgerSound
  BY NothingCountedTwice DEF RecordsInv, LedgerSound
<1> QED BY <1>1, RecordsCorrect, PTL

\* Whoever is told that an expense was added or corrected, or that it had been, finds
\* a row of that expense with the amount that was asked for.
THEOREM AcknowledgementsHold == RecordsSpec => []AcknowledgedStands
<1>1. RecordsInv => AcknowledgedStands
  BY AnswersAreRows DEF RecordsInv, AcknowledgedStands
<1> QED BY <1>1, RecordsCorrect, PTL

\* Of the requests that name one version of a todo only one changes it.
THEOREM TodoVersionsHaveOneWriter == RecordsSpec => []OneWriterPerVersion
<1>1. RecordsInv => OneWriterPerVersion
  BY DEF RecordsInv, OneWriterPerVersion, T!IndInv
<1> QED BY <1>1, RecordsCorrect, PTL

\* Completed todos stay completed, deleted ones deleted, and versions never go back.
THEOREM TodosAreKept == RecordsSpec => NothingUndone
<1>1. RecordsInv /\ [RecordsNext]_recordVars => [shelf = "todos" => T!KeepsTodos]_recordVars
  <2> SUFFICES ASSUME RecordsInv, [RecordsNext]_recordVars, shelf = "todos"
               PROVE  T!KeepsTodos
    OBVIOUS
  <2>1. [T!Next]_(T!vars)
    BY DEF RecordsNext, recordVars, todoVars, T!vars
  <2> QED BY <2>1, TodosKept DEF RecordsInv
<1> QED BY <1>1, RecordsCorrect, PTL DEF RecordsSpec, NothingUndone

\* Copies that both asked for the detection of duplicates, and two successors of one
\* note, come only from requests that ran at the same time.
THEOREM CopiesRanTogether == RecordsSpec => []CopiesOverlap
<1>1. RecordsInv => CopiesOverlap
  BY DEF RecordsInv, CopiesOverlap, N!IndInv
<1> QED BY <1>1, RecordsCorrect, PTL

\* A note that a committed correction names is never served again.
THEOREM SupersededForGood == RecordsSpec => []SupersededIsGone
<1>1. RecordsInv => SupersededIsGone
  BY DEF RecordsInv, SupersededIsGone, N!IndInv
<1> QED BY <1>1, RecordsCorrect, PTL
=============================================================================

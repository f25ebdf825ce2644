------------------------------- MODULE Notes -------------------------------
(***************************************************************************)
(* Notes under concurrent requests: save_note with its optional detection  *)
(* of duplicates, and update_note, which supersedes a note.                *)
(*                                                                         *)
(* Neither looks twice.  save_note looks for an active row with the same   *)
(* content and inserts later in the same transaction; no unique index      *)
(* backs the look.  update_note reads that the old row is active and then  *)
(* tombstones it by id, without repeating the condition.  Under READ       *)
(* COMMITTED both can be overtaken, but only by a transaction that was     *)
(* open at the same time: that is what the properties say.                 *)
(*                                                                         *)
(* Each request writes at most one note, which goes by the request's name. *)
(* Requests have won their claims (module Idempotency).                    *)
(***************************************************************************)
EXTENDS Naturals, FiniteSets

CONSTANTS
    Saver,      \* executions of save_note and update_note
    Text        \* contents

VARIABLES
    note,       \* the raw_inputs row that a request wrote
    noteLock,   \* the request whose open transaction tombstoned the row, if any
    saver,      \* the requests
    met         \* observation: transactions that were open while this one was

vars == <<note, noteLock, saver, met>>

-----------------------------------------------------------------------------
State == {"absent", "active", "deleted"}

Stage == {"idle", "look", "insert", "tombstone", "commit", "saved", "duplicate", "refused"}

\* dedupe: the client sent content_hash; old: the note to supersede, if any.
SaveRequest == [stage : Stage, text : SUBSET Text, dedupe : BOOLEAN, old : SUBSET Saver]

TypeOK ==
    /\ note \in [Saver -> State]
    /\ noteLock \in [Saver -> SUBSET Saver]
    /\ saver \in [Saver -> SaveRequest]
    /\ met \in [Saver -> SUBSET Saver]

Init ==
    /\ note = [r \in Saver |-> "absent"]
    /\ noteLock = [r \in Saver |-> {}]
    /\ saver = [r \in Saver |-> [stage |-> "idle", text |-> {}, dedupe |-> FALSE, old |-> {}]]
    /\ met = [r \in Saver |-> {}]

Open(r) == saver[r].stage \in {"look", "insert", "tombstone", "commit"}

To(r, stage) == saver' = [saver EXCEPT ![r].stage = stage]

-----------------------------------------------------------------------------
\* The transaction begins.  update_note passes no hash on.
Begin(r, t, dedupe, old) ==
    /\ saver[r].stage = "idle"
    /\ old # {} => ~dedupe
    /\ saver' = [saver EXCEPT ![r] = [stage |-> "look", text |-> {t}, dedupe |-> dedupe,
                                      old |-> old]]
    /\ met' = [s \in Saver |-> IF s = r THEN {q \in Saver : Open(q)}
                               ELSE IF Open(s) THEN met[s] \cup {r} ELSE met[s]]
    /\ UNCHANGED <<note, noteLock>>

\* Mutant: the look finds only what was tombstoned.
SameContentDeleted(t) == {n \in Saver : note[n] = "deleted" /\ saver[n].text = t}

\* The SELECT on content_hash.
SameContent(t) == {n \in Saver : note[n] = "active" /\ saver[n].text = t}

\* The look for a duplicate; one that is found ends the request at once.
Look(r) ==
    /\ saver[r].stage = "look"
    /\ IF saver[r].dedupe /\ SameContent(saver[r].text) # {}
       THEN To(r, "duplicate") ELSE To(r, "insert")
    /\ UNCHANGED <<note, noteLock, met>>

\* Mutant: the old row is not looked at.
MaySupersedeAny(n) == TRUE

\* The row must exist and be active.
MaySupersede(n) == note[n] = "active"

\* The INSERT of the new row and, for a correction, the SELECT of the old one.
Insert(r) ==
    /\ saver[r].stage = "insert"
    /\ IF saver[r].old = {} THEN To(r, "commit")
       ELSE IF \A n \in saver[r].old : MaySupersede(n) THEN To(r, "tombstone")
       ELSE To(r, "refused")
    /\ UNCHANGED <<note, noteLock, met>>

\* The UPDATE by id: it waits for whoever has the row and then writes it again.
TombstoneOld(r) ==
    /\ saver[r].stage = "tombstone"
    /\ \A n \in saver[r].old : noteLock[n] = {}
    /\ noteLock' = [n \in Saver |-> IF n \in saver[r].old THEN {r} ELSE noteLock[n]]
    /\ To(r, "commit")
    /\ UNCHANGED <<note, met>>

Released(r) == [n \in Saver |-> noteLock[n] \ {r}]

\* Mutant: only the new row is written.
WrittenAlone(r) == [note EXCEPT ![r] = "active"]

\* Both rows, in one transaction.
Written(r) ==
    [n \in Saver |-> IF n = r THEN "active" ELSE IF n \in saver[r].old THEN "deleted" ELSE note[n]]

Commit(r) ==
    /\ saver[r].stage = "commit"
    /\ note' = Written(r)
    /\ noteLock' = Released(r)
    /\ To(r, "saved")
    /\ UNCHANGED met

\* pre_commit refuses, or the transaction fails.
Rollback(r) ==
    /\ Open(r)
    /\ noteLock' = Released(r)
    /\ To(r, "refused")
    /\ UNCHANGED <<note, met>>

\* An approved deletion plan tombstones a note.
GovernedDelete(n) ==
    /\ note[n] = "active"
    /\ noteLock[n] = {}
    /\ note' = [note EXCEPT ![n] = "deleted"]
    /\ UNCHANGED <<noteLock, saver, met>>

Next ==
    \E r \in Saver :
        \/ \E t \in Text, dedupe \in BOOLEAN, old \in {{}} \cup {{n} : n \in Saver \ {r}} :
              Begin(r, t, dedupe, old)
        \/ Look(r)
        \/ Insert(r)
        \/ TombstoneOld(r)
        \/ Commit(r)
        \/ Rollback(r)
        \/ GovernedDelete(r)

Spec == Init /\ [][Next]_vars

-----------------------------------------------------------------------------
\* Two active notes with the same content, the second of which asked for the
\* detection of duplicates, come only from requests that ran at the same time.
CopiesOverlap ==
    \A r, n \in Saver :
        /\ r # n
        /\ note[r] = "active" /\ note[n] = "active"
        /\ saver[r].text = saver[n].text
        /\ saver[r].dedupe /\ saver[n].dedupe
        => n \in met[r] \/ r \in met[n]

\* A note has two successors only if the two corrections ran at the same time.
ForksOverlap ==
    \A r, q \in Saver :
        /\ r # q
        /\ saver[r].stage = "saved" /\ saver[q].stage = "saved"
        /\ saver[r].old # {} /\ saver[r].old = saver[q].old
        => q \in met[r] \/ r \in met[q]

\* A note that a committed correction names is gone for good: what it said is
\* never served beside its replacement.
SupersededIsGone ==
    \A r \in Saver : saver[r].stage = "saved" => \A n \in saver[r].old : note[n] = "deleted"

-----------------------------------------------------------------------------
\* A request's row is there once it was saved, and a correction names others' rows.
SavedInv ==
    \A r \in Saver :
        /\ note[r] # "absent" <=> saver[r].stage = "saved"
        /\ r \notin saver[r].old
        /\ \A t \in saver[r].text : saver[r].text = {t}

\* The old row of a correction that got past its look is there.
CorrectionsInv ==
    \A r \in Saver : saver[r].stage \in {"tombstone", "commit"} =>
        \A n \in saver[r].old : note[n] # "absent"

\* Of two open transactions one began while the other was open.
OpenOverlap ==
    \A r, q \in Saver : r # q /\ Open(r) /\ Open(q) => q \in met[r] \/ r \in met[q]

\* A request past its look for duplicates.
Looked(r) == saver[r].stage \in {"insert", "tombstone", "commit"}

\* A copy was missed by a look that ran beside its insertion.
MissedOverlap ==
    \A r, n \in Saver :
        /\ r # n
        /\ Looked(r) /\ note[n] = "active"
        /\ saver[r].text = saver[n].text
        /\ saver[r].dedupe /\ saver[n].dedupe
        => n \in met[r] \/ r \in met[n]

\* A correction past its look ran beside any that was saved for the same note.
ForksMissedOverlap ==
    \A r, q \in Saver :
        /\ r # q
        /\ saver[r].stage \in {"tombstone", "commit"} /\ saver[q].stage = "saved"
        /\ saver[r].old # {} /\ saver[r].old = saver[q].old
        => q \in met[r] \/ r \in met[q]

\* The inductive invariant of the proofs.
IndInv ==
    /\ TypeOK
    /\ SavedInv
    /\ CorrectionsInv
    /\ OpenOverlap
    /\ MissedOverlap
    /\ ForksMissedOverlap
    /\ CopiesOverlap
    /\ ForksOverlap
    /\ SupersededIsGone
=============================================================================

---------------------------- MODULE ProjectBrain ----------------------------
(***************************************************************************)
(* The project brain under concurrent clients: tasks, checkpoints, facts   *)
(* (decisions and constraints), final reports, and the workspace syncs of  *)
(* the bridge, next to the governed deletion of a project.                 *)
(*                                                                         *)
(* start_task, checkpoint_task, record_fact and finalize_task look at the  *)
(* project in a session of their own and write in a later transaction that *)
(* does not look again.  sync_workspace looks inside its transaction, but  *)
(* without a lock, and writes module cards that no unique index guards.    *)
(* What a call meets half-way is therefore harmless only as far as the     *)
(* writes themselves repeat their conditions.                              *)
(*                                                                         *)
(* A call writes at most one row of its own, which goes by the call's name.*)
(* Calls have won their claims (module Idempotency).  A change below the   *)
(* paths of a module is a change of the module.                            *)
(***************************************************************************)
EXTENDS Naturals, FiniteSets

CONSTANTS
    Call,       \* executions of the operations
    Project,
    Statement,  \* deduplication keys of facts
    Root,       \* workspace identities
    Module      \* names of modules

VARIABLES
    project,    \* rows of projects
    row,        \* the row a call wrote: task, checkpoint, fact or change event
    report,     \* the call whose report is a task's final one, if any
    card,       \* the module card that a call inserted under a name
    lock,       \* rows that open transactions have written
    ask,        \* what a call asks for
    stage,
    preview,    \* the facts that an approved deletion plan of the project names
    begun,      \* observation: syncs that had begun when the sync did
    ended,      \* observation: syncs that were accepted when the sync began
    late        \* observation: calls that began when their project was deleted

vars == <<project, row, report, card, lock, ask, stage, preview, begun, ended, late>>

-----------------------------------------------------------------------------
NoAsk == [op |-> "none"]

\* A sync brings the modules it scanned and those it saw changed; without a
\* revision it is no evidence of freshness.
Ask ==
    [op : {"start"}, project : Project]
        \cup [op : {"checkpoint", "finalize"}, task : Call]
        \cup [op : {"fact"}, project : Project, statement : Statement]
        \cup [op : {"sync"}, project : Project, root : Root, modules : SUBSET Module,
              changed : SUBSET Module, revision : BOOLEAN]

Open == {"dedupe", "write", "refresh", "invalidate", "commit"}

\* A call ends accepted, or refused: not found, a duplicate, another workspace's,
\* or failed.
Stage == {"idle", "look", "accepted", "refused"} \cup Open

NoCard == [freshness |-> "absent"]

Card == [freshness : {"fresh", "unknown", "stale"}, by : Call]

\* What can be locked: a project, a task, a fact's key, a card.
Lockable == Project \cup Call \cup Statement \cup (Call \X Module)

TypeOK ==
    /\ project \in [Project -> [state : {"absent", "active", "deleted"}, root : SUBSET Root,
                                evidence : SUBSET Call]]
    /\ row \in [Call -> {"absent", "active", "completed", "deleted"}]
    /\ report \in [Call -> SUBSET Call]
    /\ card \in [Call \X Module -> Card \cup {NoCard}]
    /\ lock \in [Lockable -> SUBSET Call]
    /\ ask \in [Call -> Ask \cup {NoAsk}]
    /\ stage \in [Call -> Stage]
    /\ preview \in [Project -> SUBSET (SUBSET Call)]
    /\ begun \in [Call -> SUBSET Call]
    /\ ended \in [Call -> SUBSET Call]
    /\ late \in SUBSET Call

Init ==
    /\ project = [p \in Project |-> [state |-> "absent", root |-> {}, evidence |-> {}]]
    /\ row = [c \in Call |-> "absent"]
    /\ report = [c \in Call |-> {}]
    /\ card = [k \in Call \X Module |-> NoCard]
    /\ lock = [x \in Lockable |-> {}]
    /\ ask = [c \in Call |-> NoAsk]
    /\ stage = [c \in Call |-> "idle"]
    /\ preview = [p \in Project |-> {}]
    /\ begun = [c \in Call |-> {}]
    /\ ended = [c \in Call |-> {}]
    /\ late = {}

-----------------------------------------------------------------------------
\* The project that a call is about: a task's is the one it was started in.
About(a) == IF a.op \in {"checkpoint", "finalize"} THEN ask[a.task].project ELSE a.project

ProjectOf(c) == About(ask[c])

Written(c, op) == row[c] # "absent" /\ ask[c].op = op

Busy(c) == stage[c] = "look" \/ stage[c] \in Open

Free(x, c) == lock[x] \subseteq {c}

Take(X, c) == lock' = [x \in Lockable |-> IF x \in X THEN {c} ELSE lock[x]]

Released(c) == [x \in Lockable |-> lock[x] \ {c}]

To(c, s) == stage' = [stage EXCEPT ![c] = s]

\* A call that ends without a trace is forgotten.
Refuse(c) ==
    /\ To(c, "refused")
    /\ ask' = [ask EXCEPT ![c] = NoAsk]
    /\ lock' = Released(c)
    /\ begun' = [q \in Call |-> IF q = c THEN {} ELSE begun[q] \ {c}]
    /\ ended' = [ended EXCEPT ![c] = {}]
    /\ late' = late \ {c}

-----------------------------------------------------------------------------
\* create_project: the row, without a workspace.
CreateProject(p) ==
    /\ project[p].state = "absent"
    /\ project' = [project EXCEPT ![p].state = "active"]
    /\ UNCHANGED <<row, report, card, lock, ask, stage, preview, begun, ended, late>>

\* A call arrives; the client has made its observation of the workspace by now.
Begin(c, a) ==
    /\ stage[c] = "idle"
    /\ a.op \in {"checkpoint", "finalize"} => Written(a.task, "start")
    /\ ask' = [ask EXCEPT ![c] = a]
    /\ To(c, "look")
    /\ begun' = [begun EXCEPT ![c] = {q \in Call : {a.op, ask[q].op} = {"sync"}}]
    /\ ended' = [ended EXCEPT ![c] = {q \in begun'[c] : stage[q] = "accepted"}]
    /\ late' = IF project[About(a)].state = "deleted" THEN late \cup {c} ELSE late
    /\ UNCHANGED <<project, row, report, card, lock, preview>>

\* Mutant: the project need not be there any more.
AliveAny(p) == project[p].state # "absent"

\* The project is looked up with lifecycle_state = 'active'.
Alive(p) == project[p].state = "active"

\* Mutant: any workspace may be synced.
MayBindAny(p, root) == TRUE

\* The workspace is not yet bound, or bound to this root.
MayBind(p, root) == project[p].root \subseteq {root}

\* The first look: in a session of its own, for a sync at the start of its
\* transaction.
Look(c) ==
    /\ stage[c] = "look"
    /\ IF ~Alive(ProjectOf(c)) THEN Refuse(c)
       ELSE IF ask[c].op = "sync" /\ ~MayBind(ProjectOf(c), ask[c].root) THEN Refuse(c)
       ELSE /\ To(c, CASE ask[c].op = "fact" -> "dedupe"
                       [] ask[c].op = "sync" -> "refresh"
                       [] OTHER -> "write")
            /\ UNCHANGED <<ask, lock, begun, ended, late>>
    /\ UNCHANGED <<project, row, report, card, preview>>

\* Facts with this key, of whatever project.
SameFact(s) == {q \in Call : Written(q, "fact") /\ ask[q].statement = s}

\* record_project_fact looks for the key in a second session: a fact that is there,
\* active or deleted, is the answer.
Dedupe(c) ==
    /\ stage[c] = "dedupe"
    /\ IF SameFact(ask[c].statement) = {}
       THEN To(c, "write") /\ UNCHANGED <<ask, lock, begun, ended, late>>
       ELSE Refuse(c)
    /\ UNCHANGED <<project, row, report, card, preview>>

\* The INSERT of a fact: the unique index holds it up behind an open transaction
\* and refuses it after a committed one.
WriteFact(c) ==
    /\ stage[c] = "write"
    /\ ask[c].op = "fact"
    /\ Free(ask[c].statement, c)
    /\ IF SameFact(ask[c].statement) = {}
       THEN To(c, "commit") /\ Take({ask[c].statement}, c) /\ UNCHANGED <<ask, begun, ended, late>>
       ELSE Refuse(c)
    /\ UNCHANGED <<project, row, report, card, preview>>

\* The INSERT of a task or of a checkpoint.
WriteRow(c) ==
    /\ stage[c] = "write"
    /\ ask[c].op \in {"start", "checkpoint"}
    /\ To(c, "commit")
    /\ UNCHANGED <<project, row, report, card, lock, ask, preview, begun, ended, late>>

\* Mutant: a report is written whatever the task's state.
UnfinishedAny(t) == TRUE

\* The states that the UPDATE of finish repeats.
Unfinished(t) == row[t] = "active"

\* The change event, then the guarded UPDATE of the task: it waits for a report
\* that is being written and matches nothing once that one is committed.
WriteReport(c) ==
    /\ stage[c] = "write"
    /\ ask[c].op = "finalize"
    /\ Free(ask[c].task, c)
    /\ IF Unfinished(ask[c].task) THEN Take({ask[c].task}, c) ELSE UNCHANGED lock
    /\ To(c, "commit")
    /\ UNCHANGED <<project, row, report, card, ask, preview, begun, ended, late>>

-----------------------------------------------------------------------------
CardsOf(p) == {k \in Call \X Module : card[k] # NoCard /\ ask[k[1]].project = p}

\* The cards that a SELECT by project and name returns.
Named(p, m) == {k \in CardsOf(p) : k[2] = m}

\* The observation and the modules of the payload: a card by the name is
\* overwritten, a missing one inserted, and two of a name end the sync.
Refresh(c) ==
    /\ stage[c] = "refresh"
    /\ LET found == UNION {Named(ask[c].project, m) : m \in ask[c].modules}
       IN  IF \E m \in ask[c].modules : Cardinality(Named(ask[c].project, m)) > 1
           THEN Refuse(c)
           ELSE /\ \A k \in found : Free(k, c)
                /\ Take(found, c)
                /\ To(c, "invalidate")
                /\ UNCHANGED <<ask, begun, ended, late>>
    /\ UNCHANGED <<project, row, report, card, preview>>

\* Mutant: nothing is called stale.
TouchedNone(c) == {}

\* Cards that the payload does not bring and whose paths it saw changed.
Touched(c) ==
    {k \in CardsOf(ask[c].project) : k[2] \in ask[c].changed \ ask[c].modules}

\* The other cards of the project, then the UPDATE of the project by id.
Invalidate(c) ==
    /\ stage[c] = "invalidate"
    /\ \A x \in Touched(c) \cup {ask[c].project} : Free(x, c)
    /\ Take(Touched(c) \cup {ask[c].project}, c)
    /\ To(c, "commit")
    /\ UNCHANGED <<project, row, report, card, ask, preview, begun, ended, late>>

Freshness(c) == IF ask[c].revision THEN "fresh" ELSE "unknown"

Refreshed(c) == [freshness |-> Freshness(c), by |-> c]

\* The cards after the commit: locked ones overwritten, missing ones inserted.
CardsAfter(c) ==
    [k \in Call \X Module |->
        IF k[2] \in ask[c].modules /\ c \in lock[k] THEN Refreshed(c)
        ELSE IF c \in lock[k] THEN [card[k] EXCEPT !.freshness = "stale"]
        ELSE IF k \in {c} \X ask[c].modules /\ ~\E q \in Call : c \in lock[<<q, k[2]>>]
             THEN Refreshed(c)
        ELSE card[k]]

CommitSync(c) ==
    /\ stage[c] = "commit"
    /\ ask[c].op = "sync"
    /\ card' = CardsAfter(c)
    /\ project' = [project EXCEPT ![ask[c].project].root = {ask[c].root},
                                  ![ask[c].project].evidence = {c}]
    /\ lock' = Released(c)
    /\ To(c, "accepted")
    /\ UNCHANGED <<row, report, ask, preview, begun, ended, late>>

\* The commit of a row, and of the report that goes with a change event.
CommitRow(c) ==
    /\ stage[c] = "commit"
    /\ ask[c].op # "sync"
    /\ LET done == {t \in Call : c \in lock[t]}
       IN  /\ row' = [q \in Call |-> IF q = c THEN "active"
                                     ELSE IF q \in done THEN "completed" ELSE row[q]]
           /\ report' = [t \in Call |-> IF t \in done THEN {c} ELSE report[t]]
    /\ lock' = Released(c)
    /\ To(c, "accepted")
    /\ UNCHANGED <<project, card, ask, preview, begun, ended, late>>

\* A pre_commit check refuses, a deadlock is broken, the connection is lost.
Rollback(c) ==
    /\ Busy(c)
    /\ Refuse(c)
    /\ UNCHANGED <<project, row, report, card, preview>>

-----------------------------------------------------------------------------
\* create_deletion_plan finds the facts of the project that are active now.
PlanDeletion(p) ==
    /\ Alive(p)
    /\ preview[p] = {}
    /\ preview' = [preview EXCEPT ![p] =
          {{c \in Call : row[c] = "active" /\ ask[c].op \in {"fact", "finalize"} /\ ProjectOf(c) = p}}]
    /\ UNCHANGED <<project, row, report, card, lock, ask, stage, begun, ended, late>>

\* The approved plan is executed: the project and the facts of the preview.
\* Tasks, checkpoints and cards have no lifecycle of their own.
ExecuteDeletion(p) ==
    /\ Alive(p)
    /\ lock[p] = {}
    /\ \E facts \in preview[p] :
          /\ project' = [project EXCEPT ![p].state = "deleted"]
          /\ row' = [c \in Call |-> IF c \in facts THEN "deleted" ELSE row[c]]
    /\ UNCHANGED <<report, card, lock, ask, stage, preview, begun, ended, late>>

\* get_project_recovery: what a client without history is told of a project.
Recovery(p) ==
    [tasks |-> {c \in Call : Alive(p) /\ Written(c, "start") /\ row[c] = "active" /\ ProjectOf(c) = p},
     facts |-> {c \in Call : Alive(p) /\ Written(c, "fact") /\ row[c] = "active" /\ ProjectOf(c) = p},
     fresh |-> {k \in CardsOf(p) : Alive(p) /\ card[k].freshness = "fresh"}]

Next ==
    \/ \E p \in Project : CreateProject(p) \/ PlanDeletion(p) \/ ExecuteDeletion(p)
    \/ \E c \in Call :
          \/ \E a \in Ask : Begin(c, a)
          \/ Look(c)
          \/ Dedupe(c)
          \/ WriteFact(c)
          \/ WriteRow(c)
          \/ WriteReport(c)
          \/ Refresh(c)
          \/ Invalidate(c)
          \/ CommitSync(c)
          \/ CommitRow(c)
          \/ Rollback(c)

Spec == Init /\ [][Next]_vars

-----------------------------------------------------------------------------
KeepsReports ==
    \A t \in Call : report[t] # {} => report'[t] = report[t] /\ row'[t] = "completed"

\* A task has one final report for good, however many clients finalize it, and
\* the report is that of an accepted call.
ReportsAreKept == [][KeepsReports]_vars

Overlap(c, q) == c \in begun[q] \ ended[q] \/ q \in begun[c] \ ended[c]

Accepted(c, op) == stage[c] = "accepted" /\ ask[c].op = op

Later(c, q) == c \in ended[q]

SawChanged(p) == {q \in Call : Accepted(q, "sync") /\ ask[q].project = p}

\* Another workspace's sync was accepted that overlaps this one.
Raced(c) ==
    \E r \in Call :
        Accepted(r, "sync") /\ ask[r].project = ask[c].project /\ Overlap(r, c) /\ ask[r].root # ask[c].root

OneWorkspace ==
    \A c, q \in Call :
        /\ Accepted(c, "sync") /\ Accepted(q, "sync")
        /\ ask[c].project = ask[q].project
        /\ Later(c, q)
        /\ ask[c].root # ask[q].root
        => Raced(c)

TwinsRaced ==
    \A j, k \in Call \X Module :
        /\ j # k /\ j[2] = k[2]
        /\ card[j] # NoCard /\ card[k] # NoCard
        /\ ask[j[1]].project = ask[k[1]].project
        => Overlap(j[1], k[1])

FreshUnlessChanged ==
    \A p \in Project : \A k \in Recovery(p).fresh, q \in SawChanged(p) :
        k[2] \in ask[q].changed \ ask[q].modules => ~Later(card[k].by, q)

\* Syncs that follow one another see each other: they come from one workspace
\* unless two of them raced to bind it, a card has a twin only if its first two
\* syncs raced, and no card is called fresh that a later sync saw changed.
SyncsInOrder == OneWorkspace /\ TwinsRaced /\ FreshUnlessChanged

OneFact ==
    \A c, q \in Call :
        /\ Written(c, "fact") /\ Written(q, "fact")
        /\ ask[c].statement = ask[q].statement
        => c = q

\* Deletion is the end: a call that begins when its project is deleted leaves
\* nothing behind, and a statement that was deleted is not recorded again.
DeletedStaysDeleted ==
    /\ \A c \in late : row[c] = "absent" /\ \A m \in Module : card[<<c, m>>] = NoCard
    /\ OneFact

\* ER-08 in projects/modules.py: a racing refresh never pretends to be fresh.  A
\* card that is called fresh was not seen changed by an observation that the
\* brain accepted and that was made after the one that refreshed the card.
NeverPretendsFresh ==
    \A p \in Project : \A k \in Recovery(p).fresh, q \in SawChanged(p) :
        k[2] \in ask[q].changed \ ask[q].modules => card[k].by \notin begun[q]

-----------------------------------------------------------------------------
\* A call asks for something while it is under way and once it is accepted; only
\* accepted calls have left rows and cards; who begins too late never gets past the look.
CallsInv ==
    /\ \A c \in Call :
          /\ stage[c] \in {"idle", "refused"} <=> ask[c] = NoAsk
          /\ stage[c] = "dedupe" => ask[c].op = "fact"
          /\ stage[c] = "write" => ask[c].op # "sync"
          /\ stage[c] \in {"refresh", "invalidate"} => ask[c].op = "sync"
          /\ ask[c].op \in {"checkpoint", "finalize"} => Written(ask[c].task, "start")
          /\ row[c] # "absent" => stage[c] = "accepted"
    /\ \A k \in Call \X Module : card[k] # NoCard => Accepted(k[1], "sync")
    /\ \A c \in late : stage[c] = "look" /\ project[ProjectOf(c)].state = "deleted"

\* A row is locked by one open transaction: a task that is active by who reports on it,
\* a key by who writes the first fact of it, a card that is there by a sync.
LocksInv ==
    /\ \A x \in Lockable : \A c \in lock[x] : lock[x] = {c} /\ stage[c] \in {"invalidate", "commit"}
    /\ \A t \in Call : \A c \in lock[t] : ask[c].op = "finalize" /\ ask[c].task = t /\ row[t] = "active"
    /\ \A k \in Call \X Module : \A c \in lock[k] : ask[c].op = "sync" /\ card[k] # NoCard
    /\ \A c \in Call : stage[c] = "commit" /\ ask[c].op = "fact" =>
          c \in lock[ask[c].statement] /\ SameFact(ask[c].statement) = {}

\* A task that is done has one report, and previews name facts and reports only.
ReportsInv ==
    /\ \A t \in Call : \A c \in report[t] :
          Written(t, "start") /\ row[t] = "completed" /\ report[t] = {c} /\ Accepted(c, "finalize")
    /\ \A p \in Project : \A facts \in preview[p] : \A c \in facts :
          row[c] # "absent" /\ ask[c].op \in {"fact", "finalize"}

\* Of two syncs one began first, and what had ended by then was accepted.
OrderInv ==
    /\ \A c, q \in Call : Later(c, q) => Accepted(c, "sync")
    /\ \A c, q \in Call : c # q /\ ask[c].op = "sync" /\ ask[q].op = "sync" => c \in begun[q] \/ q \in begun[c]

\* A project is bound to the workspace of each accepted sync that was not in a race,
\* and a later sync that got past the look comes from it.
RootsInv ==
    \A c \in Call : Accepted(c, "sync") /\ ~Raced(c) =>
        /\ project[ask[c].project].root = {ask[c].root}
        /\ \A q \in Call :
              /\ ask[q].op = "sync" /\ stage[q] # "look"
              /\ ask[q].project = ask[c].project /\ Later(c, q)
              => ask[q].root = ask[c].root

\* A sync that has refreshed holds, of every name it brings, a card of an earlier sync
\* if there is one; and one that has invalidated holds all it saw changed but those
\* that others refreshed meanwhile.
HoldsInv ==
    \A q \in Call, k \in Call \X Module :
        ask[q].op = "sync" /\ card[k] # NoCard /\ ask[k[1]].project = ask[q].project =>
            /\ stage[q] \in {"invalidate", "commit"} /\ k[2] \in ask[q].modules /\ Later(k[1], q)
                  => \E c \in Call : q \in lock[<<c, k[2]>>]
            /\ stage[q] = "commit" /\ k[2] \in ask[q].changed \ ask[q].modules /\ Later(card[k].by, q)
                  => q \in lock[k]

\* Freshness for any state of the project.
FreshInv ==
    \A q \in Call, k \in Call \X Module :
        /\ Accepted(q, "sync") /\ card[k].freshness = "fresh" /\ ask[k[1]].project = ask[q].project
        /\ k[2] \in ask[q].changed \ ask[q].modules
        => ~Later(card[k].by, q)

\* The inductive invariant of the proofs.
IndInv ==
    /\ TypeOK
    /\ CallsInv
    /\ LocksInv
    /\ ReportsInv
    /\ OrderInv
    /\ RootsInv
    /\ HoldsInv
    /\ FreshInv
    /\ TwinsRaced
    /\ OneFact
=============================================================================

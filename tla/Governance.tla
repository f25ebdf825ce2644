----------------------------- MODULE Governance -----------------------------
(***************************************************************************)
(* Governed deletion: previewed plans, the review items that confirm them  *)
(* and the execution of an approved plan, by concurrent resolutions.       *)
(*                                                                         *)
(* A resolution takes the time when it starts, locks the item, then the    *)
(* plan (SELECT ... FOR UPDATE), and publishes item, plan and tombstones   *)
(* in one commit.  The targets here are projects and the facts recorded    *)
(* under them, the one kind of dependent that the server resolves itself.  *)
(***************************************************************************)
EXTENDS Naturals, FiniteSets

CONSTANTS
    Project,
    Fact,       \* decisions and constraints of projects
    Plan,       \* rows of deletion_plans
    Item,       \* deletion_confirmation items
    Request     \* executions of resolve_review_item

VARIABLES
    deleted,    \* tombstoned projects
    fact,       \* facts: not there, or their project and lifecycle
    checked,    \* record_project_fact executions past their project check
    plan,
    item,
    due,        \* items whose 15 minutes are over
    itemLock, planLock,
    pc, want, answer

vars == <<deleted, fact, checked, plan, item, due, itemLock, planLock, pc, want, answer>>

-----------------------------------------------------------------------------
NoRow == [state |-> "absent"]

PlanRow == [state : {"preview", "completed"}, target : Project, impact : SUBSET Fact,
            confirmation : {"pending", "confirmed", "rejected", "expired"},
            reconciled : BOOLEAN]

ItemRow == [state : {"open", "approved", "rejected", "resolved"}, plan : Plan]

FactRow == [state : {"active", "deleted"}, project : Project]

\* What a resolution was asked, the plan its client has in mind, and whether
\* the item was past its expiry when the resolution started.
Want == [item : Item, decision : {"approved", "rejected"}, meant : Plan, late : BOOLEAN]

Stage == {"idle", "lock", "decide", "expire", "commit", "done"}

Answer == {"none", "completed", "expired", "already_resolved", "version_conflict", "error"}

TypeOK ==
    /\ deleted \in SUBSET Project
    /\ fact \in [Fact -> FactRow \cup {NoRow}]
    /\ checked \in SUBSET (Fact \X Project)
    /\ plan \in [Plan -> PlanRow \cup {NoRow}]
    /\ item \in [Item -> ItemRow \cup {NoRow}]
    /\ due \in SUBSET Item
    /\ itemLock \in [Item -> SUBSET Request]
    /\ planLock \in [Plan -> SUBSET Request]
    /\ pc \in [Request -> Stage]
    /\ want \in [Request -> SUBSET Want]
    /\ answer \in [Request -> Answer]

Init ==
    /\ deleted = {}
    /\ fact = [f \in Fact |-> NoRow]
    /\ checked = {}
    /\ plan = [p \in Plan |-> NoRow]
    /\ item = [i \in Item |-> NoRow]
    /\ due = {}
    /\ itemLock = [i \in Item |-> {}]
    /\ planLock = [p \in Plan |-> {}]
    /\ pc = [r \in Request |-> "idle"]
    /\ want = [r \in Request |-> {}]
    /\ answer = [r \in Request |-> "none"]

-----------------------------------------------------------------------------
ActiveFacts(x) == {f \in Fact : fact[f] # NoRow /\ fact[f].state = "active" /\ fact[f].project = x}

\* record_project_fact looks at the project in a session of its own ...
CheckProject(f, x) ==
    /\ fact[f] = NoRow
    /\ x \notin deleted
    /\ \A y \in Project : <<f, y>> \notin checked
    /\ checked' = checked \cup {<<f, x>>}
    /\ UNCHANGED <<deleted, fact, plan, item, due, itemLock, planLock, pc, want, answer>>

\* ... and commits the fact later.
RecordFact(f, x) ==
    /\ <<f, x>> \in checked
    /\ checked' = checked \ {<<f, x>>}
    /\ fact' = [fact EXCEPT ![f] = [state |-> "active", project |-> x]]
    /\ UNCHANGED <<deleted, plan, item, due, itemLock, planLock, pc, want, answer>>

\* create_deletion_plan: the preview and its confirmation item, in one commit.
\* The facts that the impact names are read just before.
CreateDeletionPlan(p, i, x) ==
    /\ plan[p] = NoRow
    /\ item[i] = NoRow
    /\ plan' = [plan EXCEPT ![p] = [state |-> "preview", target |-> x, impact |-> ActiveFacts(x),
                                    confirmation |-> "pending", reconciled |-> FALSE]]
    /\ item' = [item EXCEPT ![i] = [state |-> "open", plan |-> p]]
    /\ UNCHANGED <<deleted, fact, checked, due, itemLock, planLock, pc, want, answer>>

\* create_review_item of type deletion_confirmation: another item for a plan.
CreateReviewItem(i, p) ==
    /\ item[i] = NoRow
    /\ plan[p] # NoRow
    /\ item' = [item EXCEPT ![i] = [state |-> "open", plan |-> p]]
    /\ UNCHANGED <<deleted, fact, checked, plan, due, itemLock, planLock, pc, want, answer>>

FifteenMinutesPass(i) ==
    /\ item[i] # NoRow
    /\ i \notin due
    /\ due' = due \cup {i}
    /\ UNCHANGED <<deleted, fact, checked, plan, item, itemLock, planLock, pc, want, answer>>

-----------------------------------------------------------------------------
\* The item that get_deletion_plan reports for a plan: one of the open
\* deletion confirmations of the owner.
Reported(p) == {i \in Item : item[i] # NoRow /\ item[i].state = "open"}

\* A client decides about the plan it has in mind, by the item that the answer
\* to create_deletion_plan named or by the one get_deletion_plan reports.
Resolve(r, i, d, p) ==
    /\ pc[r] = "idle"
    /\ item[i] # NoRow
    /\ item[i].plan = p \/ (plan[p] # NoRow /\ i \in Reported(p))
    /\ want' = [want EXCEPT ![r] = {[item |-> i, decision |-> d, meant |-> p, late |-> i \in due]}]
    /\ pc' = [pc EXCEPT ![r] = "lock"]
    /\ UNCHANGED <<deleted, fact, checked, plan, item, due, itemLock, planLock, answer>>

Finish(r, a) ==
    /\ pc' = [pc EXCEPT ![r] = "done"]
    /\ answer' = [answer EXCEPT ![r] = a]

\* Mutant: a resolved item is decided again.
IsOpenAlways(i) == TRUE

IsOpen(i) == item[i].state = "open"

\* The item is read and locked; what has been decided is not decided again.
LockItem(r) ==
    /\ pc[r] = "lock"
    /\ \E w \in want[r] :
          /\ itemLock[w.item] = {}
          /\ \/ /\ IsOpen(w.item)
                /\ itemLock' = [itemLock EXCEPT ![w.item] = {r}]
                /\ pc' = [pc EXCEPT ![r] = IF w.late THEN "expire" ELSE "decide"]
                /\ UNCHANGED answer
             \/ /\ ~IsOpen(w.item)
                /\ Finish(r, "already_resolved")
                /\ UNCHANGED itemLock
    /\ UNCHANGED <<deleted, fact, checked, plan, item, due, planLock, want>>

Release(r) ==
    /\ itemLock' = [i \in Item |-> itemLock[i] \ {r}]
    /\ planLock' = [p \in Plan |-> planLock[p] \ {r}]

\* Mutant: any plan will do, executed or not.
MayExecuteAgain(p) == plan[p] # NoRow

\* Only a plan in preview is executed.
MayExecute(p) == plan[p].state = "preview"

\* An approval needs the plan in preview, or the whole resolution rolls back.
\* A rejection, and the closure of an expired item, update the plan if it is
\* still pending.  Either way the plan row is locked from here on.
LockPlan(r) ==
    /\ pc[r] \in {"decide", "expire"}
    /\ \E w \in want[r] :
          LET p == item[w.item].plan
          IN  /\ planLock[p] = {}
              /\ \/ /\ pc[r] = "decide" /\ w.decision = "approved" /\ ~MayExecute(p)
                    /\ Release(r)
                    /\ Finish(r, "version_conflict")
                 \/ /\ pc[r] = "decide" /\ w.decision = "approved" => MayExecute(p)
                    /\ planLock' = [planLock EXCEPT ![p] = {r}]
                    /\ pc' = [pc EXCEPT ![r] = "commit"]
                    /\ UNCHANGED <<itemLock, answer>>
    /\ UNCHANGED <<deleted, fact, checked, plan, item, due, want>>

\* The plan after a verdict that does not execute it.
Closed(p, verdict) ==
    IF plan[p].confirmation = "pending" THEN [plan[p] EXCEPT !.confirmation = verdict] ELSE plan[p]

\* Mutant: the plan is left executing.
ExecutedLeftOpen(p) == [plan[p] EXCEPT !.state = "executing", !.confirmation = "confirmed"]

Executed(p) == [plan[p] EXCEPT !.state = "completed", !.confirmation = "confirmed"]

\* Mutant: the facts are looked up when the plan is executed.
TombstonedNow(p) == ActiveFacts(plan[p].target)

\* The dependents that execution tombstones are those of the preview.
Tombstoned(p) == plan[p].impact

Verdict(w) == IF w.late THEN "resolved" ELSE w.decision

\* The commit publishes the item, the plan and the tombstones together.
Commit(r) ==
    /\ pc[r] = "commit"
    /\ \E w \in want[r] :
          LET p == item[w.item].plan
          IN  /\ item' = [item EXCEPT ![w.item].state = Verdict(w)]
              /\ \/ /\ Verdict(w) = "approved"
                    /\ plan' = [plan EXCEPT ![p] = Executed(p)]
                    /\ deleted' = deleted \cup {plan[p].target}
                    /\ fact' = [f \in Fact |-> IF f \in Tombstoned(p)
                                               THEN [fact[f] EXCEPT !.state = "deleted"]
                                               ELSE fact[f]]
                 \/ /\ Verdict(w) # "approved"
                    /\ plan' = [plan EXCEPT ![p] =
                                  Closed(p, IF w.late THEN "expired" ELSE "rejected")]
                    /\ UNCHANGED <<deleted, fact>>
              /\ Finish(r, IF w.late THEN "expired" ELSE "completed")
    /\ Release(r)
    /\ UNCHANGED <<checked, due, want>>

\* pre_commit() or the database raises: nothing of it remains.
Rollback(r) ==
    /\ pc[r] \in {"lock", "decide", "expire", "commit"}
    /\ Release(r)
    /\ Finish(r, "error")
    /\ UNCHANGED <<deleted, fact, checked, plan, item, due, want>>

\* The reconcile_deletion job.
Reconcile(p) ==
    /\ plan[p] # NoRow
    /\ plan[p].state = "completed"
    /\ ~plan[p].reconciled
    /\ planLock[p] = {}
    /\ plan' = [plan EXCEPT ![p].reconciled = TRUE]
    /\ UNCHANGED <<deleted, fact, checked, item, due, itemLock, planLock, pc, want, answer>>

-----------------------------------------------------------------------------
Next ==
    \/ \E f \in Fact, x \in Project : CheckProject(f, x) \/ RecordFact(f, x)
    \/ \E p \in Plan, i \in Item : \/ CreateReviewItem(i, p)
                                   \/ \E x \in Project : CreateDeletionPlan(p, i, x)
    \/ \E i \in Item : FifteenMinutesPass(i)
    \/ \E r \in Request, i \in Item, p \in Plan, d \in {"approved", "rejected"} : Resolve(r, i, d, p)
    \/ \E r \in Request : LockItem(r) \/ LockPlan(r) \/ Commit(r) \/ Rollback(r)
    \/ \E p \in Plan : Reconcile(p)

Spec == Init /\ [][Next]_vars

-----------------------------------------------------------------------------
Plans == {p \in Plan : plan[p] # NoRow}

Items == {i \in Item : item[i] # NoRow}

\* A plan is executed by exactly one approval, and an approval executes its
\* plan: no item is approved without effect, and no second item, retry or
\* concurrent resolution executes a plan again.
OneApprovalPerExecution ==
    \A p \in Plans :
        Cardinality({i \in Items : item[i].plan = p /\ item[i].state = "approved"})
            = IF plan[p].state = "completed" THEN 1 ELSE 0

\* An item is consumed once (ER-06): of all the resolutions of an item, in time
\* or late, at most one takes effect, and it is the decision the item shows.
ItemsAreSingleUse ==
    \A i \in Items :
        LET R == {r \in Request : answer[r] \in {"completed", "expired"} /\ \E w \in want[r] : w.item = i}
        IN  /\ Cardinality(R) = IF item[i].state = "open" THEN 0 ELSE 1
            /\ \A r \in R : \A w \in want[r] : item[i].state = Verdict(w)

\* Only what a confirmed plan previewed is deleted, and all of it (FR-079,
\* FR-080): nothing that the owner was not shown, whatever was recorded
\* between preview and approval.
OnlyThePreviewIsDeleted ==
    LET done == {p \in Plans : plan[p].state = "completed"}
    IN  /\ deleted = {plan[p].target : p \in done}
        /\ {f \in Fact : fact[f] # NoRow /\ fact[f].state = "deleted"} = UNION {plan[p].impact : p \in done}

\* "The plan is correlated to the open review item": what a client approves is
\* the plan it asked about.  Not kept (README, Deviations).
ApprovedIsWhatWasMeant ==
    \A r \in Request : \A w \in want[r] : answer[r] = "completed" => item[w.item].plan = w.meant

\* "Leaving them active would keep a deleted project's facts readable": a
\* deleted project has no active facts.  Not kept (README, Deviations).
FactsGoWithTheProject ==
    \A x \in deleted : ActiveFacts(x) = {}

\* "An expired confirmation is a terminal state": a plan that was rejected or
\* expired is not executed any more.  Not kept (README, Deviations).
ClosedPlansStayClosed ==
    [][\A p \in Plans : plan[p].confirmation \in {"rejected", "expired"} =>
          plan'[p].confirmation = plan[p].confirmation]_vars

-----------------------------------------------------------------------------
\* A resolution is asked once, about an item that is there, and answers last.
WantsInv ==
    \A r \in Request :
        /\ \A v, w \in want[r] : v = w
        /\ pc[r] = "idle" => want[r] = {}
        /\ answer[r] # "none" => pc[r] = "done"
        /\ \A w \in want[r] : w.item \in Items

Deciding(r) == pc[r] \in {"decide", "expire", "commit"}

\* Whoever decides has the item locked, which is open; whoever is about to commit has
\* the plan locked, which is in preview if it is to be executed.
HoldsInv ==
    \A r \in Request : \A w \in want[r] :
        /\ Deciding(r) => itemLock[w.item] = {r} /\ IsOpen(w.item)
        /\ pc[r] = "decide" => ~w.late
        /\ pc[r] = "expire" => w.late
        /\ pc[r] = "commit" => /\ planLock[item[w.item].plan] = {r}
                               /\ Verdict(w) = "approved" => MayExecute(item[w.item].plan)

\* Locks are held by those who are deciding only.
ItemLocksInv ==
    \A i \in Item : \A r \in itemLock[i] : Deciding(r) /\ \A w \in want[r] : w.item = i

PlanLocksInv ==
    \A p \in Plan : \A r \in planLock[p] :
        pc[r] = "commit" /\ \A w \in want[r] : item[w.item].plan = p

\* Resolution r took effect on item i.
Consumed(r, i) == answer[r] \in {"completed", "expired"} /\ \E w \in want[r] : w.item = i

ConsumedInv ==
    \A i \in Items :
        /\ IsOpen(i) <=> \A r \in Request : ~Consumed(r, i)
        /\ \A q, r \in Request : Consumed(q, i) /\ Consumed(r, i) => q = r
        /\ \A r \in Request : Consumed(r, i) => \A w \in want[r] : item[i].state = Verdict(w)

Approved(i) == item[i].state = "approved"

\* Every item is for a plan, and a plan was executed by its one approved item.
ApprovedInv ==
    /\ \A i \in Items : item[i].plan \in Plans
    /\ \A i \in Items : Approved(i) => plan[item[i].plan].state = "completed"
    /\ \A p \in Plans : plan[p].state = "completed" =>
          \E i \in Items : item[i].plan = p /\ Approved(i)
    /\ \A i, j \in Items : item[i].plan = item[j].plan /\ Approved(i) /\ Approved(j) => i = j

\* A fact is recorded once, and those of a preview were.
FactsInv ==
    /\ \A f \in Fact, x \in Project : <<f, x>> \in checked => fact[f] = NoRow
    /\ \A f \in Fact, x, y \in Project : <<f, x>> \in checked /\ <<f, y>> \in checked => x = y
    /\ \A p \in Plans : \A f \in plan[p].impact : fact[f] # NoRow

\* The inductive invariant of the proofs.
IndInv ==
    /\ TypeOK
    /\ WantsInv
    /\ HoldsInv
    /\ ItemLocksInv
    /\ PlanLocksInv
    /\ ConsumedInv
    /\ ApprovedInv
    /\ FactsInv
    /\ OnlyThePreviewIsDeleted
=============================================================================

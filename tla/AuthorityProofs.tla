-------------------------- MODULE AuthorityProofs --------------------------
(***************************************************************************)
(* What takes the owner's word, for any executions: the approved deletions *)
(* and the permissions under which calls run.  The inductive invariants    *)
(* are checked by the run of MCAuthority; the theorems at the end are      *)
(* about the specification of that run.                                    *)
(***************************************************************************)
EXTENDS MCAuthority, FiniteSetTheorems, TLAPS

(***************************************************************************)
(* Governed deletion.                                                      *)
(***************************************************************************)
\* The initial states satisfy the inductive invariant.
LEMMA PlansInit == G!Init => G!IndInv
<1> SUFFICES ASSUME G!Init PROVE G!IndInv
  OBVIOUS
<1> USE DEF G!Init
<1>1. G!Items = {} /\ G!Plans = {}
  BY DEF G!Items, G!Plans
<1>2. G!TypeOK
  BY DEF G!TypeOK, G!Stage, G!Answer
<1>3. G!WantsInv /\ G!HoldsInv /\ G!ItemLocksInv /\ G!PlanLocksInv /\ G!FactsInv
  BY <1>1 DEF G!WantsInv, G!HoldsInv, G!ItemLocksInv, G!PlanLocksInv, G!FactsInv
<1>4. G!OnlyThePreviewIsDeleted
  BY <1>1 DEF G!OnlyThePreviewIsDeleted, G!NoRow
<1> QED BY <1>1, <1>2, <1>3, <1>4 DEF G!IndInv, G!ConsumedInv, G!ApprovedInv

\* What the rows look like from the types.
LEMMA PlanTypes ==
    ASSUME G!TypeOK
    PROVE  /\ \A p \in G!Plans : p \in Plan /\ plan[p] \in G!PlanRow
           /\ \A i \in G!Items : i \in Item /\ item[i] \in G!ItemRow /\ item[i].plan \in Plan
           /\ \A r \in Resolution : \A w \in want[r] : w \in G!Want /\ w.item \in Item
BY DEF G!TypeOK, G!Plans, G!Items, G!ItemRow, G!Want

\* A step that leaves the resolutions, the items and what they lock alone.
LEMMA PlansAside ==
    ASSUME G!IndInv, UNCHANGED <<item, itemLock, planLock, pc, want, answer>>,
           G!Plans \subseteq G!Plans',
           \A p \in G!Plans : plan'[p].state = plan[p].state
    PROVE  /\ G!Items' = G!Items
           /\ G!WantsInv' /\ G!HoldsInv' /\ G!ItemLocksInv' /\ G!PlanLocksInv' /\ G!ConsumedInv'
<1> USE DEF G!IndInv
<1>1. G!Items' = G!Items
  BY DEF G!Items
<1>2. G!WantsInv'
  BY <1>1 DEF G!WantsInv
<1>3. G!HoldsInv'
  <2>1. \A r \in Resolution : \A w \in want[r] : item[w.item].plan \in G!Plans
    BY DEF G!WantsInv, G!ApprovedInv
  <2> QED BY <2>1 DEF G!HoldsInv, G!Deciding, G!IsOpen, G!MayExecute
<1>4. G!ItemLocksInv' /\ G!PlanLocksInv'
  BY DEF G!ItemLocksInv, G!PlanLocksInv, G!Deciding
<1>5. G!ConsumedInv'
  BY <1>1 DEF G!ConsumedInv, G!Consumed, G!IsOpen
<1> QED BY <1>1, <1>2, <1>3, <1>4, <1>5

\* A step that only concerns facts not yet recorded.
LEMMA PlansCheckProject ==
    ASSUME NEW f \in Fact, NEW x \in Doomed, G!IndInv, G!CheckProject(f, x) PROVE G!IndInv'
<1> USE DEF G!IndInv
<1>1. /\ fact[f] = G!NoRow
      /\ \A y \in Doomed : <<f, y>> \notin checked
      /\ checked' = checked \cup {<<f, x>>}
      /\ UNCHANGED <<deleted, fact, plan, item, due, itemLock, planLock, pc, want, answer>>
  BY DEF G!CheckProject
<1>2. G!Plans' = G!Plans /\ G!Items' = G!Items
  BY <1>1 DEF G!Plans, G!Items
<1>3. G!TypeOK'
  BY <1>1 DEF G!TypeOK
<1>4. G!FactsInv'
  BY <1>1, <1>2 DEF G!FactsInv, G!TypeOK
<1>5. G!WantsInv' /\ G!HoldsInv' /\ G!ItemLocksInv' /\ G!PlanLocksInv' /\ G!ConsumedInv'
  BY <1>1, <1>2, PlansAside
<1>6. G!ApprovedInv' /\ G!OnlyThePreviewIsDeleted'
  BY <1>1, <1>2 DEF G!ApprovedInv, G!Approved, G!OnlyThePreviewIsDeleted
<1> QED BY <1>3, <1>4, <1>5, <1>6

\* A fact that is recorded now is in no preview yet.
LEMMA PlansRecordFact ==
    ASSUME NEW f \in Fact, NEW x \in Doomed, G!IndInv, G!RecordFact(f, x) PROVE G!IndInv'
<1> USE DEF G!IndInv
<1> DEFINE new == [state |-> "active", project |-> x]
<1>1. /\ <<f, x>> \in checked
      /\ checked' = checked \ {<<f, x>>}
      /\ fact' = [fact EXCEPT ![f] = new]
      /\ UNCHANGED <<deleted, plan, item, due, itemLock, planLock, pc, want, answer>>
  BY DEF G!RecordFact
<1>2. new \in G!FactRow /\ new # G!NoRow /\ new.state = "active"
  BY DEF G!FactRow, G!NoRow
<1> HIDE DEF new
<1>3. G!Plans' = G!Plans /\ G!Items' = G!Items
  BY <1>1 DEF G!Plans, G!Items
<1>4. fact[f] = G!NoRow /\ \A g \in Fact : fact'[g] = IF g = f THEN new ELSE fact[g]
  BY <1>1 DEF G!FactsInv, G!TypeOK
<1>5. G!TypeOK'
  BY <1>1, <1>2 DEF G!TypeOK
<1>6. G!FactsInv'
  BY <1>1, <1>2, <1>3, <1>4 DEF G!FactsInv
<1>7. /\ G!WantsInv' /\ G!HoldsInv' /\ G!ItemLocksInv' /\ G!PlanLocksInv' /\ G!ConsumedInv'
      /\ G!ApprovedInv'
  BY <1>1, <1>3, PlansAside DEF G!ApprovedInv, G!Approved
<1>8. G!OnlyThePreviewIsDeleted'
  <2>1. {g \in Fact : fact'[g] # G!NoRow /\ fact'[g].state = "deleted"}
          = {g \in Fact : fact[g] # G!NoRow /\ fact[g].state = "deleted"}
    BY <1>2, <1>4
  <2> QED BY <1>1, <1>3, <2>1 DEF G!OnlyThePreviewIsDeleted
<1> QED BY <1>5, <1>6, <1>7, <1>8

\* A new item is open, has been seen by nobody and is for a plan that is there.
LEMMA PlansNewItem ==
    ASSUME NEW i \in Item, NEW p \in Plan, G!IndInv, item[i] = G!NoRow,
           item' = [item EXCEPT ![i] = [state |-> "open", plan |-> p]],
           UNCHANGED <<deleted, fact, checked, due, itemLock, planLock, pc, want, answer>>,
           G!Plans \subseteq G!Plans', p \in G!Plans',
           \A q \in G!Plans : plan'[q] = plan[q],
           \A q \in G!Plans' \ G!Plans : plan'[q].state = "preview"
    PROVE  /\ G!Items' = G!Items \cup {i}
           /\ item' \in [Item -> G!ItemRow \cup {G!NoRow}]
           /\ G!WantsInv' /\ G!HoldsInv' /\ G!ItemLocksInv' /\ G!PlanLocksInv'
           /\ G!ConsumedInv' /\ G!ApprovedInv'
<1> USE DEF G!IndInv
<1> DEFINE new == [state |-> "open", plan |-> p]
<1>1. new \in G!ItemRow /\ new # G!NoRow /\ new.state = "open" /\ new.plan = p
  BY DEF G!ItemRow, G!NoRow
<1>2. item' = [item EXCEPT ![i] = new]
  OBVIOUS
<1> HIDE DEF new
<1>3. \A j \in Item : item'[j] = IF j = i THEN new ELSE item[j]
  BY <1>2 DEF G!TypeOK
<1>4. G!Items' = G!Items \cup {i} /\ i \notin G!Items
  BY <1>1, <1>3 DEF G!Items
<1>5. item' \in [Item -> G!ItemRow \cup {G!NoRow}]
  BY <1>1, <1>2 DEF G!TypeOK
<1>6. \A r \in Resolution : \A w \in want[r] : w.item \in G!Items /\ w.item \in Item /\ w.item # i
  BY <1>4, PlanTypes DEF G!WantsInv
<1>7. G!WantsInv'
  BY <1>4 DEF G!WantsInv
<1>8. G!HoldsInv' /\ G!ItemLocksInv' /\ G!PlanLocksInv'
  <2>1. \A r \in Resolution : \A w \in want[r] :
            item'[w.item] = item[w.item] /\ item[w.item].plan \in G!Plans
    BY <1>3, <1>6 DEF G!ApprovedInv
  <2>2. \A r \in Resolution : \A w \in want[r] :
            plan'[item[w.item].plan] = plan[item[w.item].plan]
    BY <2>1
  <2>3. G!HoldsInv'
    BY <2>1, <2>2 DEF G!HoldsInv, G!Deciding, G!IsOpen, G!MayExecute
  <2>4. G!ItemLocksInv'
    BY DEF G!ItemLocksInv, G!Deciding
  <2>5. \A q \in Plan : \A r \in planLock[q] : r \in Resolution
    BY DEF G!TypeOK
  <2>6. G!PlanLocksInv'
    BY <2>1, <2>5 DEF G!PlanLocksInv
  <2> QED BY <2>3, <2>4, <2>6
<1>9. G!ConsumedInv'
  BY <1>1, <1>3, <1>4, <1>6 DEF G!ConsumedInv, G!Consumed, G!IsOpen, G!Items
<1>10. G!ApprovedInv'
  <2>1. \A j \in G!Items : j # i /\ j \in Item /\ item'[j] = item[j]
    BY <1>3, <1>4 DEF G!Items
  <2>2. item'[i].plan = p /\ item'[i].state = "open"
    BY <1>1, <1>3
  <2> QED BY <1>4, <2>1, <2>2 DEF G!ApprovedInv, G!Approved
<1> QED BY <1>4, <1>5, <1>7, <1>8, <1>9, <1>10

\* A preview names recorded facts and comes with its item.
LEMMA PlansCreate ==
    ASSUME NEW p \in Plan, NEW i \in Item, NEW x \in Doomed, G!IndInv,
           G!CreateDeletionPlan(p, i, x)
    PROVE  G!IndInv'
<1> DEFINE new == [state |-> "preview", target |-> x, impact |-> G!ActiveFacts(x),
                   confirmation |-> "pending", reconciled |-> FALSE]
<1>1. /\ plan[p] = G!NoRow /\ item[i] = G!NoRow
      /\ plan' = [plan EXCEPT ![p] = new]
      /\ item' = [item EXCEPT ![i] = [state |-> "open", plan |-> p]]
      /\ UNCHANGED <<deleted, fact, checked, due, itemLock, planLock, pc, want, answer>>
  BY DEF G!CreateDeletionPlan
<1>2. /\ new \in G!PlanRow /\ new # G!NoRow /\ new.state = "preview"
      /\ \A f \in new.impact : f \in Fact /\ fact[f] # G!NoRow
  BY DEF G!PlanRow, G!NoRow, G!ActiveFacts
<1> HIDE DEF new
<1>3. /\ plan' \in [Plan -> G!PlanRow \cup {G!NoRow}]
      /\ \A q \in Plan : plan'[q] = IF q = p THEN new ELSE plan[q]
  BY <1>1, <1>2 DEF G!IndInv, G!TypeOK
<1>4. G!Plans' = G!Plans \cup {p} /\ p \notin G!Plans /\ G!Plans \subseteq Plan
  BY <1>1, <1>2, <1>3 DEF G!Plans
<1>5. /\ G!Items' = G!Items \cup {i}
      /\ item' \in [Item -> G!ItemRow \cup {G!NoRow}]
      /\ G!WantsInv' /\ G!HoldsInv' /\ G!ItemLocksInv' /\ G!PlanLocksInv'
      /\ G!ConsumedInv' /\ G!ApprovedInv'
  BY <1>1, <1>2, <1>3, <1>4, PlansNewItem
<1>6. G!TypeOK'
  BY <1>1, <1>3, <1>5 DEF G!IndInv, G!TypeOK
<1>7. G!FactsInv'
  BY <1>1, <1>2, <1>3, <1>4 DEF G!IndInv, G!FactsInv
<1>8. G!OnlyThePreviewIsDeleted'
  <2>1. {q \in G!Plans' : plan'[q].state = "completed"} = {q \in G!Plans : plan[q].state = "completed"}
    BY <1>2, <1>3, <1>4
  <2>2. \A q \in {q \in G!Plans : plan[q].state = "completed"} : plan'[q] = plan[q]
    BY <1>3, <1>4
  <2> QED BY <1>1, <2>1, <2>2 DEF G!IndInv, G!OnlyThePreviewIsDeleted
<1> QED BY <1>5, <1>6, <1>7, <1>8 DEF G!IndInv

\* Another item for a plan.
LEMMA PlansCreateItem ==
    ASSUME NEW i \in Item, NEW p \in Plan, G!IndInv, G!CreateReviewItem(i, p) PROVE G!IndInv'
<1>1. /\ item[i] = G!NoRow /\ p \in G!Plans /\ G!Plans' = G!Plans
      /\ item' = [item EXCEPT ![i] = [state |-> "open", plan |-> p]]
      /\ UNCHANGED <<deleted, fact, checked, plan, due, itemLock, planLock, pc, want, answer>>
  BY DEF G!CreateReviewItem, G!Plans
<1>2. /\ item' \in [Item -> G!ItemRow \cup {G!NoRow}]
      /\ G!WantsInv' /\ G!HoldsInv' /\ G!ItemLocksInv' /\ G!PlanLocksInv'
      /\ G!ConsumedInv' /\ G!ApprovedInv'
  BY <1>1, PlansNewItem
<1>3. G!TypeOK' /\ G!FactsInv' /\ G!OnlyThePreviewIsDeleted'
  BY <1>1, <1>2 DEF G!IndInv, G!TypeOK, G!FactsInv, G!OnlyThePreviewIsDeleted
<1> QED BY <1>2, <1>3 DEF G!IndInv

\* Time concerns resolutions that have yet to come.
LEMMA PlansAge == ASSUME NEW i \in Item, G!IndInv, G!FifteenMinutesPass(i) PROVE G!IndInv'
<1>1. /\ due' = due \cup {i}
      /\ UNCHANGED <<deleted, fact, checked, plan, item, itemLock, planLock, pc, want, answer>>
      /\ G!Plans' = G!Plans
  BY DEF G!FifteenMinutesPass, G!Plans
<1>2. G!WantsInv' /\ G!HoldsInv' /\ G!ItemLocksInv' /\ G!PlanLocksInv' /\ G!ConsumedInv'
      /\ G!Items' = G!Items
  BY <1>1, PlansAside
<1>3. G!TypeOK' /\ G!FactsInv' /\ G!ApprovedInv' /\ G!OnlyThePreviewIsDeleted'
  BY <1>1, <1>2 DEF G!IndInv, G!TypeOK, G!FactsInv, G!ApprovedInv, G!Approved,
                    G!OnlyThePreviewIsDeleted
<1> QED BY <1>2, <1>3 DEF G!IndInv

\* The bookkeeping that follows an execution.
LEMMA PlansReconcile == ASSUME NEW p \in Plan, G!IndInv, G!Reconcile(p) PROVE G!IndInv'
<1> DEFINE row == plan[p]
<1>1. /\ row \in G!PlanRow
      /\ plan' = [plan EXCEPT ![p] = [row EXCEPT !.reconciled = TRUE]]
      /\ UNCHANGED <<deleted, fact, checked, item, due, itemLock, planLock, pc, want, answer>>
  BY DEF G!Reconcile, G!IndInv, G!TypeOK
<1>2. /\ [row EXCEPT !.reconciled = TRUE] \in G!PlanRow
      /\ [row EXCEPT !.reconciled = TRUE].state = row.state
      /\ [row EXCEPT !.reconciled = TRUE].target = row.target
      /\ [row EXCEPT !.reconciled = TRUE].impact = row.impact
      /\ [row EXCEPT !.reconciled = TRUE] # G!NoRow
  <2> HIDE DEF row
  <2> QED BY <1>1 DEF G!PlanRow, G!NoRow
<1>9. row = plan[p] /\ row # G!NoRow
  BY DEF G!Reconcile
<1> HIDE DEF row
<1>10. \A q \in Plan : plan'[q] = IF q = p THEN [row EXCEPT !.reconciled = TRUE] ELSE plan[q]
  BY <1>1 DEF G!IndInv, G!TypeOK
<1>3. /\ plan' \in [Plan -> G!PlanRow \cup {G!NoRow}]
      /\ G!Plans' = G!Plans
      /\ \A q \in Plan : /\ plan'[q].state = plan[q].state
                         /\ plan'[q].target = plan[q].target
                         /\ plan'[q].impact = plan[q].impact
  BY <1>1, <1>2, <1>9, <1>10 DEF G!IndInv, G!TypeOK, G!Plans
<1>4. G!Plans \subseteq Plan
  BY DEF G!Plans
<1>5. G!WantsInv' /\ G!HoldsInv' /\ G!ItemLocksInv' /\ G!PlanLocksInv' /\ G!ConsumedInv'
      /\ G!Items' = G!Items
  BY <1>1, <1>3, <1>4, PlansAside
<1>6. G!TypeOK' /\ G!FactsInv'
  BY <1>1, <1>3, <1>4 DEF G!IndInv, G!TypeOK, G!FactsInv
<1>7. G!ApprovedInv'
  BY <1>1, <1>3, <1>4, <1>5 DEF G!IndInv, G!ApprovedInv, G!Approved
<1>8. G!OnlyThePreviewIsDeleted'
  <2> DEFINE done == {q \in G!Plans : plan[q].state = "completed"}
  <2>1. {q \in G!Plans' : plan'[q].state = "completed"} = done
    BY <1>3, <1>4
  <2>2. /\ {plan'[q].target : q \in done} = {plan[q].target : q \in done}
        /\ {plan'[q].impact : q \in done} = {plan[q].impact : q \in done}
    BY <1>3, <1>4
  <2>3. /\ deleted = {plan[q].target : q \in done}
        /\ {f \in Fact : fact[f] # G!NoRow /\ fact[f].state = "deleted"}
              = UNION {plan[q].impact : q \in done}
    BY DEF G!IndInv, G!OnlyThePreviewIsDeleted
  <2> HIDE DEF done
  <2> QED BY <1>1, <2>1, <2>2, <2>3 DEF G!OnlyThePreviewIsDeleted
<1> QED BY <1>5, <1>6, <1>7, <1>8 DEF G!IndInv

\* A resolution that starts has consumed nothing.
LEMMA PlansResolve ==
    ASSUME NEW r \in Resolution, NEW i \in Item, NEW d \in {"approved", "rejected"},
           NEW p \in Plan, G!IndInv, G!Resolve(r, i, d, p)
    PROVE  G!IndInv'
<1> DEFINE asked == [item |-> i, decision |-> d, meant |-> p, late |-> i \in due]
<1>1. /\ pc[r] = "idle" /\ i \in G!Items /\ want[r] = {} /\ answer[r] = "none"
      /\ want' = [want EXCEPT ![r] = {asked}]
      /\ pc' = [pc EXCEPT ![r] = "lock"]
      /\ UNCHANGED <<deleted, fact, checked, plan, item, due, itemLock, planLock, answer>>
  BY DEF G!Resolve, G!IndInv, G!WantsInv, G!Items
<1>2. asked \in G!Want /\ asked.item = i
  BY DEF G!Want
<1> HIDE DEF asked
<1>3. /\ want'[r] = {asked} /\ pc'[r] = "lock"
      /\ \A q \in Resolution : q # r => want'[q] = want[q] /\ pc'[q] = pc[q]
  BY <1>1 DEF G!IndInv, G!TypeOK
<1>4. G!Plans' = G!Plans /\ G!Items' = G!Items
  BY <1>1 DEF G!Plans, G!Items
<1>5. G!TypeOK'
  BY <1>1, <1>2 DEF G!IndInv, G!TypeOK, G!Stage
<1>6. G!WantsInv'
  BY <1>1, <1>2, <1>3, <1>4 DEF G!IndInv, G!WantsInv
<1>7. G!HoldsInv'
  BY <1>1, <1>3 DEF G!IndInv, G!HoldsInv, G!Deciding, G!IsOpen, G!MayExecute
<1>8. G!ItemLocksInv' /\ G!PlanLocksInv'
  <2>1. /\ \A j \in Item : \A q \in itemLock[j] : q \in Resolution /\ q # r
        /\ \A j \in Plan : \A q \in planLock[j] : q \in Resolution /\ q # r
    BY <1>1 DEF G!IndInv, G!TypeOK, G!ItemLocksInv, G!PlanLocksInv, G!Deciding
  <2> QED BY <1>1, <1>3, <2>1 DEF G!IndInv, G!ItemLocksInv, G!PlanLocksInv, G!Deciding
<1>9. G!ConsumedInv'
  <2>1. \A q \in Resolution : \A j : G!Consumed(q, j)' <=> G!Consumed(q, j)
    BY <1>1, <1>3 DEF G!Consumed
  <2>2. \A q \in Resolution : \A j : G!Consumed(q, j) => q # r
    BY <1>1 DEF G!Consumed
  <2> QED BY <1>1, <1>3, <1>4, <2>1, <2>2 DEF G!IndInv, G!ConsumedInv, G!IsOpen
<1>10. G!ApprovedInv' /\ G!FactsInv' /\ G!OnlyThePreviewIsDeleted'
  BY <1>1, <1>4 DEF G!IndInv, G!ApprovedInv, G!Approved, G!FactsInv, G!OnlyThePreviewIsDeleted
<1> QED BY <1>5, <1>6, <1>7, <1>8, <1>9, <1>10 DEF G!IndInv

\* A resolution that moves on without taking effect leaves rows and verdicts alone.
LEMMA PlansMoved ==
    ASSUME NEW r \in Resolution, G!IndInv, pc[r] \notin {"idle", "done"}, pc'[r] # "idle",
           pc' \in [Resolution -> G!Stage],
           \A q \in Resolution : q # r => pc'[q] = pc[q] /\ answer'[q] = answer[q],
           answer'[r] \notin {"completed", "expired"}, answer'[r] # "none" => pc'[r] = "done",
           UNCHANGED <<deleted, fact, checked, plan, item, due, want>>
    PROVE  /\ G!WantsInv' /\ G!ConsumedInv' /\ G!ApprovedInv' /\ G!FactsInv'
           /\ G!OnlyThePreviewIsDeleted'
<1>1. G!Plans' = G!Plans /\ G!Items' = G!Items
  BY DEF G!Plans, G!Items
<1>2. answer[r] = "none"
  BY DEF G!IndInv, G!WantsInv
<1>3. G!WantsInv'
  BY <1>1 DEF G!IndInv, G!WantsInv
<1>4. \A q \in Resolution : \A j : G!Consumed(q, j)' <=> G!Consumed(q, j)
  BY <1>2 DEF G!Consumed
<1>5. G!ConsumedInv'
  BY <1>1, <1>4 DEF G!IndInv, G!ConsumedInv, G!IsOpen
<1>6. G!ApprovedInv' /\ G!FactsInv' /\ G!OnlyThePreviewIsDeleted'
  BY <1>1 DEF G!IndInv, G!ApprovedInv, G!Approved, G!FactsInv, G!OnlyThePreviewIsDeleted
<1> QED BY <1>3, <1>5, <1>6

\* What a resolution that ends lets go of were its own locks.
LEMMA PlansReleased ==
    ASSUME NEW r \in Resolution, G!IndInv, G!Release(r), pc'[r] = "done",
           \A q \in Resolution : q # r => pc'[q] = pc[q],
           UNCHANGED want,
           \A j \in G!Items : item'[j].plan = item[j].plan,
           \A j \in G!Items : itemLock[j] # {r} => item'[j] = item[j],
           \A p \in G!Plans : planLock[p] # {r} => plan'[p].state = plan[p].state
    PROVE  G!HoldsInv' /\ G!ItemLocksInv' /\ G!PlanLocksInv'
<1>1. /\ \A j \in Item : itemLock'[j] = itemLock[j] \ {r} /\ itemLock[j] \subseteq Resolution
      /\ \A p \in Plan : planLock'[p] = planLock[p] \ {r} /\ planLock[p] \subseteq Resolution
  BY DEF G!Release, G!IndInv, G!TypeOK
<1>2. \A q \in Resolution : \A w \in want[q] :
        /\ w.item \in G!Items /\ w.item \in Item
        /\ item[w.item].plan \in G!Plans /\ item[w.item].plan \in Plan
        /\ item'[w.item].plan = item[w.item].plan
  BY PlanTypes DEF G!IndInv, G!WantsInv, G!ApprovedInv
<1>8. \A q \in Resolution : q # r => {q} # {r} /\ {q} \ {r} = {q}
  OBVIOUS
<1>3. \A q \in Resolution : \A w \in want[q] : q # r /\ G!Deciding(q) =>
        /\ itemLock[w.item] = {q} /\ itemLock'[w.item] = {q} /\ item'[w.item] = item[w.item]
  <2> SUFFICES ASSUME NEW q \in Resolution, NEW w \in want[q], q # r, G!Deciding(q)
               PROVE  /\ itemLock[w.item] = {q} /\ itemLock'[w.item] = {q}
                      /\ item'[w.item] = item[w.item]
    OBVIOUS
  <2>1. itemLock[w.item] = {q} /\ w.item \in Item /\ w.item \in G!Items
    BY <1>2 DEF G!IndInv, G!HoldsInv
  <2>2. itemLock'[w.item] = {q} /\ itemLock[w.item] # {r}
    BY <1>1, <1>8, <2>1
  <2> QED BY <2>1, <2>2
<1>4. \A q \in Resolution : \A w \in want[q] : q # r /\ pc[q] = "commit" =>
        /\ planLock[item[w.item].plan] = {q} /\ planLock'[item[w.item].plan] = {q}
        /\ plan'[item[w.item].plan].state = plan[item[w.item].plan].state
  <2> SUFFICES ASSUME NEW q \in Resolution, NEW w \in want[q], q # r, pc[q] = "commit"
               PROVE  LET p == item[w.item].plan
                      IN  planLock[p] = {q} /\ planLock'[p] = {q} /\ plan'[p].state = plan[p].state
    OBVIOUS
  <2>1. PICK p \in Plan : p = item[w.item].plan /\ p \in G!Plans
    BY <1>2
  <2>2. planLock[p] = {q}
    BY <2>1 DEF G!IndInv, G!HoldsInv
  <2>3. planLock'[p] = {q} /\ planLock[p] # {r}
    BY <1>1, <1>8, <2>2
  <2> QED BY <2>1, <2>2, <2>3
<1>5. G!HoldsInv'
  BY <1>2, <1>3, <1>4 DEF G!IndInv, G!HoldsInv, G!Deciding, G!IsOpen, G!MayExecute
<1>6. G!ItemLocksInv'
  BY <1>1 DEF G!IndInv, G!ItemLocksInv, G!Deciding
<1>7. G!PlanLocksInv'
  <2>1. \A p \in Plan : \A q \in planLock'[p] : q \in planLock[p] /\ q # r /\ q \in Resolution
    BY <1>1
  <2> QED BY <1>2, <2>1 DEF G!IndInv, G!PlanLocksInv
<1> QED BY <1>5, <1>6, <1>7

\* An item that is locked is open, and no one else has it.
LEMMA PlansLockItem == ASSUME NEW r \in Resolution, G!IndInv, G!LockItem(r) PROVE G!IndInv'
<1>1. PICK w \in want[r] :
          /\ itemLock[w.item] = {}
          /\ \/ /\ G!IsOpen(w.item)
                /\ itemLock' = [itemLock EXCEPT ![w.item] = {r}]
                /\ pc' = [pc EXCEPT ![r] = IF w.late THEN "expire" ELSE "decide"]
                /\ UNCHANGED answer
             \/ /\ ~G!IsOpen(w.item)
                /\ G!Finish(r, "already_resolved")
                /\ UNCHANGED itemLock
  BY DEF G!LockItem
<1>2. /\ pc[r] = "lock" /\ w.item \in Item /\ w.item \in G!Items
      /\ \A v \in want[r] : v = w
      /\ answer[r] = "none"
      /\ UNCHANGED <<deleted, fact, checked, plan, item, due, planLock, want>>
  BY <1>1, PlanTypes DEF G!LockItem, G!IndInv, G!WantsInv
<1>3. /\ pc' \in [Resolution -> G!Stage] /\ pc'[r] \in {"expire", "decide", "done"}
      /\ \A q \in Resolution : q # r => pc'[q] = pc[q] /\ answer'[q] = answer[q]
      /\ answer' \in [Resolution -> G!Answer]
      /\ answer'[r] \notin {"completed", "expired"}
      /\ answer'[r] # "none" => pc'[r] = "done"
  BY <1>1, <1>2 DEF G!IndInv, G!TypeOK, G!Stage, G!Answer, G!Finish
<1>4. /\ itemLock' \in [Item -> SUBSET Resolution]
      /\ pc'[r] # "done" => /\ itemLock'[w.item] = {r} /\ G!IsOpen(w.item)
                            /\ pc'[r] = IF w.late THEN "expire" ELSE "decide"
      /\ pc'[r] = "done" => itemLock' = itemLock
      /\ \A i \in Item : i # w.item => itemLock'[i] = itemLock[i]
  BY <1>1, <1>2 DEF G!IndInv, G!TypeOK, G!Finish
<1>5. \A q \in Resolution : \A v \in want[q] : G!Deciding(q) =>
          q # r /\ v.item # w.item /\ v.item \in Item
  BY <1>1, <1>2, PlanTypes DEF G!IndInv, G!HoldsInv, G!Deciding
<1>6. G!TypeOK'
  BY <1>2, <1>3, <1>4 DEF G!IndInv, G!TypeOK
<1>7. G!HoldsInv'
  <2>1. \A v \in want[r] : pc'[r] # "done" =>
            /\ itemLock'[v.item] = {r} /\ G!IsOpen(v.item)'
            /\ pc'[r] = "decide" => ~v.late
            /\ pc'[r] = "expire" => v.late
    BY <1>2, <1>4 DEF G!IsOpen
  <2>2. \A q \in Resolution : \A v \in want[q] : q # r /\ G!Deciding(q) =>
            itemLock'[v.item] = itemLock[v.item]
    BY <1>4, <1>5
  <2> QED BY <1>2, <1>3, <2>1, <2>2 DEF G!IndInv, G!HoldsInv, G!Deciding, G!IsOpen, G!MayExecute
<1>8. G!ItemLocksInv'
  <2>1. \A i \in Item : \A q \in itemLock[i] : q \in Resolution /\ q # r
    BY <1>2 DEF G!IndInv, G!TypeOK, G!ItemLocksInv, G!Deciding
  <2>2. \A i \in Item : i # w.item \/ pc'[r] = "done" =>
            \A q \in itemLock'[i] : G!Deciding(q)' /\ \A v \in want'[q] : v.item = i
    BY <1>2, <1>3, <1>4, <2>1 DEF G!IndInv, G!ItemLocksInv, G!Deciding
  <2>3. pc'[r] # "done" =>
            \A q \in itemLock'[w.item] : G!Deciding(q)' /\ \A v \in want'[q] : v.item = w.item
    BY <1>2, <1>3, <1>4 DEF G!Deciding
  <2> QED BY <2>2, <2>3 DEF G!ItemLocksInv
<1>9. G!PlanLocksInv'
  <2>1. \A p \in Plan : \A q \in planLock[p] : q \in Resolution /\ q # r
    BY <1>2 DEF G!IndInv, G!TypeOK, G!PlanLocksInv
  <2> QED BY <1>2, <1>3, <2>1 DEF G!IndInv, G!PlanLocksInv
<1> QED BY <1>2, <1>3, <1>6, <1>7, <1>8, <1>9, PlansMoved DEF G!IndInv

\* Whoever gives up lets go of its locks and nothing else.
LEMMA PlansGiveUp ==
    ASSUME NEW r \in Resolution, G!IndInv, pc[r] \notin {"idle", "done"}, G!Release(r),
           NEW a \in {"version_conflict", "error"}, G!Finish(r, a),
           UNCHANGED <<deleted, fact, checked, plan, item, due, want>>
    PROVE  G!IndInv'
<1>1. /\ pc' \in [Resolution -> G!Stage] /\ pc'[r] = "done"
      /\ \A q \in Resolution : q # r => pc'[q] = pc[q] /\ answer'[q] = answer[q]
      /\ answer' \in [Resolution -> G!Answer]
      /\ answer'[r] \notin {"completed", "expired"}
  BY DEF G!IndInv, G!TypeOK, G!Stage, G!Answer, G!Finish
<1>2. /\ itemLock' \in [Item -> SUBSET Resolution]
      /\ planLock' \in [Plan -> SUBSET Resolution]
  BY DEF G!Release, G!IndInv, G!TypeOK
<1>3. G!TypeOK'
  BY <1>1, <1>2 DEF G!IndInv, G!TypeOK
<1>4. G!HoldsInv' /\ G!ItemLocksInv' /\ G!PlanLocksInv'
  BY <1>1, PlansReleased
<1> QED BY <1>1, <1>3, <1>4, PlansMoved DEF G!IndInv

\* A resolution that has locked the plan has it in preview, if it will execute it.
LEMMA PlansLockPlan == ASSUME NEW r \in Resolution, G!IndInv, G!LockPlan(r) PROVE G!IndInv'
<1>1. PICK w \in want[r] : LET p == item[w.item].plan
          IN  /\ planLock[p] = {}
              /\ \/ /\ pc[r] = "decide" /\ w.decision = "approved" /\ ~G!MayExecute(p)
                    /\ G!Release(r)
                    /\ G!Finish(r, "version_conflict")
                 \/ /\ pc[r] = "decide" /\ w.decision = "approved" => G!MayExecute(p)
                    /\ planLock' = [planLock EXCEPT ![p] = {r}]
                    /\ pc' = [pc EXCEPT ![r] = "commit"]
                    /\ UNCHANGED <<itemLock, answer>>
  BY DEF G!LockPlan
<1>2. /\ pc[r] \in {"decide", "expire"} /\ w.item \in G!Items
      /\ \A v \in want[r] : v = w
      /\ answer[r] = "none"
      /\ UNCHANGED <<deleted, fact, checked, plan, item, due, want>>
  BY DEF G!LockPlan, G!IndInv, G!WantsInv
<1>3. PICK p \in Plan : p = item[w.item].plan
  BY <1>2, PlanTypes DEF G!IndInv
<1>4. CASE G!Release(r) /\ G!Finish(r, "version_conflict")
  BY <1>2, <1>4, PlansGiveUp
<1>5. CASE /\ pc[r] = "decide" /\ w.decision = "approved" => G!MayExecute(p)
           /\ planLock' = [planLock EXCEPT ![p] = {r}]
           /\ pc' = [pc EXCEPT ![r] = "commit"]
           /\ UNCHANGED <<itemLock, answer>>
  <2>1. /\ pc' \in [Resolution -> G!Stage] /\ pc'[r] = "commit"
        /\ \A q \in Resolution : q # r => pc'[q] = pc[q]
    BY <1>5 DEF G!IndInv, G!TypeOK, G!Stage
  <2>2. /\ planLock' \in [Plan -> SUBSET Resolution]
        /\ planLock'[p] = {r} /\ planLock[p] = {}
        /\ \A q \in Plan : q # p => planLock'[q] = planLock[q]
    BY <1>1, <1>3, <1>5 DEF G!IndInv, G!TypeOK
  <2>3. G!TypeOK'
    BY <1>2, <1>5, <2>1, <2>2 DEF G!IndInv, G!TypeOK
  <2>4. G!Verdict(w) = "approved" => G!MayExecute(p)
    BY <1>2, <1>5 DEF G!Verdict, G!IndInv, G!HoldsInv
  <2>5. G!HoldsInv'
    <3>1. itemLock[w.item] = {r} /\ G!IsOpen(w.item)
      BY <1>2 DEF G!IndInv, G!HoldsInv, G!Deciding
    <3>2. \A v \in want'[r] :
              /\ itemLock'[v.item] = {r} /\ G!IsOpen(v.item)'
              /\ planLock'[item'[v.item].plan] = {r}
              /\ G!Verdict(v) = "approved" => G!MayExecute(item[v.item].plan)'
      BY <1>2, <1>3, <1>5, <2>2, <2>4, <3>1 DEF G!IsOpen, G!MayExecute
    <3>3. \A q \in Resolution : \A v \in want[q] : pc[q] = "commit" =>
              planLock'[item[v.item].plan] = {q}
      <4> SUFFICES ASSUME NEW q \in Resolution, NEW v \in want[q], pc[q] = "commit"
                   PROVE  planLock'[item[v.item].plan] = {q}
        OBVIOUS
      <4>1. planLock[item[v.item].plan] = {q} /\ item[v.item].plan \in Plan
        BY PlanTypes DEF G!IndInv, G!HoldsInv, G!WantsInv
      <4> QED BY <2>2, <4>1
    <3>4. \A q \in Resolution : \A v \in want'[q] : q # r =>
              /\ G!Deciding(q)' => itemLock'[v.item] = {q} /\ G!IsOpen(v.item)'
              /\ pc'[q] = "decide" => ~v.late
              /\ pc'[q] = "expire" => v.late
              /\ pc'[q] = "commit" =>
                    /\ planLock'[item'[v.item].plan] = {q}
                    /\ G!Verdict(v) = "approved" => G!MayExecute(item[v.item].plan)'
      BY <1>2, <1>5, <2>1, <3>3 DEF G!IndInv, G!HoldsInv, G!Deciding, G!IsOpen, G!MayExecute
    <3>5. G!Deciding(r)' /\ pc'[r] # "decide" /\ pc'[r] # "expire"
      BY <2>1 DEF G!Deciding
    <3> QED BY <3>2, <3>4, <3>5 DEF G!HoldsInv
  <2>6. G!ItemLocksInv'
    BY <1>2, <1>5, <2>1 DEF G!IndInv, G!ItemLocksInv, G!TypeOK, G!Deciding
  <2>7. G!PlanLocksInv'
    <3>1. \A q \in Plan : \A s \in planLock[q] : s \in Resolution /\ s # r
      BY <1>2 DEF G!IndInv, G!TypeOK, G!PlanLocksInv
    <3>2. \A v \in want[r] : item[v.item].plan = p
      BY <1>2, <1>3
    <3> QED BY <1>2, <2>1, <2>2, <3>1, <3>2 DEF G!IndInv, G!PlanLocksInv
  <2> QED BY <1>2, <1>5, <2>1, <2>3, <2>5, <2>6, <2>7, PlansMoved DEF G!IndInv
<1> QED BY <1>1, <1>3, <1>4, <1>5

\* A resolution that fails.
LEMMA PlansRollback == ASSUME NEW r \in Resolution, G!IndInv, G!Rollback(r) PROVE G!IndInv'
BY PlansGiveUp DEF G!Rollback

\* What a commit does to the plan: it is executed, or at most its confirmation changes.
LEMMA PlansClosed ==
    ASSUME NEW p \in Plan, G!IndInv, p \in G!Plans, NEW v \in {"expired", "rejected"},
           NEW approved \in BOOLEAN,
           plan' = [plan EXCEPT ![p] = IF approved THEN G!Executed(p) ELSE G!Closed(p, v)]
    PROVE  /\ plan' \in [Plan -> G!PlanRow \cup {G!NoRow}]
           /\ G!Plans' = G!Plans
           /\ \A q \in Plan : /\ q # p => plan'[q] = plan[q]
                              /\ plan'[q].target = plan[q].target
                              /\ plan'[q].impact = plan[q].impact
           /\ plan'[p].state = IF approved THEN "completed" ELSE plan[p].state
<1> DEFINE row == plan[p]
           new == IF approved THEN [row EXCEPT !.state = "completed", !.confirmation = "confirmed"]
                  ELSE IF row.confirmation = "pending" THEN [row EXCEPT !.confirmation = v]
                  ELSE row
<1>1. row \in G!PlanRow
  BY PlanTypes DEF G!IndInv
<1>2. plan' = [plan EXCEPT ![p] = new]
  BY DEF G!Executed, G!Closed
<1>3. row = plan[p]
  OBVIOUS
<1> HIDE DEF row
<1>4. /\ new \in G!PlanRow /\ new # G!NoRow
      /\ new.target = row.target /\ new.impact = row.impact
      /\ new.state = IF approved THEN "completed" ELSE row.state
  <2>1. CASE approved
    BY <1>1, <2>1 DEF G!PlanRow, G!NoRow
  <2>2. CASE ~approved /\ row.confirmation = "pending"
    BY <1>1, <2>2 DEF G!PlanRow, G!NoRow
  <2>3. CASE ~approved /\ row.confirmation # "pending"
    BY <1>1, <2>3 DEF G!PlanRow, G!NoRow
  <2> QED BY <2>1, <2>2, <2>3
<1> HIDE DEF new
<1>5. \A q \in Plan : plan'[q] = IF q = p THEN new ELSE plan[q]
  BY <1>2 DEF G!IndInv, G!TypeOK
<1> QED BY <1>2, <1>3, <1>4, <1>5 DEF G!IndInv, G!TypeOK, G!Plans

\* What an execution does to the facts: those of the preview are tombstoned.
LEMMA PlansTombstoned ==
    ASSUME NEW p \in Plan, G!IndInv, p \in G!Plans,
           fact' = [f \in Fact |-> IF f \in G!Tombstoned(p)
                                   THEN [fact[f] EXCEPT !.state = "deleted"] ELSE fact[f]]
    PROVE  /\ fact' \in [Fact -> G!FactRow \cup {G!NoRow}]
           /\ \A f \in Fact : /\ fact'[f] # G!NoRow <=> fact[f] # G!NoRow
                              /\ fact'[f].state = IF f \in plan[p].impact THEN "deleted"
                                                  ELSE fact[f].state
<1>1. ASSUME NEW f \in Fact
      PROVE  /\ fact'[f] \in G!FactRow \cup {G!NoRow}
             /\ fact'[f] # G!NoRow <=> fact[f] # G!NoRow
             /\ fact'[f].state = IF f \in plan[p].impact THEN "deleted" ELSE fact[f].state
  <2> DEFINE row == fact[f]
  <2>1. /\ fact'[f] = IF f \in plan[p].impact THEN [row EXCEPT !.state = "deleted"] ELSE row
        /\ f \in plan[p].impact => row \in G!FactRow
        /\ row \in G!FactRow \cup {G!NoRow}
    BY DEF G!Tombstoned, G!IndInv, G!TypeOK, G!FactsInv
  <2>2. row = fact[f]
    OBVIOUS
  <2> HIDE DEF row
  <2>3. row \in G!FactRow =>
            /\ [row EXCEPT !.state = "deleted"] \in G!FactRow
            /\ [row EXCEPT !.state = "deleted"] # G!NoRow
            /\ [row EXCEPT !.state = "deleted"].state = "deleted"
            /\ row # G!NoRow
    BY DEF G!FactRow, G!NoRow
  <2> QED BY <2>1, <2>2, <2>3
<1> QED BY <1>1

\* A commit consumes its item, and executes its plan if the item is approved in time.
LEMMA PlansCommit == ASSUME NEW r \in Resolution, G!IndInv, G!Commit(r) PROVE G!IndInv'
<1>1. PICK w \in want[r] : LET p == item[w.item].plan
          IN  /\ item' = [item EXCEPT ![w.item].state = G!Verdict(w)]
              /\ \/ /\ G!Verdict(w) = "approved"
                    /\ plan' = [plan EXCEPT ![p] = G!Executed(p)]
                    /\ deleted' = deleted \cup {plan[p].target}
                    /\ fact' = [f \in Fact |-> IF f \in G!Tombstoned(p)
                                               THEN [fact[f] EXCEPT !.state = "deleted"]
                                               ELSE fact[f]]
                 \/ /\ G!Verdict(w) # "approved"
                    /\ plan' = [plan EXCEPT ![p] =
                                  G!Closed(p, IF w.late THEN "expired" ELSE "rejected")]
                    /\ UNCHANGED <<deleted, fact>>
              /\ G!Finish(r, IF w.late THEN "expired" ELSE "completed")
  BY DEF G!Commit
<1>2. /\ pc[r] = "commit" /\ G!Release(r) /\ UNCHANGED <<checked, due, want>>
      /\ w.item \in G!Items /\ w.item \in Item /\ w \in G!Want
      /\ \A v \in want[r] : v = w
      /\ answer[r] = "none"
      /\ itemLock[w.item] = {r} /\ G!IsOpen(w.item)
  BY PlanTypes DEF G!Commit, G!IndInv, G!WantsInv, G!HoldsInv, G!Deciding
<1>3. PICK p \in Plan : p = item[w.item].plan /\ p \in G!Plans
  BY <1>2 DEF G!IndInv, G!ApprovedInv, G!Plans
<1>4. planLock[p] = {r} /\ (G!Verdict(w) = "approved" => plan[p].state = "preview")
  BY <1>2, <1>3 DEF G!IndInv, G!HoldsInv, G!MayExecute
<1>5. /\ item' \in [Item -> G!ItemRow \cup {G!NoRow}]
      /\ G!Items' = G!Items
      /\ \A i \in Item : /\ i # w.item => item'[i] = item[i]
                         /\ item'[i].plan = item[i].plan
      /\ item'[w.item].state = G!Verdict(w)
  <2> DEFINE row == item[w.item]
             new == [row EXCEPT !.state = G!Verdict(w)]
  <2>1. row \in G!ItemRow /\ item' = [item EXCEPT ![w.item] = new]
    BY <1>1, <1>2, PlanTypes DEF G!IndInv
  <2>2. row = item[w.item] /\ G!Verdict(w) \in {"approved", "rejected", "resolved"}
    BY <1>2 DEF G!Verdict, G!Want
  <2> HIDE DEF row
  <2>3. new \in G!ItemRow /\ new # G!NoRow /\ new.plan = row.plan /\ new.state = G!Verdict(w)
    BY <2>1, <2>2 DEF G!ItemRow, G!NoRow
  <2> HIDE DEF new
  <2>4. \A i \in Item : item'[i] = IF i = w.item THEN new ELSE item[i]
    BY <2>1 DEF G!IndInv, G!TypeOK
  <2> QED BY <1>2, <2>1, <2>2, <2>3, <2>4 DEF G!IndInv, G!TypeOK, G!Items
<1>6. /\ plan' \in [Plan -> G!PlanRow \cup {G!NoRow}]
      /\ G!Plans' = G!Plans
      /\ \A q \in Plan : /\ q # p => plan'[q] = plan[q]
                         /\ plan'[q].target = plan[q].target
                         /\ plan'[q].impact = plan[q].impact
      /\ plan'[p].state = IF G!Verdict(w) = "approved" THEN "completed" ELSE plan[p].state
  <2>1. \/ G!Verdict(w) = "approved" /\ plan' = [plan EXCEPT ![p] = G!Executed(p)]
        \/ /\ G!Verdict(w) # "approved"
           /\ plan' = [plan EXCEPT ![p] = G!Closed(p, IF w.late THEN "expired" ELSE "rejected")]
    BY <1>1, <1>3
  <2>2. PICK v \in {"expired", "rejected"} : v = IF w.late THEN "expired" ELSE "rejected"
    OBVIOUS
  <2>3. PICK approved \in BOOLEAN : approved <=> G!Verdict(w) = "approved"
    OBVIOUS
  <2>4. plan' = [plan EXCEPT ![p] = IF approved THEN G!Executed(p) ELSE G!Closed(p, v)]
    BY <2>1, <2>2, <2>3
  <2> QED BY <1>3, <2>3, <2>4, PlansClosed
<1>7. /\ fact' \in [Fact -> G!FactRow \cup {G!NoRow}]
      /\ \A f \in Fact : fact'[f] # G!NoRow <=> fact[f] # G!NoRow
      /\ IF G!Verdict(w) = "approved"
         THEN /\ deleted' = deleted \cup {plan[p].target}
              /\ \A f \in Fact : fact'[f].state = IF f \in plan[p].impact THEN "deleted"
                                                  ELSE fact[f].state
         ELSE deleted' = deleted /\ fact' = fact
  BY <1>1, <1>3, PlansTombstoned DEF G!IndInv, G!TypeOK
<1>8. /\ pc' \in [Resolution -> G!Stage] /\ pc'[r] = "done"
      /\ answer' \in [Resolution -> G!Answer] /\ answer'[r] \in {"completed", "expired"}
      /\ \A q \in Resolution : q # r => pc'[q] = pc[q] /\ answer'[q] = answer[q]
  BY <1>1 DEF G!IndInv, G!TypeOK, G!Stage, G!Answer, G!Finish
<1>9. G!TypeOK'
  <2>1. deleted' \in SUBSET Doomed
    BY <1>3, <1>7, PlanTypes DEF G!IndInv, G!TypeOK, G!PlanRow
  <2>2. itemLock' \in [Item -> SUBSET Resolution] /\ planLock' \in [Plan -> SUBSET Resolution]
    BY <1>2 DEF G!Release, G!IndInv, G!TypeOK
  <2> QED BY <1>2, <1>5, <1>6, <1>7, <1>8, <2>1, <2>2 DEF G!IndInv, G!TypeOK
<1>10. G!WantsInv'
  BY <1>2, <1>5, <1>8 DEF G!IndInv, G!WantsInv
<1>11. G!HoldsInv' /\ G!ItemLocksInv' /\ G!PlanLocksInv'
  <2>1. /\ \A j \in G!Items : item'[j].plan = item[j].plan
        /\ \A j \in G!Items : itemLock[j] # {r} => item'[j] = item[j]
        /\ \A q \in G!Plans : planLock[q] # {r} => plan'[q].state = plan[q].state
    BY <1>2, <1>4, <1>5, <1>6 DEF G!Items, G!Plans
  <2> QED BY <1>2, <1>8, <2>1, PlansReleased
<1>12. G!ConsumedInv'
  <2>1. \A q \in Resolution : \A j : q # r => (G!Consumed(q, j)' <=> G!Consumed(q, j))
    BY <1>2, <1>8 DEF G!Consumed
  <2>2. \A j : /\ G!Consumed(r, j)' <=> j = w.item
               /\ ~G!Consumed(r, j)
    BY <1>2, <1>8 DEF G!Consumed
  <2>3. \A q \in Resolution : ~G!Consumed(q, w.item)
    BY <1>2 DEF G!IndInv, G!ConsumedInv
  <2>4. ~G!IsOpen(w.item)'
    BY <1>2, <1>5 DEF G!IsOpen, G!Verdict, G!Want
  <2>5. SUFFICES ASSUME NEW j \in G!Items
                 PROVE  /\ G!IsOpen(j)' <=> \A q \in Resolution : ~G!Consumed(q, j)'
                        /\ \A q, s \in Resolution : G!Consumed(q, j)' /\ G!Consumed(s, j)' => q = s
                        /\ \A q \in Resolution : G!Consumed(q, j)' =>
                              \A v \in want[q] : item'[j].state = G!Verdict(v)
    BY <1>2, <1>5 DEF G!ConsumedInv
  <2>6. CASE j = w.item
    BY <1>2, <1>5, <2>1, <2>2, <2>3, <2>4, <2>6
  <2>7. CASE j # w.item
    <3>1. item'[j] = item[j]
      BY <1>5, <2>7 DEF G!Items
    <3>2. \A q \in Resolution : G!Consumed(q, j)' <=> G!Consumed(q, j)
      BY <2>1, <2>2, <2>7
    <3> QED BY <2>5, <3>1, <3>2 DEF G!IndInv, G!ConsumedInv, G!IsOpen
  <2> QED BY <2>6, <2>7
<1>13. G!ApprovedInv'
  <2>1. \A j \in G!Items : j \in Item
    BY DEF G!Items
  <2>2. \A q \in G!Plans : q \in Plan
    BY DEF G!Plans
  <2>3. CASE G!Verdict(w) = "approved"
    <3>1. \A j \in G!Items : item[j].plan = p => ~G!Approved(j)
      BY <1>4, <2>3 DEF G!IndInv, G!ApprovedInv
    <3>2. \A j \in G!Items : G!Approved(j)' <=> (j = w.item \/ G!Approved(j))
      BY <1>5, <2>1, <2>3 DEF G!Approved
    <3>3. plan'[p].state = "completed" /\ \A q \in G!Plans : q # p => plan'[q] = plan[q]
      BY <1>6, <2>2, <2>3
    <3>4. \A j \in G!Items : item'[j].plan = item[j].plan
      BY <1>5, <2>1
    <3> QED BY <1>2, <1>3, <1>5, <1>6, <3>1, <3>2, <3>3, <3>4 DEF G!IndInv, G!ApprovedInv
  <2>4. CASE G!Verdict(w) # "approved"
    <3>1. \A j \in G!Items : G!Approved(j)' <=> G!Approved(j)
      BY <1>2, <1>5, <2>1, <2>4 DEF G!Approved, G!IsOpen
    <3>2. \A q \in G!Plans : plan'[q].state = plan[q].state
      BY <1>6, <2>2, <2>4
    <3>3. \A j \in G!Items : item'[j].plan = item[j].plan
      BY <1>5, <2>1
    <3> QED BY <1>5, <1>6, <3>1, <3>2, <3>3 DEF G!IndInv, G!ApprovedInv
  <2> QED BY <2>3, <2>4
<1>14. G!FactsInv'
  <2>1. fact' \in [Fact -> G!FactRow \cup {G!NoRow}]
        /\ \A q \in G!Plans : q \in Plan
    BY <1>7 DEF G!Plans
  <2>2. \A q \in G!Plans : plan[q].impact \subseteq Fact
    BY PlanTypes DEF G!IndInv, G!PlanRow
  <2> QED BY <1>2, <1>6, <1>7, <2>1, <2>2 DEF G!IndInv, G!FactsInv
<1>15. G!OnlyThePreviewIsDeleted'
  <2> DEFINE done == {q \in G!Plans : plan[q].state = "completed"}
             doneNext == {q \in G!Plans' : plan'[q].state = "completed"}
  <2>1. /\ deleted = {plan[q].target : q \in done}
        /\ {f \in Fact : fact[f] # G!NoRow /\ fact[f].state = "deleted"}
              = UNION {plan[q].impact : q \in done}
    BY DEF G!IndInv, G!OnlyThePreviewIsDeleted
  <2>2. doneNext = IF G!Verdict(w) = "approved" THEN done \cup {p} ELSE done
    BY <1>3, <1>4, <1>6 DEF G!Plans
  <2>3. done \subseteq Plan /\ p \in Plan
    BY DEF G!Plans
  <2> HIDE DEF done, doneNext
  <2>4. /\ {plan'[q].target : q \in doneNext} = {plan[q].target : q \in doneNext}
        /\ {plan'[q].impact : q \in doneNext} = {plan[q].impact : q \in doneNext}
    BY <1>6, <2>2, <2>3
  <2>5. deleted' = {plan[q].target : q \in doneNext}
    BY <1>7, <2>1, <2>2
  <2>6. {f \in Fact : fact'[f] # G!NoRow /\ fact'[f].state = "deleted"}
          = UNION {plan[q].impact : q \in doneNext}
    <3>1. CASE G!Verdict(w) # "approved"
      BY <1>7, <2>1, <2>2, <3>1
    <3>2. CASE G!Verdict(w) = "approved"
      <4>1. plan[p].impact \subseteq Fact /\ \A f \in plan[p].impact : fact[f] # G!NoRow
        BY <1>3, PlanTypes DEF G!IndInv, G!PlanRow, G!FactsInv
      <4>2. {f \in Fact : fact'[f] # G!NoRow /\ fact'[f].state = "deleted"}
              = {f \in Fact : fact[f] # G!NoRow /\ fact[f].state = "deleted"} \cup plan[p].impact
        BY <1>7, <3>2, <4>1
      <4>3. UNION {plan[q].impact : q \in done \cup {p}}
              = (UNION {plan[q].impact : q \in done}) \cup plan[p].impact
        OBVIOUS
      <4> QED BY <2>1, <2>2, <3>2, <4>2, <4>3
    <3> QED BY <3>1, <3>2
  <2> QED BY <2>4, <2>5, <2>6 DEF G!OnlyThePreviewIsDeleted, doneNext
<1> QED BY <1>9, <1>10, <1>11, <1>12, <1>13, <1>14, <1>15 DEF G!IndInv

\* Every step keeps the inductive invariant.
LEMMA PlansStep == G!IndInv /\ [G!Next]_(G!vars) => G!IndInv'
<1> SUFFICES ASSUME G!IndInv, [G!Next]_(G!vars) PROVE G!IndInv'
  OBVIOUS
<1>1. CASE UNCHANGED G!vars
  <2>1. /\ UNCHANGED <<deleted, fact, checked, plan, item, due, itemLock, planLock, pc, want, answer>>
        /\ G!Plans' = G!Plans
    BY <1>1 DEF G!vars, G!Plans
  <2>2. G!WantsInv' /\ G!HoldsInv' /\ G!ItemLocksInv' /\ G!PlanLocksInv' /\ G!ConsumedInv'
        /\ G!Items' = G!Items
    BY <2>1, PlansAside
  <2>3. G!TypeOK' /\ G!FactsInv' /\ G!ApprovedInv' /\ G!OnlyThePreviewIsDeleted'
    BY <2>1, <2>2 DEF G!IndInv, G!TypeOK, G!FactsInv, G!ApprovedInv, G!Approved,
                      G!OnlyThePreviewIsDeleted
  <2> QED BY <2>2, <2>3 DEF G!IndInv
<1>2. CASE G!Next
  BY <1>2, PlansCheckProject, PlansRecordFact, PlansCreateItem, PlansCreate, PlansAge,
     PlansResolve, PlansLockItem, PlansLockPlan, PlansCommit, PlansRollback, PlansReconcile
     DEF G!Next
<1> QED BY <1>1, <1>2

\* An item is consumed once, by the one resolution whose verdict it shows, and a plan
\* that was executed was so by its one approved item.
LEMMA OneOfEach == G!IndInv => G!ItemsAreSingleUse /\ G!OneApprovalPerExecution
<1> SUFFICES ASSUME G!IndInv PROVE G!ItemsAreSingleUse /\ G!OneApprovalPerExecution
  OBVIOUS
<1>1. ASSUME NEW i \in G!Items
      PROVE  LET R == {r \in Resolution : /\ answer[r] \in {"completed", "expired"}
                                          /\ \E w \in want[r] : w.item = i}
             IN  /\ Cardinality(R) = IF item[i].state = "open" THEN 0 ELSE 1
                 /\ \A r \in R : \A w \in want[r] : item[i].state = G!Verdict(w)
  <2> DEFINE R == {r \in Resolution : G!Consumed(r, i)}
  <2>1. G!IsOpen(i) => R = {}
    BY DEF G!IndInv, G!ConsumedInv
  <2>2. ~G!IsOpen(i) => \E r : R = {r}
    <3>1. SUFFICES ASSUME ~G!IsOpen(i) PROVE \E r : R = {r}
      OBVIOUS
    <3>2. PICK r \in Resolution : G!Consumed(r, i)
      BY <3>1 DEF G!IndInv, G!ConsumedInv
    <3>3. R = {r}
      BY <3>2 DEF G!IndInv, G!ConsumedInv
    <3> QED BY <3>3
  <2>3. Cardinality(R) = IF item[i].state = "open" THEN 0 ELSE 1
    BY <2>1, <2>2, FS_EmptySet, FS_Singleton DEF G!IsOpen
  <2>4. \A r \in R : \A w \in want[r] : item[i].state = G!Verdict(w)
    BY DEF G!IndInv, G!ConsumedInv
  <2> QED BY <2>3, <2>4 DEF G!Consumed
<1>2. ASSUME NEW p \in G!Plans
      PROVE  Cardinality({i \in G!Items : item[i].plan = p /\ item[i].state = "approved"})
                = IF plan[p].state = "completed" THEN 1 ELSE 0
  <2> DEFINE A == {i \in G!Items : item[i].plan = p /\ item[i].state = "approved"}
  <2>1. plan[p].state # "completed" => A = {}
    BY DEF G!IndInv, G!ApprovedInv, G!Approved
  <2>2. plan[p].state = "completed" => \E i : A = {i}
    BY DEF G!IndInv, G!ApprovedInv, G!Approved
  <2> QED BY <2>1, <2>2, FS_EmptySet, FS_Singleton
<1>3. ASSUME NEW S PROVE G!Cardinality(S) = Cardinality(S)
  BY DEF G!Cardinality, Cardinality
<1> QED BY <1>1, <1>2, <1>3 DEF G!ItemsAreSingleUse, G!OneApprovalPerExecution

(***************************************************************************)
(* Permissions.                                                            *)
(***************************************************************************)
\* The plans of methods: no more than seven stages, after a protected one comes a check
\* or nothing, and after the commit of a self-grant the last one.
PlanShape(s) ==
    /\ Len(s) \in 1..7
    /\ \A i \in 1..Len(s) :
          /\ s[i] \in {"read", "call", "commit"} => i = Len(s) \/ s[i + 1] = "check"
          /\ s[i] = "granted" => i + 1 = Len(s)

Grantless(s) == \A i \in 1..Len(s) : s[i] \notin {"grant", "granted"}

\* Only a creation and its retry grant; they end with a read.
LEMMA MethodPlans ==
    ASSUME NEW m \in Method
    PROVE  /\ PlanShape(m.plan)
           /\ IF m \in Granting THEN m.plan[Len(m.plan)] = "read" ELSE Grantless(m.plan)
<1> DEFINE read == <<"check", "read", "check", "call", "check">>
           sync == <<"check", "commit", "check">>
           content == <<"read", "check">>
           empty == <<"check", "read">>
<1>1. PlanShape(CreateProject.plan) /\ CreateProject.plan[Len(CreateProject.plan)] = "read"
  <2> DEFINE s == CreateProject.plan
  <2>1. s[1] = "check" /\ s[2] = "fence" /\ s[3] = "commit" /\ s[4] = "check"
    BY DEF CreateProject, Fenced
  <2>2. s[5] = "grant" /\ s[6] = "granted" /\ s[7] = "read"
    BY DEF CreateProject, Fenced
  <2>3. Len(s) = 7
    BY DEF CreateProject, Fenced
  <2> HIDE DEF s
  <2>4. PlanShape(s)
    BY <2>1, <2>2, <2>3 DEF PlanShape
  <2> QED BY <2>2, <2>3, <2>4 DEF s
<1>0. PlanShape(ReplayCreateProject.plan) /\ ReplayCreateProject.plan[Len(ReplayCreateProject.plan)] = "read"
  <2> DEFINE s == ReplayCreateProject.plan
  <2>1. s[1] = "check" /\ s[2] = "read" /\ s[3] = "check"
    BY DEF ReplayCreateProject, Guarded
  <2>2. s[4] = "grant" /\ s[5] = "granted" /\ s[6] = "read"
    BY DEF ReplayCreateProject, Guarded
  <2>3. Len(s) = 6
    BY DEF ReplayCreateProject, Guarded
  <2> HIDE DEF s
  <2>4. PlanShape(s)
    BY <2>1, <2>2, <2>3 DEF PlanShape
  <2> QED BY <2>2, <2>3, <2>4 DEF s
<1>2. PlanShape(CheckpointTask.plan) /\ Grantless(CheckpointTask.plan)
  <2> DEFINE s == CheckpointTask.plan
  <2>1. s[1] = "resolve" /\ s[2] = "check" /\ s[3] = "fence" /\ s[4] = "commit" /\ s[5] = "check"
    BY DEF CheckpointTask, Fenced
  <2>2. Len(s) = 5
    BY DEF CheckpointTask, Fenced
  <2> HIDE DEF s
  <2>3. PlanShape(s)
    BY <2>1, <2>2 DEF PlanShape
  <2>4. Grantless(s)
    BY <2>1, <2>2 DEF Grantless
  <2> QED BY <2>3, <2>4 DEF s
<1>3. PlanShape(Fenced) /\ Grantless(Fenced)
  BY DEF PlanShape, Grantless, Fenced
<1>4. PlanShape(Guarded) /\ Grantless(Guarded)
  BY DEF PlanShape, Grantless, Guarded
<1>5. PlanShape(read) /\ Grantless(read)
  BY DEF PlanShape, Grantless
<1>6. PlanShape(sync) /\ Grantless(sync)
  BY DEF PlanShape, Grantless
<1>7. PlanShape(content) /\ Grantless(content)
  BY DEF PlanShape, Grantless
<1>8. PlanShape(empty) /\ Grantless(empty)
  BY DEF PlanShape, Grantless
<1>9. m \in Granting \/ m.plan \in {CheckpointTask.plan, Fenced, Guarded, read, sync, content, empty}
  BY DEF Method, Granting, RecordWrite, CorrectRecord, ProposeSelfClaim, RecordRead, OperationStatus,
     SearchBrain, EntryContent, AnswerBrain, AnswerBrainEmpty, BrainContext,
     ListProjects, RecordProjectFact, StartTask,
     FinalizeTask, SyncWorkspace, ProjectContext, SearchProject, ResolveReviewItem,
     ListReviewItems, GetDeletionPlan, CreateReviewItem, CreateDeletionPlan, UploadAsset
<1> HIDE DEF read, sync, content, empty
<1>10. CASE m \in Granting
  BY <1>0, <1>1, <1>10 DEF Granting
<1>11. CASE m \notin Granting
  BY <1>2, <1>3, <1>4, <1>5, <1>6, <1>7, <1>8, <1>9, <1>11
<1> QED BY <1>10, <1>11

\* What passes a check, and what it needs.
LEMMA AuthorizedNeeds ==
    ASSUME NEW epoch, NEW tool, NEW scope, Authorized(epoch, tool, scope)
    PROVE  /\ client.status = "active" /\ client.epoch = epoch
           /\ \E g \in rows : g.tool \in {tool, "*"} /\ g.scope \in {scope, "*"}
BY DEF Authorized, Decision, Allows, Matching

\* What the invariant says of one call.
CallSound(r, c) ==
    /\ c \in CallRow
    /\ client # NoClient
    /\ c.epoch = c.since + 1 /\ c.passed = c.since /\ c.since <= changes
    /\ c.late # 0 => /\ c.since # changes
                     /\ \/ c.late = 1 /\ StageOf(c) = "check"
                        \/ StageOf(c) = "answered"
                        \/ c.late = 1 /\ c.m \in Granting /\ c.at = Len(c.m.plan)
                     /\ c.late = 2 => c.m \in Granting
    /\ c.m \in Granting => c.p \in Project
    /\ \A g \in c.adds : g.scope = c.p

\* Calls satisfy it.
LEMMA CallsAreSound ==
    ASSUME IndInv, NEW r \in Request, InCall(r)
    PROVE  CallSound(r, call[r])
<1>1. call[r] \in CallRow
  BY DEF IndInv, TypeOK, InCall, Resting
<1> QED BY <1>1 DEF IndInv, StampsInv, LateInv, CreationInv, AddsInv, CallSound

\* A step of one call that changes nothing else keeps the invariant, if it leaves a
\* sound call, or none.
LEMMA CallStep ==
    ASSUME IndInv, NEW r \in Request, NEW c,
           call' = [call EXCEPT ![r] = c],
           UNCHANGED <<client, rows, cred, file, token, projects, cmd, changes, barred, warned>>,
           c = Resting \/ CallSound(r, c)
    PROVE  IndInv'
<1>1. \A q \in Request : call'[q] = IF q = r THEN c ELSE call[q]
  BY DEF IndInv, TypeOK
<1>2. c # Resting => c.at > 0 /\ CallSound(r, c)
  BY DEF CallSound, CallRow
<1>3. \A q \in Request : InCall(q)' <=> IF q = r THEN c # Resting ELSE InCall(q)
  BY <1>1, <1>2 DEF InCall, Resting
<1>4. TypeOK'
  BY DEF IndInv, TypeOK, CallSound
<1>5. EpochInv' /\ NoClientInv' /\ CommandInv' /\ IssuingInv' /\ OneWorkingCredential'
  BY DEF IndInv, EpochInv, NoClientInv, CommandInv, IssuingInv, OneWorkingCredential
<1>6. StampsInv' /\ LateInv' /\ AddsInv'
  BY <1>1, <1>2, <1>3 DEF IndInv, StampsInv, LateInv, AddsInv, CallSound, StageOf
<1>7. CreationInv'
  BY <1>1, <1>2, <1>3 DEF IndInv, CreationInv, CallSound
<1>9. WithdrawnInv'
  BY DEF IndInv, WithdrawnInv, RowsOf
<1> QED BY <1>4, <1>5, <1>6, <1>7, <1>9 DEF IndInv
\* The calls of methods, and how they go on.
LEMMA ServeEnter ==
    ASSUME IndInv, NEW r \in Request, NEW m \in Method, NEW p \in Scope, NEW since,
           p \in TargetsOf(m), Enter(r, m, p, since), client.status = "active", since = changes
    PROVE  IndInv'
<1> DEFINE c == [m |-> m, p |-> p, at |-> 1, epoch |-> client.epoch, since |-> since,
                 passed |-> since, late |-> 0, scopes |-> {}, tools |-> {}, adds |-> {}]
<1>1. client # NoClient /\ client.epoch = since + 1 /\ client.epoch \in 1..MaxEpoch /\ since \in 0..MaxEpoch
  BY DEF IndInv, TypeOK, EpochInv, NoClient, ClientRow
<1>2. c \in CallRow
  BY <1>1 DEF CallRow
<1>3. m \in Granting => p \in Project
  BY DEF TargetsOf, Creating, Granting, IndInv, TypeOK, CreationInv
<1>4. CallSound(r, c)
  BY <1>1, <1>2, <1>3 DEF CallSound, IndInv, TypeOK
<1>5. call' = [call EXCEPT ![r] = c]
  BY DEF Enter
<1>7. UNCHANGED <<client, rows, cred, file, token, projects, cmd, changes, barred, warned>>
  BY DEF Enter
<1> HIDE DEF c
<1> QED BY <1>4, <1>5, <1>7, CallStep

\* A grant that resolves stands for the permissions in force.
LEMMA ServeByToken ==
    ASSUME IndInv, NEW r \in Request, NEW m \in Method, NEW p \in Scope, NEW t \in Token,
           p \in TargetsOf(m), ByToken(r, m, p, t)
    PROVE  IndInv'
<1>1. token[t].since = changes
  BY DEF ByToken, Resolves, IndInv, TypeOK, StampsInv, EpochInv, NoClient
<1> QED BY <1>1, ServeEnter DEF ByToken, Resolves

\* Where a running call is in the plan of its method.
LEMMA RunningAt ==
    ASSUME IndInv, NEW r \in Request, NEW s, s # "answered", Running(r, s)
    PROVE  /\ CallSound(r, call[r]) /\ InCall(r) /\ call[r].m \in Method
           /\ call[r].at \in 1..Len(call[r].m.plan) /\ call[r].m.plan[call[r].at] = s
           /\ call[r].at + 1 \in 1..8
<1>1. CallSound(r, call[r]) /\ InCall(r)
  BY CallsAreSound DEF Running
<1>2. call[r].m \in Method /\ call[r].at \in 1..8
  BY <1>1 DEF CallSound, CallRow
<1>3. Len(call[r].m.plan) \in 1..7
  BY <1>2, MethodPlans DEF PlanShape
<1>4. call[r].at \in 1..Len(call[r].m.plan)
  <2>1. CASE call[r].at > Len(call[r].m.plan)
    BY <2>1 DEF Running, StageOf
  <2> QED BY <1>2, <1>3, <2>1
<1>5. call[r].m.plan[call[r].at] = s
  BY <1>2, <1>3, <1>4 DEF Running, StageOf
<1>6. call[r].at + 1 \in 1..8
  <2> DEFINE n == Len(call[r].m.plan)
             a == call[r].at
  <2>1. n \in 1..7 /\ a \in 1..n
    BY <1>3, <1>4
  <2> HIDE DEF n, a
  <2>2. a + 1 \in 1..8
    BY <2>1
  <2> QED BY <2>2 DEF a
<1> QED BY <1>1, <1>2, <1>4, <1>5, <1>6

\* A check passes under the permissions the call stands for only.
LEMMA ServeCheck ==
    ASSUME IndInv, NEW r \in Request, Check(r)
    PROVE  IndInv'
<1> DEFINE c == call[r]
           d == [c EXCEPT !.at = @ + 1, !.passed = changes]
<1>1. PICK s \in {"check", "fence"} : Running(r, s)
  BY DEF Check
<1>2. /\ CallSound(r, c) /\ InCall(r) /\ c.m \in Method
      /\ c.at \in 1..Len(c.m.plan) /\ c.m.plan[c.at] = s /\ c.at + 1 \in 1..8
  BY <1>1, RunningAt
<1>3. CASE Authorized(c.epoch, c.m.tool, ScopeOf(c.m, c.p))
  <2>1. c.since = changes
    BY <1>2, <1>3, AuthorizedNeeds DEF CallSound, CallRow, IndInv, EpochInv, TypeOK
  <2>3. /\ d \in CallRow /\ d.m = c.m /\ d.p = c.p /\ d.at = c.at + 1 /\ d.epoch = c.epoch
        /\ d.since = c.since /\ d.passed = changes /\ d.late = c.late /\ d.adds = c.adds
    BY <1>2 DEF CallSound, CallRow, IndInv, TypeOK
  <2>5. CallSound(r, d)
    BY <1>2, <2>1, <2>3 DEF CallSound
  <2>7. call' = [call EXCEPT ![r] = d]
    BY <1>3 DEF Check
  <2> QED BY <2>5, <2>7, CallStep DEF Check
<1>4. CASE ~Authorized(c.epoch, c.m.tool, ScopeOf(c.m, c.p))
  BY <1>4, CallStep DEF Check
<1> QED BY <1>3, <1>4

\* Going on to the next stage after one that is not protected; it is never the last.
LEMMA NextStage ==
    ASSUME IndInv, NEW r \in Request, NEW s, s \in {"resolve", "grant"}, Running(r, s), NEW d,
           call' = [call EXCEPT ![r] = d],
           UNCHANGED <<client, rows, cred, file, token, projects, cmd, changes, barred, warned>>,
           d \in CallRow, d.m = call[r].m, d.p = call[r].p, d.at = call[r].at + 1,
           d.epoch = call[r].epoch, d.since = call[r].since, d.passed = call[r].passed,
           d.late = call[r].late, \A g \in d.adds : g.scope = d.p
    PROVE  IndInv'
<1> DEFINE c == call[r]
<1>1. /\ CallSound(r, c) /\ InCall(r) /\ c.m \in Method
      /\ c.at \in 1..Len(c.m.plan) /\ c.m.plan[c.at] = s /\ c.at + 1 \in 1..8
  BY RunningAt
<1>2. c.late = 0
  <2>1. c.m \in Granting => c.at # Len(c.m.plan)
    BY <1>1, MethodPlans
  <2> QED BY <1>1, <2>1 DEF CallSound, Running
<1>4. CallSound(r, d)
  BY <1>1, <1>2 DEF CallSound
<1> QED BY <1>4, CallStep

\* project_of_task changes nothing.
LEMMA ServeResolveTask ==
    ASSUME IndInv, NEW r \in Request, ResolveTask(r)
    PROVE  IndInv'
<1> DEFINE c == call[r]
           d == [c EXCEPT !.at = @ + 1]
<1>1. CallSound(r, c) /\ c.at + 1 \in 1..8
  BY RunningAt DEF ResolveTask
<1>2. /\ d \in CallRow /\ d.m = c.m /\ d.p = c.p /\ d.at = c.at + 1 /\ d.epoch = c.epoch
      /\ d.since = c.since /\ d.passed = c.passed /\ d.late = c.late /\ d.adds = c.adds
  BY <1>1 DEF CallSound, CallRow
<1>3. \A g \in d.adds : g.scope = d.p
  BY <1>1, <1>2 DEF CallSound
<1>4. call' = [call EXCEPT ![r] = d]
  BY DEF ResolveTask
<1>5. UNCHANGED <<client, rows, cred, file, token, projects, cmd, changes, barred, warned>>
  BY DEF ResolveTask
<1>6. Running(r, "resolve")
  BY DEF ResolveTask
<1> HIDE DEF d
<1> QED BY <1>2, <1>3, <1>4, <1>5, <1>6, NextStage

\* The grant to the creator: what it will write is read.
LEMMA ServeSelfGrantRead ==
    ASSUME IndInv, NEW r \in Request, SelfGrantRead(r)
    PROVE  IndInv'
<1> DEFINE c == call[r]
           d == [c EXCEPT !.at = @ + 1,
                          !.scopes = client.scopes \cup {c.p},
                          !.tools = client.tools \cup CreatorTools,
                          !.adds = {Allow(t, c.p) : t \in CreatorTools} \ rows]
<1>1. CallSound(r, c) /\ c.at + 1 \in 1..8 /\ c \in CallRow
  BY RunningAt DEF SelfGrantRead, CallSound
<1>2. client \in ClientRow
  BY <1>1 DEF CallSound, IndInv, TypeOK
<1>3. /\ client.scopes \cup {c.p} \in SUBSET Scope
      /\ client.tools \cup CreatorTools \in SUBSET DefaultTools
      /\ {Allow(t, c.p) : t \in CreatorTools} \ rows \in SUBSET Rows
  BY <1>1, <1>2 DEF ClientRow, CallRow, CreatorTools, DefaultTools, Rows
<1>4. /\ d \in CallRow /\ d.m = c.m /\ d.p = c.p /\ d.at = c.at + 1 /\ d.epoch = c.epoch
      /\ d.since = c.since /\ d.passed = c.passed /\ d.late = c.late
      /\ d.adds = {Allow(t, c.p) : t \in CreatorTools} \ rows
  BY <1>1, <1>3 DEF CallRow
<1>5. \A g \in d.adds : g.scope = d.p
  BY <1>4 DEF Allow
<1>6. call' = [call EXCEPT ![r] = d]
  BY DEF SelfGrantRead
<1>7. UNCHANGED <<client, rows, cred, file, token, projects, cmd, changes, barred, warned>>
  BY DEF SelfGrantRead
<1>8. Running(r, "grant")
  BY DEF SelfGrantRead
<1> HIDE DEF d
<1> QED BY <1>4, <1>5, <1>6, <1>7, <1>8, NextStage

\* A call that has answered leaves.
LEMMA ServeLeave ==
    ASSUME IndInv, NEW r \in Request, Leave(r)
    PROVE  IndInv'
<1>1. call' = [call EXCEPT ![r] = Resting]
  BY DEF Leave
<1>2. UNCHANGED <<client, rows, cred, file, token, projects, cmd, changes, barred, warned>>
  BY DEF Leave
<1> QED BY <1>1, <1>2, CallStep

\* A protected stage: under permissions that have changed it is the last before a
\* check, or the one that ends a call after its self-grant.
LEMMA ServeProtected ==
    ASSUME IndInv, NEW r \in Request, Protected(r)
    PROVE  IndInv'
<1> DEFINE c == call[r]
           n == LateAfter(r)
           d == [c EXCEPT !.at = @ + 1, !.late = n]
           new == Running(r, "commit") /\ c.m = CreateProject
<1>1. PICK s \in {"read", "call", "commit"} : Running(r, s)
  BY DEF Protected
<1>2. /\ CallSound(r, c) /\ InCall(r) /\ c.m \in Method
      /\ c.at \in 1..Len(c.m.plan) /\ c.m.plan[c.at] = s /\ c.at + 1 \in 1..8
  BY <1>1, RunningAt
<1>3. \/ c.late = 0
      \/ c.late = 1 /\ c.m \in Granting /\ c.at = Len(c.m.plan) /\ c.since # changes
  <2>1. StageOf(c) = s
    BY <1>1 DEF Running
  <2>2. CASE c.late = 0
    BY <2>2
  <2>3. CASE c.late # 0
    <3>1. c.since # changes /\ c.late = 1 /\ c.m \in Granting /\ c.at = Len(c.m.plan)
      BY <1>1, <1>2, <2>1, <2>3 DEF CallSound
    <3> QED BY <3>1
  <2> QED BY <2>2, <2>3
<1>4. n \in 0..2 /\ (n # 0 => c.since # changes) /\ (n = 2 => c.m \in Granting)
  BY <1>3 DEF LateAfter
<1>5. /\ d \in CallRow /\ d.m = c.m /\ d.p = c.p /\ d.at = c.at + 1 /\ d.epoch = c.epoch
      /\ d.since = c.since /\ d.passed = c.passed /\ d.late = n /\ d.adds = c.adds
  <2>1. c \in CallRow
    BY <1>2 DEF CallSound
  <2> QED BY <1>2, <1>4, <2>1 DEF CallRow
<1>6. call' = [call EXCEPT ![r] = d] /\ projects' = IF new THEN projects \cup {c.p} ELSE projects
  BY DEF Protected
<1>7. UNCHANGED <<client, rows, cred, file, token, cmd, changes, barred, warned>>
  BY DEF Protected
<1>8. \/ n = 0
      \/ n = 1 /\ StageOf(d) = "check"
      \/ StageOf(d) = "answered"
  <2>1. c.at = Len(c.m.plan) \/ c.m.plan[c.at + 1] = "check"
    <3>1. PlanShape(c.m.plan)
      BY <1>2, MethodPlans
    <3> QED BY <1>1, <1>2, <3>1 DEF PlanShape
  <2>2. Len(c.m.plan) \in 1..7
    BY <1>2, MethodPlans DEF PlanShape
  <2>3. c.at # Len(c.m.plan) => n \in {0, 1}
    BY <1>3 DEF LateAfter
  <2> HIDE DEF d, n
  <2>4. CASE c.at = Len(c.m.plan)
    BY <1>2, <1>5, <2>2, <2>4 DEF StageOf
  <2>5. CASE c.at # Len(c.m.plan)
    <3>1. StageOf(d) = "check"
      BY <1>2, <1>5, <2>1, <2>2, <2>5 DEF StageOf
    <3> QED BY <2>3, <2>5, <3>1
  <2> QED BY <2>4, <2>5
<1> HIDE DEF d, n
<1>9. CallSound(r, d)
  BY <1>2, <1>4, <1>5, <1>8 DEF CallSound
<1>10. CASE ~new
  BY <1>6, <1>7, <1>9, <1>10, CallStep
<1>11. CASE new
  <2>1. c.p \in Project
    BY <1>2, <1>11 DEF CallSound, Granting
  <2>2. \A q \in Request : call'[q] = IF q = r THEN d ELSE call[q]
    BY <1>6 DEF IndInv, TypeOK
  <2>3. \A q \in Request : InCall(q)' = InCall(q)
    BY <1>2, <1>5, <2>2 DEF InCall
  <2>4. TypeOK'
    BY <1>5, <1>6, <1>7, <2>1 DEF IndInv, TypeOK
  <2>5. EpochInv' /\ NoClientInv' /\ CommandInv' /\ IssuingInv' /\ OneWorkingCredential'
    BY <1>7 DEF IndInv, EpochInv, NoClientInv, CommandInv, IssuingInv, OneWorkingCredential
  <2>6. StampsInv' /\ AddsInv' /\ CreationInv'
    BY <1>7, <1>9, <2>2, <2>3 DEF IndInv, StampsInv, AddsInv, CreationInv, CallSound
  <2>7. LateInv'
    BY <1>7, <1>9, <2>2, <2>3 DEF IndInv, LateInv, StageOf, CallSound
  <2>8. WithdrawnInv'
    BY <1>7 DEF IndInv, WithdrawnInv, RowsOf
  <2> QED BY <2>4, <2>5, <2>6, <2>7, <2>8 DEF IndInv
<1> QED BY <1>10, <1>11
\* A self-grant inserts rows for its project only, which is then withdrawn no longer.
LEMMA ServeSelfGrantCommit ==
    ASSUME IndInv, NEW r \in Request, SelfGrantCommit(r)
    PROVE  IndInv'
<1> DEFINE c == call[r]
           n == LateAfter(r)
           d == [c EXCEPT !.at = @ + 1, !.late = n, !.scopes = {}, !.tools = {}, !.adds = {}]
<1>1. /\ CallSound(r, c) /\ InCall(r) /\ c.m \in Method
      /\ c.at \in 1..Len(c.m.plan) /\ c.m.plan[c.at] = "granted" /\ c.at + 1 \in 1..8
  BY RunningAt DEF SelfGrantCommit
<1>2. c.m \in Granting /\ c.at + 1 = Len(c.m.plan) /\ Len(c.m.plan) \in 1..7
  BY <1>1, MethodPlans DEF PlanShape, Grantless
<1>3. c.late = 0 /\ n \in 0..1 /\ (n # 0 => c.since # changes)
  <2>1. c.late = 0
    BY <1>1, <1>2 DEF CallSound, SelfGrantCommit, Running
  <2> QED BY <2>1 DEF LateAfter
<1>4. /\ d \in CallRow /\ d.m = c.m /\ d.p = c.p /\ d.at = c.at + 1 /\ d.epoch = c.epoch
      /\ d.since = c.since /\ d.passed = c.passed /\ d.late = n /\ d.adds = {}
  <2>1. c \in CallRow
    BY <1>1 DEF CallSound
  <2>2. n \in 0..2 /\ {} \in SUBSET Scope /\ {} \in SUBSET DefaultTools /\ {} \in SUBSET Rows
    BY <1>3
  <2> QED BY <1>1, <2>1, <2>2 DEF CallRow
<1>5. /\ client' = [client EXCEPT !.scopes = c.scopes, !.tools = c.tools]
      /\ rows' = rows \cup c.adds /\ barred' = barred \ {c.p}
      /\ cmd' = [o \in Operator |-> IF cmd[o].on = c.p THEN [cmd[o] EXCEPT !.alone = FALSE] ELSE cmd[o]]
      /\ call' = [call EXCEPT ![r] = d]
      /\ UNCHANGED <<cred, file, token, projects, changes, warned>>
  BY DEF SelfGrantCommit
<1> HIDE DEF d, n
<1>6. client \in ClientRow /\ client # NoClient
  BY <1>1 DEF CallSound, IndInv, TypeOK
<1>7. /\ client' \in ClientRow /\ client'.status = client.status /\ client'.epoch = client.epoch
      /\ client' # NoClient
  BY <1>1, <1>5, <1>6 DEF CallSound, CallRow, ClientRow, NoClient
<1>8. \A q \in Request : call'[q] = IF q = r THEN d ELSE call[q]
  BY <1>5 DEF IndInv, TypeOK
<1>9. \A q \in Request : InCall(q)' = InCall(q)
  BY <1>1, <1>4, <1>8 DEF InCall
<1>10. \A x : x # c.p => RowsOf(x)' = RowsOf(x)
  BY <1>1, <1>5 DEF RowsOf, CallSound
<1>11. \A o \in Operator :
          /\ cmd'[o] \in CommandRow
          /\ cmd'[o].kind = cmd[o].kind /\ cmd'[o].step = cmd[o].step /\ cmd'[o].on = cmd[o].on
          /\ cmd'[o].access = cmd[o].access /\ cmd'[o].k = cmd[o].k /\ cmd'[o].row = cmd[o].row
          /\ cmd'[o].closes = cmd[o].closes /\ cmd'[o].adds = cmd[o].adds
          /\ cmd'[o].alone => cmd[o].alone /\ cmd[o].on # c.p
  <2> TAKE o \in Operator
  <2>1. cmd[o] \in CommandRow /\ cmd'[o] = IF cmd[o].on = c.p THEN [cmd[o] EXCEPT !.alone = FALSE] ELSE cmd[o]
    BY <1>5 DEF IndInv, TypeOK
  <2> QED BY <2>1 DEF CommandRow
<1>12. cmd' \in [Operator -> CommandRow]
  BY <1>5, <1>11
<1>13. TypeOK'
  BY <1>1, <1>4, <1>5, <1>7, <1>12 DEF IndInv, TypeOK, CallSound, CallRow
<1>14. EpochInv' /\ NoClientInv' /\ OneWorkingCredential'
  BY <1>5, <1>6, <1>7 DEF IndInv, EpochInv, NoClientInv, OneWorkingCredential
<1>15. CommandInv' /\ IssuingInv'
  BY <1>5, <1>7, <1>11 DEF IndInv, CommandInv, IssuingInv
<1>16. StampsInv' /\ CreationInv' /\ AddsInv'
  <2>1. StampsInv' /\ CreationInv'
    BY <1>4, <1>5, <1>7, <1>8, <1>9 DEF IndInv, StampsInv, CreationInv
  <2>2. AddsInv'
    BY <1>4, <1>8, <1>9, <1>11 DEF IndInv, AddsInv
  <2> QED BY <2>1, <2>2
<1>17. LateInv'
  BY <1>2, <1>3, <1>4, <1>5, <1>8, <1>9 DEF IndInv, LateInv, StageOf
<1>18. WithdrawnInv'
  BY <1>5, <1>10, <1>11 DEF IndInv, WithdrawnInv
<1> QED BY <1>13, <1>14, <1>15, <1>16, <1>17, <1>18 DEF IndInv

\* Every step of a call keeps the invariant.
LEMMA ServeStep ==
    ASSUME IndInv, NEW r \in Request, Serve(r)
    PROVE  IndInv'
<1>1. ASSUME NEW m \in Method, NEW p \in TargetsOf(m), NEW k \in Cred, ByCredential(r, m, p, k)
      PROVE  IndInv'
  <2>1. p \in Scope
    BY DEF TargetsOf, Creating, Scope, Granting, IndInv, TypeOK, CreationInv
  <2> QED BY <1>1, <2>1, ServeEnter DEF ByCredential
<1>2. ASSUME NEW m \in Method, NEW p \in TargetsOf(m), NEW t \in Token, ByToken(r, m, p, t)
      PROVE  IndInv'
  <2>1. p \in Scope
    BY DEF TargetsOf, Creating, Scope, Granting, IndInv, TypeOK, CreationInv
  <2> QED BY <1>2, <2>1, ServeByToken
<1>3. Arrive(r) => IndInv'
  BY <1>1, <1>2 DEF Arrive
<1> QED BY <1>3, ServeCheck, ServeProtected, ServeResolveTask, ServeSelfGrantRead,
       ServeSelfGrantCommit, ServeLeave DEF Serve
\* Codes and grants: a step of one token that changes nothing else.
LEMMA TokenStep ==
    ASSUME IndInv, NEW t \in Token, NEW k,
           token' = [token EXCEPT ![t] = k],
           UNCHANGED <<client, rows, cred, file, projects, cmd, call, changes, barred, warned>>,
           k \in [state : {"absent", "code", "live", "dead"}, epoch : 0..MaxEpoch, since : 0..MaxEpoch],
           k.state = "live" => k.epoch = k.since + 1
    PROVE  IndInv'
<1>1. \A u \in Token : token'[u] = IF u = t THEN k ELSE token[u]
  BY DEF IndInv, TypeOK
<1>2. TypeOK'
  BY DEF IndInv, TypeOK
<1>3. StampsInv' /\ LateInv'
  BY <1>1 DEF IndInv, StampsInv, LateInv, InCall
<1>4. EpochInv' /\ NoClientInv' /\ CommandInv' /\ IssuingInv' /\ OneWorkingCredential'
  BY DEF IndInv, EpochInv, NoClientInv, CommandInv, IssuingInv, OneWorkingCredential
<1>5. CreationInv' /\ AddsInv' /\ WithdrawnInv'
  BY DEF IndInv, CreationInv, AddsInv, WithdrawnInv, InCall, RowsOf
<1> QED BY <1>2, <1>3, <1>4, <1>5 DEF IndInv

\* A grant is issued for the epoch in force.
LEMMA OAuthToken ==
    ASSUME IndInv, NEW t \in Token,
           IssueCode(t) \/ RevokeToken(t) \/ \E e \in 1..MaxEpoch : ExchangeCode(t, e)
    PROVE  IndInv'
<1> DEFINE T == [state : {"absent", "code", "live", "dead"}, epoch : 0..MaxEpoch, since : 0..MaxEpoch]
<1>1. DeadToken \in T /\ DeadToken.state = "dead"
  BY MaxEpochAssumption DEF DeadToken, NoToken
<1>2. CASE RevokeToken(t)
  BY <1>1, <1>2, TokenStep DEF RevokeToken
<1>3. CASE IssueCode(t)
  <2> DEFINE k == [token[t] EXCEPT !.state = "code"]
  <2>1. k \in T /\ k.state = "code"
    BY <1>3 DEF IssueCode, IndInv, TypeOK
  <2>2. token' = [token EXCEPT ![t] = k]
    BY <1>3 DEF IssueCode
  <2> HIDE DEF k
  <2> QED BY <1>3, <2>1, <2>2, TokenStep DEF IssueCode
<1>4. ASSUME NEW e \in 1..MaxEpoch, ExchangeCode(t, e) PROVE IndInv'
  <2>1. CASE client.status = "active" /\ client.epoch = e
    <3> DEFINE k == [state |-> "live", epoch |-> e, since |-> changes]
    <3>1. e = changes + 1 /\ changes \in 0..MaxEpoch
      BY <2>1 DEF IndInv, EpochInv, TypeOK, NoClient
    <3>2. k \in T /\ k.epoch = k.since + 1
      BY <3>1
    <3>3. token' = [token EXCEPT ![t] = k]
      BY <1>4, <2>1 DEF ExchangeCode
    <3>4. UNCHANGED <<client, rows, cred, file, projects, cmd, call, changes, barred, warned>>
      BY <1>4 DEF ExchangeCode
    <3> HIDE DEF k
    <3> QED BY <3>2, <3>3, <3>4, TokenStep
  <2>2. CASE ~(client.status = "active" /\ client.epoch = e)
    BY <1>1, <1>4, <2>2, TokenStep DEF ExchangeCode
  <2> QED BY <2>1, <2>2
<1> QED BY <1>2, <1>3, <1>4

\* A change of the permissions that also ends the client: calls under way become late.
LEMMA Revoked ==
    ASSUME IndInv, client # NoClient,
           client' = [client EXCEPT !.status = "revoked", !.epoch = client.epoch + 1],
           client.epoch < MaxEpoch, changes' = changes + 1,
           UNCHANGED <<rows, file, projects, call, barred, warned>>
    PROVE  /\ client' \in ClientRow /\ client' # NoClient /\ changes' \in 0..MaxEpoch
           /\ EpochInv' /\ NoClientInv' /\ LateInv' /\ CreationInv' /\ OneWorkingCredential'
           /\ \A r \in Request : InCall(r) =>
                /\ call[r].epoch = call[r].since + 1
                /\ call[r].passed = call[r].since
                /\ call[r].since <= changes'
<1>1. client \in ClientRow /\ client # NoClient /\ changes \in 0..MaxEpoch /\ MaxEpoch \in Nat
      /\ client.epoch = changes + 1
  BY MaxEpochAssumption DEF IndInv, TypeOK, NoClient, EpochInv
<1>2. client.epoch \in 1..MaxEpoch /\ client.epoch + 1 \in 1..MaxEpoch
  BY <1>1 DEF ClientRow
<1>3. /\ client' \in ClientRow /\ client'.status = "revoked" /\ client'.epoch = client.epoch + 1
      /\ client' # NoClient /\ changes' \in 0..MaxEpoch
  <2>1. client' \in ClientRow /\ client'.status = "revoked" /\ client'.epoch = client.epoch + 1
    BY <1>1, <1>2 DEF ClientRow
  <2>2. changes' \in 0..MaxEpoch
    BY <1>1, <1>2
  <2> QED BY <2>1, <2>2 DEF NoClient
<1>4. EpochInv' /\ NoClientInv' /\ OneWorkingCredential'
  BY <1>1, <1>3 DEF EpochInv, NoClientInv, OneWorkingCredential
<1>5. \A r \in Request : InCall(r) => call[r].since \in Nat /\ call[r].since <= changes
  BY DEF IndInv, TypeOK, StampsInv, CallRow, InCall, Resting
<1>6. LateInv' /\ CreationInv'
  BY <1>1, <1>5 DEF IndInv, LateInv, CreationInv, InCall
<1> QED BY <1>1, <1>3, <1>4, <1>5, <1>6 DEF IndInv, StampsInv

\* revoke_client of the grant store, while no command holds the row.
LEMMA OAuthRevoke ==
    ASSUME IndInv, OAuthRevokeClient
    PROVE  IndInv'
<1>1. /\ client' \in ClientRow /\ client' # NoClient /\ changes' \in 0..MaxEpoch
      /\ EpochInv' /\ NoClientInv' /\ LateInv' /\ CreationInv' /\ OneWorkingCredential'
      /\ \A r \in Request : InCall(r) =>
           /\ call[r].epoch = call[r].since + 1
           /\ call[r].passed = call[r].since
           /\ call[r].since <= changes'
  BY Revoked DEF OAuthRevokeClient, NoClient
<1>2. \A t \in Token : token'[t] = IF token[t].state = "live" THEN DeadToken ELSE token[t]
  BY DEF OAuthRevokeClient
<1>3. TypeOK'
  <2>1. DeadToken \in [state : {"absent", "code", "live", "dead"}, epoch : 0..MaxEpoch, since : 0..MaxEpoch]
    BY MaxEpochAssumption DEF DeadToken, NoToken
  <2> QED BY <1>1, <2>1 DEF OAuthRevokeClient, IndInv, TypeOK
<1>4. StampsInv'
  BY <1>1, <1>2 DEF OAuthRevokeClient, IndInv, StampsInv, InCall, DeadToken, NoToken
<1>5. CommandInv' /\ IssuingInv'
  BY DEF OAuthRevokeClient, IndInv, CommandInv, IssuingInv
<1>6. AddsInv' /\ WithdrawnInv'
  BY DEF OAuthRevokeClient, IndInv, AddsInv, WithdrawnInv, InCall, RowsOf
<1> QED BY <1>1, <1>3, <1>4, <1>5, <1>6 DEF IndInv
\* What the invariant says of a command.
CommandSound(c) ==
    /\ c \in CommandRow
    /\ <<c.kind, c.step>> \in Progress
    /\ c.kind = "review" => c.on = "home"
    /\ c.kind \in {"revoke", "project", "review"} =>
          client # NoClient /\ c.row.epoch = client.epoch /\ client.epoch < MaxEpoch
    /\ c.kind \in {"provision", "rotate"} => /\ c.k \in Cred
                                             /\ cred[c.k] = "absent"
                                             /\ c.step = "commit" => c.k \in file
    /\ \A g \in c.adds : c.access # "none" /\ g.scope = c.on
    /\ c.kind = "project" =>
          /\ c.on \in Project
          /\ c.alone /\ c.access = "none" => RowsOf(c.on) \subseteq c.closes

LEMMA CommandsAreSound ==
    ASSUME IndInv, NEW o \in Operator
    PROVE  CommandSound(cmd[o])
BY DEF IndInv, TypeOK, CommandInv, IssuingInv, AddsInv, WithdrawnInv, CommandSound

\* Conversely, with one terminal, its command is all there is to the commands.
LEMMA SoundCommand ==
    ASSUME IndInv, NEW o \in Operator, NEW c, cmd' = [cmd EXCEPT ![o] = c], CommandSound(c)',
           UNCHANGED call
    PROVE  /\ cmd' \in [Operator -> CommandRow] /\ CommandInv' /\ IssuingInv' /\ AddsInv'
           /\ (\A x \in barred : RowsOf(x) = {})' => WithdrawnInv'
<1>1. \A q \in Operator : cmd'[q] = c
  BY OneTerminal DEF IndInv, TypeOK
<1> USE <1>1 DEF CommandSound
<1>2. cmd' \in [Operator -> CommandRow]
  BY DEF IndInv, TypeOK
<1>3. CommandInv' /\ IssuingInv'
  BY DEF CommandInv, IssuingInv
<1>4. AddsInv'
  BY DEF IndInv, AddsInv, InCall
<1>5. (\A x \in barred : RowsOf(x) = {})' => WithdrawnInv'
  BY DEF WithdrawnInv
<1> QED BY <1>2, <1>3, <1>4, <1>5

\* An idle terminal.
LEMMA IdleIsSound == CommandSound(Idle) /\ CommandSound(Idle)'
<1>1. Idle \in CommandRow /\ Idle.kind = "idle" /\ Idle.step = "" /\ Idle.adds = {}
  BY DEF Idle, CommandRow, Kind, Scope
<1> QED BY <1>1 DEF CommandSound, Progress

\* A command that has not committed changes itself only, and a file it delivers.
LEMMA CommandStep ==
    ASSUME IndInv, NEW o \in Operator, NEW c, cmd' = [cmd EXCEPT ![o] = c], CommandSound(c)',
           UNCHANGED <<client, rows, cred, token, projects, call, changes, barred, warned>>,
           file \subseteq file', file' \subseteq Cred
    PROVE  IndInv'
<1>1. /\ cmd' \in [Operator -> CommandRow] /\ CommandInv' /\ IssuingInv' /\ AddsInv'
      /\ (\A x \in barred : RowsOf(x) = {})' => WithdrawnInv'
  BY SoundCommand
<1>2. TypeOK'
  BY <1>1 DEF IndInv, TypeOK
<1>3. EpochInv' /\ NoClientInv' /\ StampsInv' /\ LateInv' /\ CreationInv'
  BY DEF IndInv, EpochInv, NoClientInv, StampsInv, LateInv, CreationInv, InCall
<1>4. OneWorkingCredential'
  BY DEF IndInv, OneWorkingCredential
<1>5. WithdrawnInv'
  BY <1>1 DEF IndInv, WithdrawnInv, RowsOf
<1> QED BY <1>1, <1>2, <1>3, <1>4, <1>5 DEF IndInv
\* What is true of a command stays true while only the commands change.
LEMMA SoundStays ==
    ASSUME NEW c, CommandSound(c),
           UNCHANGED <<client, rows, cred, token, projects, call, changes, barred, warned>>,
           file \subseteq file'
    PROVE  CommandSound(c)'
BY DEF CommandSound, RowsOf

\* A command begins.
LEMMA CommandStart ==
    ASSUME IndInv, NEW o \in Operator, NEW c, Start(o, c), CommandSound(c)
    PROVE  IndInv'
<1>1. CommandSound(c)'
  BY SoundStays DEF Start
<1> QED BY <1>1, CommandStep DEF Start, IndInv, TypeOK

LEMMA CommandBegins ==
    ASSUME IndInv, NEW o \in Operator,
           \/ \E k \in Cred : StartProvision(o, k) \/ StartRotate(o, k)
           \/ StartRevoke(o)
           \/ \E kind \in {"project", "review"}, s \in Scope, access \in {"none", "read", "write"} :
                 StartAccess(o, kind, s, access)
    PROVE  IndInv'
<1>1. client \in ClientRow \cup {NoClient} /\ client.epoch \in Nat
  BY MaxEpochAssumption DEF IndInv, TypeOK, EpochInv
<1>2. ASSUME NEW k \in Cred, StartProvision(o, k) PROVE IndInv'
  <2>1. PICK c : c = [Idle EXCEPT !.kind = "provision", !.step = "deliver", !.k = k]
    OBVIOUS
  <2>2. c \in CommandRow /\ c.kind = "provision" /\ c.step = "deliver" /\ c.k = k /\ c.adds = {}
    BY <2>1 DEF Idle, CommandRow, Kind, Scope
  <2>3. CommandSound(c)
    BY <1>2, <2>2 DEF CommandSound, Progress, StartProvision, Fresh
  <2> QED BY <1>2, <2>1, <2>3, CommandStart DEF StartProvision
<1>3. ASSUME NEW k \in Cred, StartRotate(o, k) PROVE IndInv'
  <2>1. PICK c : c = [Idle EXCEPT !.kind = "rotate", !.step = "deliver", !.k = k]
    OBVIOUS
  <2>2. c \in CommandRow /\ c.kind = "rotate" /\ c.step = "deliver" /\ c.k = k /\ c.adds = {}
    BY <2>1 DEF Idle, CommandRow, Kind, Scope
  <2>3. CommandSound(c)
    BY <1>3, <2>2 DEF CommandSound, Progress, StartRotate, Fresh
  <2> QED BY <1>3, <2>1, <2>3, CommandStart DEF StartRotate
<1>4. ASSUME StartRevoke(o) PROVE IndInv'
  <2>1. PICK c : c = [Idle EXCEPT !.kind = "revoke", !.step = "update", !.row = client]
    OBVIOUS
  <2>2. c \in CommandRow /\ c.kind = "revoke" /\ c.step = "update" /\ c.row = client /\ c.adds = {}
    BY <1>1, <2>1 DEF Idle, CommandRow, Kind, Scope
  <2>3. client # NoClient /\ client.epoch < MaxEpoch
    BY <1>4 DEF StartRevoke, Start, NoClient
  <2>4. CommandSound(c)
    BY <2>2, <2>3 DEF CommandSound, Progress
  <2> QED BY <1>4, <2>1, <2>4, CommandStart DEF StartRevoke
<1>5. ASSUME NEW kind \in {"project", "review"}, NEW s \in Scope,
             NEW access \in {"none", "read", "write"}, StartAccess(o, kind, s, access)
      PROVE  IndInv'
  <2>1. PICK c : c = [Idle EXCEPT !.kind = kind, !.step = "rows", !.on = s, !.access = access,
                                  !.row = client]
    OBVIOUS
  <2>2. /\ c \in CommandRow /\ c.kind = kind /\ c.step = "rows" /\ c.on = s /\ c.row = client
        /\ c.adds = {} /\ c.alone = FALSE
    BY <1>1, <2>1 DEF Idle, CommandRow, Kind, Scope
  <2>3. /\ client # NoClient /\ client.epoch < MaxEpoch
        /\ (kind = "project" => s \in Project) /\ (kind = "review" => s = "home")
    BY <1>5 DEF StartAccess, Start, IndInv, TypeOK
  <2>4. CommandSound(c)
    BY <2>2, <2>3 DEF CommandSound, Progress
  <2> QED BY <1>5, <2>1, <2>4, CommandStart DEF StartAccess
<1> QED BY <1>2, <1>3, <1>4, <1>5

\* A command proceeds, or ends without effect.
LEMMA CommandGoesOn ==
    ASSUME IndInv, NEW o \in Operator, Deliver(o) \/ Die(o) \/ AccessRows(o)
    PROVE  IndInv'
<1>1. CommandSound(cmd[o])
  BY CommandsAreSound
<1>2. cmd[o] \in CommandRow /\ file \subseteq Cred
  BY DEF IndInv, TypeOK
<1>3. CASE Die(o)
  BY <1>3, IdleIsSound, CommandStep DEF Die, Finish, IndInv, TypeOK
<1>4. CASE Deliver(o)
  <2>1. PICK c : c = [cmd[o] EXCEPT !.step = "commit"]
    OBVIOUS
  <2>2. /\ c \in CommandRow /\ c.step = "commit" /\ c.kind = cmd[o].kind /\ c.k = cmd[o].k
        /\ c.adds = cmd[o].adds
    BY <1>2, <2>1 DEF CommandRow
  <2>3. cmd[o].kind \in {"provision", "rotate"}
    BY <1>1, <1>4 DEF CommandSound, Progress, Deliver
  <2>4. file' = file \cup {c.k} /\ cmd' = [cmd EXCEPT ![o] = c]
    BY <1>4, <2>1, <2>2 DEF Deliver, Proceed
  <2>5. CommandSound(c)'
    <3>1. c.k \in Cred /\ cred'[c.k] = "absent" /\ c.k \in file'
      BY <1>1, <1>4, <2>2, <2>3, <2>4 DEF CommandSound, Deliver
    <3>2. \A g \in c.adds : c.access # "none" /\ g.scope = c.on
      BY <1>1, <1>2, <2>1, <2>2 DEF CommandSound, CommandRow
    <3> QED BY <2>2, <2>3, <3>1, <3>2 DEF CommandSound, Progress
  <2>6. file \subseteq file' /\ file' \subseteq Cred
    BY <1>1, <1>2, <2>2, <2>3, <2>4 DEF CommandSound
  <2> QED BY <1>4, <2>4, <2>5, <2>6, CommandStep DEF Deliver
<1>5. CASE AccessRows(o)
  <2> DEFINE b == cmd[o]
             closes == IF b.access = "none" THEN Closed(b.kind, b.on) ELSE {}
             adds == IF b.access = "none" THEN {}
                     ELSE {Allow(t, b.on) : t \in Named(b.kind, b.access)} \ rows
  <2>1. PICK c : c = [b EXCEPT !.step = "update", !.alone = TRUE, !.closes = closes, !.adds = adds]
    OBVIOUS
  <2>2. b.kind \in {"project", "review"}
    BY <1>1, <1>5 DEF CommandSound, Progress, AccessRows
  <2>3. closes \in SUBSET Rows /\ adds \in SUBSET Rows /\ \A g \in adds : b.access # "none" /\ g.scope = b.on
    <3>1. closes \in SUBSET Rows
      BY DEF Closed, IndInv, TypeOK
    <3>2. Named(b.kind, b.access) \subseteq DefaultTools
      BY DEF Named, ToolsOf, ProjectTools, ReviewTools, DefaultTools
    <3>3. b.on \in Scope
      BY <1>2 DEF CommandRow
    <3>4. adds \in SUBSET Rows
      BY <3>2, <3>3 DEF Rows
    <3>5. \A g \in adds : b.access # "none" /\ g.scope = b.on
      BY DEF Allow
    <3> QED BY <3>1, <3>4, <3>5
  <2> HIDE DEF closes, adds
  <2>4. /\ c \in CommandRow /\ c.kind = b.kind /\ c.step = "update" /\ c.on = b.on /\ c.access = b.access
        /\ c.row = b.row /\ c.closes = closes /\ c.adds = adds /\ c.alone = TRUE
    BY <1>2, <2>1, <2>3 DEF CommandRow
  <2>5. b.kind = "project" /\ b.access = "none" => RowsOf(b.on) \subseteq closes
    BY DEF RowsOf, Closed, ToolsOf, closes
  <2>6. CommandSound(c)
    BY <1>1, <2>2, <2>3, <2>4, <2>5 DEF CommandSound, Progress
  <2>7. cmd' = [cmd EXCEPT ![o] = c]
    <3>1. cmd' = [cmd EXCEPT ![o] = [b EXCEPT !.step = "update", !.alone = TRUE, !.closes = closes, !.adds = adds]]
      BY <1>5 DEF AccessRows, closes, adds
    <3> QED BY <2>1, <3>1
  <2>8. CommandSound(c)'
    BY <1>5, <2>6, SoundStays DEF AccessRows
  <2> QED BY <1>2, <1>5, <2>7, <2>8, CommandStep DEF AccessRows
<1> QED BY <1>3, <1>4, <1>5
\* Whether the rows of the client are its credential and its file.
LEMMA IssuedOne ==
    ASSUME IndInv, NEW k \in Cred, cred' = Issued(k)
    PROVE  /\ cred' \in [Cred -> {"absent", "live", "revoked"}]
           /\ cred'[k] = "live" /\ \A j \in Cred : cred'[j] = "live" => j = k
BY DEF Issued, IndInv, TypeOK

\* The transactions of provision_client and rotate_client_credential.
LEMMA CommandIssues ==
    ASSUME IndInv, NEW o \in Operator, NEW failed \in BOOLEAN,
           CommitProvision(o, failed) \/ CommitRotate(o, failed)
    PROVE  IndInv'
<1> DEFINE k == cmd[o].k
<1>1. CommandSound(cmd[o]) /\ cmd[o].step = "commit" /\ k \in Cred /\ cred[k] = "absent" /\ k \in file
  BY CommandsAreSound DEF CommandSound, CommitProvision, CommitRotate
<1>2. /\ cred' = Issued(k) /\ file' = FileAfter(o, failed) /\ warned' = (warned \/ failed)
      /\ cmd' = [cmd EXCEPT ![o] = Idle]
      /\ UNCHANGED <<token, projects, call, changes, barred>>
  BY DEF CommitProvision, CommitRotate, Finish
<1>3. /\ cred' \in [Cred -> {"absent", "live", "revoked"}]
      /\ cred'[k] = "live" /\ \A j \in Cred : cred'[j] = "live" => j = k
  BY <1>1, <1>2, IssuedOne
<1>4. file' \subseteq Cred /\ (k \in file' \/ warned') /\ warned' \in BOOLEAN
  <2>1. file \subseteq Cred /\ warned \in BOOLEAN
    BY DEF IndInv, TypeOK
  <2>2. file' = IF failed THEN file \ {k} ELSE file
    BY <1>2 DEF FileAfter
  <2> QED BY <1>1, <1>2, <2>1, <2>2
<1>5. OneWorkingCredential'
  BY <1>1, <1>3, <1>4 DEF OneWorkingCredential
<1>6. /\ cmd' \in [Operator -> CommandRow] /\ CommandInv' /\ IssuingInv' /\ AddsInv'
      /\ (\A x \in barred : RowsOf(x) = {})' => WithdrawnInv'
  BY <1>2, IdleIsSound, SoundCommand
<1>7. LateInv' /\ CreationInv'
  BY <1>2 DEF IndInv, LateInv, CreationInv, InCall
<1>8. CASE CommitRotate(o, failed)
  <2>1. UNCHANGED <<client, rows>>
    BY <1>8 DEF CommitRotate
  <2>2. TypeOK'
    BY <1>2, <1>3, <1>4, <1>6, <2>1 DEF IndInv, TypeOK
  <2>3. EpochInv' /\ NoClientInv' /\ StampsInv'
    BY <1>2, <2>1 DEF IndInv, EpochInv, NoClientInv, StampsInv, InCall
  <2>4. WithdrawnInv'
    BY <1>2, <1>6, <2>1 DEF IndInv, WithdrawnInv, RowsOf
  <2> QED BY <1>5, <1>6, <1>7, <2>2, <2>3, <2>4 DEF IndInv
<1>9. CASE CommitProvision(o, failed)
  <2>1. /\ client = NoClient
        /\ client' = [status |-> "active", epoch |-> 1, scopes |-> {"home"}, tools |-> DefaultTools]
        /\ rows' = {Allow(t, "home") : t \in DefaultTools}
    BY <1>9 DEF CommitProvision
  <2>2. changes = 0 /\ barred = {} /\ \A r \in Request : ~InCall(r)
    BY <2>1 DEF IndInv, NoClientInv, StampsInv
  <2>3. client' \in ClientRow /\ client' # NoClient /\ client'.epoch = 1
    BY <2>1, MaxEpochAssumption DEF ClientRow, Scope, NoClient
  <2>4. rows' \in SUBSET Rows
    BY <2>1 DEF Rows, Scope
  <2>5. TypeOK'
    BY <1>2, <1>3, <1>4, <1>6, <2>3, <2>4 DEF IndInv, TypeOK
  <2>6. EpochInv' /\ NoClientInv'
    BY <1>2, <2>2, <2>3 DEF EpochInv, NoClientInv
  <2>7. StampsInv'
    BY <1>2, <2>2 DEF IndInv, StampsInv, InCall
  <2>8. WithdrawnInv'
    BY <1>2, <1>6, <2>2
  <2> QED BY <1>5, <1>6, <1>7, <2>5, <2>6, <2>7, <2>8 DEF IndInv
<1> QED BY <1>8, <1>9

\* A failed issue takes away the file that no row is for.
LEMMA CommandFails ==
    ASSUME IndInv, NEW o \in Operator, FailIssue(o)
    PROVE  IndInv'
<1> DEFINE k == cmd[o].k
<1>1. CommandSound(cmd[o]) /\ cred[k] = "absent"
  BY CommandsAreSound DEF CommandSound, FailIssue
<1>2. /\ file' = file \ {k} /\ warned' = TRUE /\ cmd' = [cmd EXCEPT ![o] = Idle]
      /\ UNCHANGED <<client, rows, cred, token, projects, call, changes, barred>>
  BY DEF FailIssue, Finish, FileAfter
<1>3. /\ cmd' \in [Operator -> CommandRow] /\ CommandInv' /\ IssuingInv' /\ AddsInv'
      /\ (\A x \in barred : RowsOf(x) = {})' => WithdrawnInv'
  BY <1>2, IdleIsSound, SoundCommand
<1>4. TypeOK'
  BY <1>2, <1>3 DEF IndInv, TypeOK
<1>5. EpochInv' /\ NoClientInv' /\ StampsInv' /\ LateInv' /\ CreationInv'
  BY <1>2 DEF IndInv, EpochInv, NoClientInv, StampsInv, LateInv, CreationInv, InCall
<1>6. OneWorkingCredential'
  BY <1>2 DEF IndInv, OneWorkingCredential
<1>7. WithdrawnInv'
  BY <1>2, <1>3 DEF IndInv, WithdrawnInv, RowsOf
<1> QED BY <1>3, <1>4, <1>5, <1>6, <1>7 DEF IndInv

\* revoke_client ends the client and its credentials.
LEMMA CommandRevokes ==
    ASSUME IndInv, NEW o \in Operator, CommitRevoke(o)
    PROVE  IndInv'
<1>1. /\ client # NoClient /\ cmd[o].row.epoch = client.epoch /\ client.epoch < MaxEpoch
  BY DEF CommitRevoke, IndInv, CommandInv
<1>2. /\ client' = [client EXCEPT !.status = "revoked", !.epoch = client.epoch + 1]
      /\ cred' = [k \in Cred |-> IF cred[k] = "live" THEN "revoked" ELSE cred[k]]
      /\ changes' = changes + 1 /\ cmd' = [cmd EXCEPT ![o] = Idle]
      /\ UNCHANGED <<rows, file, token, projects, call, barred, warned>>
  BY <1>1 DEF CommitRevoke, Finish
<1>3. /\ client' \in ClientRow /\ client' # NoClient /\ changes' \in 0..MaxEpoch
      /\ EpochInv' /\ NoClientInv' /\ LateInv' /\ CreationInv' /\ OneWorkingCredential'
      /\ \A r \in Request : InCall(r) =>
           /\ call[r].epoch = call[r].since + 1
           /\ call[r].passed = call[r].since
           /\ call[r].since <= changes'
  BY <1>1, <1>2, Revoked
<1>4. /\ cmd' \in [Operator -> CommandRow] /\ CommandInv' /\ IssuingInv' /\ AddsInv'
      /\ (\A x \in barred : RowsOf(x) = {})' => WithdrawnInv'
  BY <1>2, IdleIsSound, SoundCommand
<1>5. TypeOK'
  BY <1>2, <1>3, <1>4 DEF IndInv, TypeOK
<1>6. StampsInv'
  BY <1>2, <1>3 DEF IndInv, StampsInv, InCall
<1>7. WithdrawnInv'
  BY <1>2, <1>4 DEF IndInv, WithdrawnInv, RowsOf
<1> QED BY <1>3, <1>4, <1>5, <1>6, <1>7 DEF IndInv
\* set_project_access and set_review_access write back what they read, under a new
\* epoch, and leave no row open where access is withdrawn.
LEMMA CommandSets ==
    ASSUME IndInv, NEW o \in Operator, CommitAccess(o)
    PROVE  IndInv'
<1> DEFINE c == cmd[o]
<1>1. /\ CommandSound(c) /\ c \in CommandRow /\ c.kind \in {"project", "review"} /\ c.step = "update"
      /\ client # NoClient /\ c.row.epoch = client.epoch /\ client.epoch < MaxEpoch
  BY CommandsAreSound DEF CommandSound, CommitAccess
<1>2. /\ client \in ClientRow /\ changes \in 0..MaxEpoch /\ client.epoch = changes + 1
      /\ client.epoch + 1 \in 1..MaxEpoch /\ c.row \in ClientRow
  <2>1. client \in ClientRow /\ changes \in 0..MaxEpoch /\ client.epoch = changes + 1
    BY <1>1 DEF IndInv, TypeOK, EpochInv
  <2>2. client.epoch + 1 \in 1..MaxEpoch
    BY <1>1, <2>1, MaxEpochAssumption
  <2>3. c.row \in ClientRow
    <3>1. c.row.epoch # 0
      BY <1>1, <2>1
    <3>2. NoClient.epoch = 0
      BY DEF NoClient
    <3>3. c.row \in ClientRow \cup {NoClient}
      BY <1>1 DEF CommandRow
    <3> QED BY <3>1, <3>2, <3>3
  <2> QED BY <2>1, <2>2, <2>3
<1> DEFINE scopes == NextScopes(c)
           tools == IF c.access = "none" THEN c.row.tools ELSE c.row.tools \cup Named(c.kind, c.access)
<1>3. scopes \in SUBSET Scope /\ tools \in SUBSET DefaultTools
  <2>1. c.row.scopes \in SUBSET Scope /\ c.row.tools \in SUBSET DefaultTools /\ c.on \in Scope
    BY <1>1, <1>2 DEF ClientRow, CommandRow
  <2>2. Named(c.kind, c.access) \in SUBSET DefaultTools
    BY DEF Named, ToolsOf, ProjectTools, ReviewTools, DefaultTools
  <2> QED BY <2>1, <2>2 DEF NextScopes
<1>4. /\ client' = [client EXCEPT !.scopes = scopes, !.tools = tools, !.epoch = client.epoch + 1]
      /\ rows' = (rows \ c.closes) \cup c.adds /\ changes' = changes + 1
      /\ cmd' = [cmd EXCEPT ![o] = Idle]
      /\ UNCHANGED <<cred, file, token, projects, call, warned>>
  BY <1>1 DEF CommitAccess, NextEpoch, Finish
<1>5. barred' = IF c.kind # "project" THEN barred
                ELSE IF c.access # "none" THEN barred \ {c.on}
                ELSE IF c.alone THEN barred \cup {c.on} ELSE barred
  BY DEF CommitAccess
<1> HIDE DEF scopes, tools
<1>6. client' \in ClientRow /\ client'.status = client.status /\ client'.epoch = client.epoch + 1
  BY <1>2, <1>3, <1>4 DEF ClientRow
<1>7. client' # NoClient /\ changes' \in 0..MaxEpoch /\ client'.epoch = changes' + 1
  BY <1>2, <1>4, <1>6 DEF NoClient, ClientRow
<1>8. /\ cmd' \in [Operator -> CommandRow] /\ CommandInv' /\ IssuingInv' /\ AddsInv'
      /\ (\A x \in barred : RowsOf(x) = {})' => WithdrawnInv'
  BY <1>4, IdleIsSound, SoundCommand
<1>9. TypeOK'
  <2>1. rows' \in SUBSET Rows
    BY <1>1, <1>4 DEF CommandRow, IndInv, TypeOK
  <2>2. barred' \in SUBSET Project
    BY <1>1, <1>5 DEF IndInv, TypeOK, CommandSound
  <2> QED BY <1>4, <1>6, <1>7, <1>8, <2>1, <2>2 DEF IndInv, TypeOK
<1>10. EpochInv' /\ NoClientInv' /\ OneWorkingCredential'
  BY <1>4, <1>6, <1>7 DEF IndInv, EpochInv, NoClientInv, OneWorkingCredential
<1>11. \A r \in Request : InCall(r) => call[r].since \in Nat /\ call[r].since <= changes
  BY DEF IndInv, TypeOK, StampsInv, CallRow, InCall, Resting
<1>12. StampsInv' /\ LateInv'
  BY <1>2, <1>4, <1>7, <1>11 DEF IndInv, StampsInv, LateInv, InCall
<1>13. CreationInv'
  BY <1>4 DEF IndInv, CreationInv, InCall
<1>15. (\A x \in barred : RowsOf(x) = {})'
  <2>1. ASSUME NEW x \in barred', c.kind = "project", c.on = x
        PROVE  RowsOf(x)' = {}
    <3>1. CASE x \in barred
      <4>1. c.access = "none" /\ c.adds = {} /\ RowsOf(x) = {}
        BY <1>1, <1>5, <2>1, <3>1 DEF IndInv, WithdrawnInv, CommandSound
      <4> QED BY <1>4, <4>1 DEF RowsOf
    <3>2. CASE x \notin barred
      <4>1. c.access = "none" /\ c.alone /\ c.adds = {} /\ RowsOf(x) \subseteq c.closes
        BY <1>1, <1>5, <2>1, <3>2 DEF CommandSound
      <4> QED BY <1>4, <4>1 DEF RowsOf
    <3> QED BY <3>1, <3>2
  <2>2. ASSUME NEW x \in barred', ~(c.kind = "project" /\ c.on = x)
        PROVE  RowsOf(x)' = {}
    <3>1. x \in barred
      BY <1>5, <2>2
    <3>2. RowsOf(x) = {} /\ x \in Project
      BY <3>1 DEF IndInv, WithdrawnInv, TypeOK
    <3>3. \A g \in c.adds : ~(g.scope = x /\ g.tool \in ProjectTools)
      BY <1>1, <2>2, <3>2, ProjectAssumption DEF CommandSound
    <3> QED BY <1>4, <3>2, <3>3 DEF RowsOf
  <2> QED BY <2>1, <2>2
<1> QED BY <1>8, <1>9, <1>10, <1>12, <1>13, <1>15 DEF IndInv
\* The initial states satisfy the invariant.
LEMMA PermissionsInit == Init => IndInv
<1> SUFFICES ASSUME Init PROVE IndInv
  OBVIOUS
<1> USE DEF Init
<1>1. Idle \in CommandRow /\ Idle.kind = "idle" /\ Idle.step = "" /\ Idle.adds = {}
  BY DEF Idle, CommandRow, Kind, Scope
<1>2. TypeOK
  <2>1. 0 \in 0..MaxEpoch
    BY MaxEpochAssumption
  <2>2. NoToken \in [state : {"absent", "code", "live", "dead"}, epoch : 0..MaxEpoch, since : 0..MaxEpoch]
    BY <2>1 DEF NoToken
  <2> QED BY <1>1, <2>1, <2>2 DEF TypeOK
<1>3. \A r \in Request : ~InCall(r)
  BY DEF InCall, Resting
<1>4. EpochInv /\ NoClientInv /\ OneWorkingCredential
  BY DEF EpochInv, NoClientInv, OneWorkingCredential, NoClient
<1>5. CommandInv /\ IssuingInv /\ AddsInv /\ WithdrawnInv
  BY <1>1, <1>3 DEF CommandInv, IssuingInv, AddsInv, WithdrawnInv, Progress
<1>6. StampsInv /\ LateInv /\ CreationInv
  BY <1>3 DEF StampsInv, LateInv, CreationInv, NoToken
<1> QED BY <1>2, <1>4, <1>5, <1>6 DEF IndInv

\* Every step keeps it.
LEMMA PermissionsStep == IndInv /\ [Next]_vars => IndInv'
<1> SUFFICES ASSUME IndInv, [Next]_vars PROVE IndInv'
  OBVIOUS
<1>1. CASE UNCHANGED vars
  <2>1. UNCHANGED <<client, rows, cred, file, token, projects, cmd, call, changes, barred, warned>>
    BY <1>1 DEF vars
  <2>2. TypeOK' /\ EpochInv' /\ NoClientInv' /\ CommandInv' /\ IssuingInv' /\ OneWorkingCredential'
    BY <2>1 DEF IndInv, TypeOK, EpochInv, NoClientInv, CommandInv, IssuingInv, OneWorkingCredential
  <2>3. StampsInv' /\ LateInv' /\ CreationInv' /\ AddsInv' /\ WithdrawnInv'
    BY <2>1 DEF IndInv, StampsInv, LateInv, CreationInv, AddsInv, WithdrawnInv, InCall, RowsOf
  <2> QED BY <2>2, <2>3 DEF IndInv
<1>2. ASSUME NEW o \in Operator, Command(o) PROVE IndInv'
  BY <1>2, CommandBegins, CommandGoesOn, CommandIssues, CommandFails, CommandRevokes, CommandSets
     DEF Command
<1>3. CASE OAuth
  BY <1>3, OAuthToken, OAuthRevoke DEF OAuth
<1> QED BY <1>1, <1>2, <1>3, ServeStep DEF Next

\* The safety properties follow: of the calls ...
LEMMA CallsFollow == IndInv => PassedIsCurrent /\ FewStagesAreLate
<1> SUFFICES ASSUME IndInv PROVE PassedIsCurrent /\ FewStagesAreLate
  OBVIOUS
<1>1. PassedIsCurrent
  BY DEF IndInv, StampsInv, PassedIsCurrent
<1>2. ASSUME NEW r \in Request, InCall(r)
      PROVE  call[r].late <= IF call[r].m \in Granting THEN 2 ELSE 1
  <2>1. call[r].late \in 0..2
    BY <1>2 DEF IndInv, TypeOK, CallRow, InCall, Resting
  <2>2. call[r].late = 2 => call[r].m \in Granting
    BY <1>2 DEF IndInv, LateInv
  <2> QED BY <2>1, <2>2
<1> QED BY <1>1, <1>2 DEF FewStagesAreLate

\* ... and of the projects that were withdrawn.
LEMMA WithdrawnFollows == IndInv => WithdrawnStaysWithdrawn
<1> SUFFICES ASSUME IndInv, NEW p \in barred, NEW t \in ProjectTools, Authorized(client.epoch, t, p)
             PROVE  FALSE
  BY DEF WithdrawnStaysWithdrawn
<1>1. PICK g \in rows : g.tool \in {t, "*"} /\ g.scope \in {p, "*"}
  BY AuthorizedNeeds
<1>2. g.tool # "*" /\ g.scope # "*"
  BY <1>1, ProjectAssumption DEF IndInv, TypeOK, Rows, Allow, DefaultTools, Scope
<1> QED BY <1>1, <1>2 DEF IndInv, WithdrawnInv, RowsOf
(***************************************************************************)
(* The policy, for any rows.                                               *)
(***************************************************************************)
Hits(g, tool, scope) == g.tool \in {tool, "*"} /\ g.scope \in {scope, "*"}

\* What it takes to be allowed: no deny among the rows that apply, an allow, and a
\* ceiling high enough in each.
LEMMA WhatIsAllowed ==
    ASSUME NEW c, NEW epoch, NEW grants, NEW tool, NEW scope, NEW s, NEW risk
    PROVE  Decision(c, epoch, grants, tool, scope, s, risk) = "ok" <=>
              /\ c.status = "active" /\ c.epoch = epoch /\ tool \in c.tools /\ scope \in c.scopes
              /\ s \in DOMAIN Rank
              /\ \A g \in grants : Hits(g, tool, scope) => g.effect # "deny"
              /\ \E g \in grants : Hits(g, tool, scope) /\ g.effect = "allow"
              /\ \A g \in grants : Hits(g, tool, scope) /\ g.effect = "allow"
                                     => ~(Rank[s] > Rank[g.ceiling])
              /\ risk \notin ConfirmationRisk /\ risk = "ordinary"
<1> DEFINE matches == Matching(grants, tool, scope)
<1>1. \A g : g \in matches <=> g \in grants /\ Hits(g, tool, scope)
  BY DEF Matching, Hits
<1>2. \A g : g \in Allows(matches) <=> g \in grants /\ Hits(g, tool, scope) /\ g.effect = "allow"
  BY <1>1 DEF Allows
<1>3. (Allows(matches) = {}) <=> \A g : g \notin Allows(matches)
  OBVIOUS
<1> HIDE DEF matches
<1>4. Decision(c, epoch, grants, tool, scope, s, risk) =
         IF c.status = "revoked" THEN "CLIENT_REVOKED"
         ELSE IF c.status # "active" \/ c.epoch # epoch THEN "AUTH_INVALID"
         ELSE IF tool \notin c.tools THEN "TOOL_DENIED"
         ELSE IF scope \notin c.scopes THEN "SCOPE_DENIED"
         ELSE IF s \notin DOMAIN Rank THEN "SENSITIVITY_DENIED"
         ELSE IF \E g \in matches : g.effect = "deny" THEN "TOOL_DENIED"
         ELSE IF Allows(matches) = {} THEN "SCOPE_DENIED"
         ELSE IF \E g \in Allows(matches) : Rank[s] > Rank[g.ceiling] THEN "SENSITIVITY_DENIED"
         ELSE IF risk \in ConfirmationRisk THEN "CONFIRMATION_REQUIRED"
         ELSE IF risk # "ordinary" THEN "VALIDATION_FAILED"
         ELSE "ok"
  BY DEF Decision, matches
<1> QED BY <1>1, <1>2, <1>3, <1>4

\* The same for the inputs of the run.
LEMMA WhatIsAsked ==
    ASSUME NEW grants, NEW c, NEW s \in {"normal", "private"}
    PROVE  Asked(grants, c, s) <=>
              /\ c.status = "active" /\ c.epoch = 1 /\ "domain" \in c.tools /\ "home" \in c.scopes
              /\ \A g \in grants : Hits(g, "domain", "home") => g.effect # "deny"
              /\ \E g \in grants : Hits(g, "domain", "home") /\ g.effect = "allow"
              /\ \A g \in grants : Hits(g, "domain", "home") /\ g.effect = "allow"
                                     => ~(Rank[s] > Rank[g.ceiling])
<1>1. s \in DOMAIN Rank
  BY DEF Rank
<1>2. "ordinary" \notin ConfirmationRisk
  BY DEF ConfirmationRisk
<1> QED BY <1>1, <1>2, WhatIsAllowed DEF Asked

\* A denial outweighs every allowance, and what narrows never opens.
LEMMA PolicyIsClosed == RestrictionsNeverOpen
<1> DEFINE full == [status |-> "active", epoch |-> 1, scopes |-> {"home"}, tools |-> DefaultTools]
<1> SUFFICES ASSUME NEW grants \in PolicyInput, NEW s \in {"normal", "private"}
             PROVE  /\ \A g \in PolicyRow : g.effect = "deny" /\ Asked(grants \cup {g}, full, s)
                                              => Asked(grants, full, s)
                    /\ \A g \in PolicyRow : g.effect = "deny" /\ g.tool # "review.read"
                                              => ~Asked(grants \cup {g}, full, s)
                    /\ ~Asked(grants, [full EXCEPT !.scopes = {}], s)
                    /\ ~Asked(grants, [full EXCEPT !.tools = {"review.read"}], s)
                    /\ Asked({[g EXCEPT !.ceiling = "normal"] : g \in grants}, full, s)
                          => Asked(grants, full, s)
                    /\ Asked(grants, full, s) =>
                          \A g \in grants : Asked({g}, full, s) \/ g.tool = "review.read"
  BY DEF RestrictionsNeverOpen
<1>1. grants \subseteq PolicyRow
  BY DEF PolicyInput
<1>2. Rank["normal"] = 0 /\ Rank["private"] = 2 /\ Rank[s] \in {0, 2}
  BY DEF Rank
<1>3. \A g \in PolicyRow : Rank[g.ceiling] \in {0, 2}
  BY <1>2 DEF PolicyRow
<1>4. ASSUME NEW g \in PolicyRow, g.effect = "deny", Asked(grants \cup {g}, full, s)
      PROVE  Asked(grants, full, s)
  BY <1>4, WhatIsAsked
<1>5. ASSUME NEW g \in PolicyRow, g.effect = "deny", g.tool # "review.read"
      PROVE  ~Asked(grants \cup {g}, full, s)
  BY <1>5, WhatIsAsked DEF PolicyRow, Hits
<1>6. ~Asked(grants, [full EXCEPT !.scopes = {}], s)
  BY WhatIsAsked
<1>7. ~Asked(grants, [full EXCEPT !.tools = {"review.read"}], s)
  BY WhatIsAsked
<1>8. ASSUME Asked({[g EXCEPT !.ceiling = "normal"] : g \in grants}, full, s)
      PROVE  Asked(grants, full, s)
  <2> DEFINE low(g) == [g EXCEPT !.ceiling = "normal"]
             narrowed == {low(g) : g \in grants}
  <2>1. \A g \in grants : /\ low(g) \in narrowed /\ low(g).effect = g.effect
                          /\ low(g).tool = g.tool /\ low(g).scope = g.scope
                          /\ low(g).ceiling = "normal"
    BY <1>1 DEF PolicyRow
  <2>2. \A h \in narrowed : \E g \in grants : h = low(g)
    OBVIOUS
  <2>3. Asked(narrowed, full, s)
    BY <1>8
  <2> HIDE DEF low, narrowed
  <2>4. \A g \in grants : Hits(low(g), "domain", "home") <=> Hits(g, "domain", "home")
    BY <2>1 DEF Hits
  <2>5. /\ \A g \in grants : Hits(g, "domain", "home") => g.effect # "deny"
        /\ \E g \in grants : Hits(g, "domain", "home") /\ g.effect = "allow"
    BY <2>1, <2>2, <2>3, <2>4, WhatIsAsked
  <2>6. \A g \in grants : Hits(g, "domain", "home") /\ g.effect = "allow" => ~(Rank[s] > Rank[g.ceiling])
    <3>1. ~(Rank[s] > 0)
      BY <1>2, <2>1, <2>2, <2>3, <2>4, <2>5, WhatIsAsked
    <3> QED BY <1>1, <1>2, <1>3, <3>1
  <2>7. full.status = "active" /\ full.epoch = 1 /\ "domain" \in full.tools /\ "home" \in full.scopes
    BY DEF DefaultTools
  <2> QED BY <2>5, <2>6, <2>7, WhatIsAsked
<1>9. ASSUME Asked(grants, full, s), NEW g \in grants, g.tool # "review.read"
      PROVE  Asked({g}, full, s)
  <2>1. Hits(g, "domain", "home") /\ g.effect \in {"allow", "deny"}
    BY <1>1, <1>9 DEF PolicyRow, Hits
  <2> QED BY <1>9, <2>1, WhatIsAsked
<1> QED BY <1>4, <1>5, <1>6, <1>7, <1>8, <1>9
(***************************************************************************)
(* The theorems.                                                           *)
(***************************************************************************)
\* The permissions of any client, its calls, tokens and projects: the inductive
\* invariant holds of Authority.
THEOREM PermissionsCorrect == Spec => []IndInv
<1>1. Init => IndInv
  BY PermissionsInit
<1>2. IndInv /\ [Next]_vars => IndInv'
  BY PermissionsStep
<1> QED BY <1>1, <1>2, PTL DEF Spec

\* Governed deletion, for any plans, items and resolutions: the inductive invariant
\* holds of Governance, and with it what the run checks.
THEOREM DeletionsCorrect ==
    G!Spec => [](G!IndInv /\ G!ItemsAreSingleUse /\ G!OneApprovalPerExecution)
<1>1. G!Init => G!IndInv
  BY PlansInit
<1>2. G!IndInv /\ [G!Next]_(G!vars) => G!IndInv'
  BY PlansStep
<1>3. G!IndInv => G!ItemsAreSingleUse /\ G!OneApprovalPerExecution
  BY OneOfEach
<1> QED BY <1>1, <1>2, <1>3, PTL DEF G!Spec

\* One side takes its turn, the other stands still.
WordInv ==
    \/ side = "permissions" /\ IndInv
    \/ side = "deletions" /\ G!IndInv

LEMMA WordInvariant == WordSpec => []WordInv
<1>1. WordInit => WordInv
  BY PermissionsInit, PlansInit DEF WordInit, WordInv
<1>2. WordInv /\ [WordNext]_wordVars => WordInv'
  <2> SUFFICES ASSUME WordInv, [WordNext]_wordVars PROVE WordInv'
    OBVIOUS
  <2>1. side' = side
    BY DEF WordNext, wordVars
  <2>2. CASE side = "permissions"
    <3>1. [Next]_vars
      BY <2>2 DEF WordNext, wordVars
    <3>2. IndInv
      BY <2>2 DEF WordInv
    <3> QED BY <2>1, <2>2, <3>1, <3>2, PermissionsStep DEF WordInv
  <2>3. CASE side = "deletions"
    <3>1. [G!Next]_(G!vars)
      BY <2>3 DEF WordNext, wordVars, planVars, G!vars
    <3>2. G!IndInv
      BY <2>3 DEF WordInv
    <3> QED BY <2>1, <2>3, <3>1, <3>2, PlansStep DEF WordInv
  <2> QED BY <2>2, <2>3 DEF WordInv
<1> QED BY <1>1, <1>2, PTL DEF WordSpec

\* The invariants of the run: of all the resolutions of an item one takes effect, and
\* a plan is executed by exactly one approval and deletes what its preview showed.
THEOREM DeletionsAreApproved == WordSpec => []DeletedAsApproved
<1>1. WordInv => DeletedAsApproved
  BY OneOfEach DEF WordInv, DeletedAsApproved
<1> QED BY <1>1, WordInvariant, PTL

\* A check passes under the permissions that the call started with only: the epochs
\* that commands compute from what they read never bring an old one back.
THEOREM PermissionsStayCurrent == WordSpec => []PermissionsAreCurrent
<1>1. WordInv => PermissionsAreCurrent
  BY CallsFollow DEF WordInv, PermissionsAreCurrent
<1> QED BY <1>1, WordInvariant, PTL

\* Of a call under way when the permissions change at most one more protected stage
\* happens, whatever the method; of create_project and its retries two, the commit of
\* the self-grant and the read after it.
THEOREM FewStagesLate == WordSpec => []FewLateStages
<1>1. WordInv => FewLateStages
  BY CallsFollow DEF WordInv, FewLateStages
<1> QED BY <1>1, WordInvariant, PTL

\* A project whose access was withdrawn stays out of reach until it is granted again,
\* by the operator or by a self-grant for the same project, though self-grants for
\* other projects write back the list of scopes they read before.
THEOREM WithdrawalsStand == WordSpec => []AccessStaysWithdrawn
<1>1. WordInv => AccessStaysWithdrawn
  BY WithdrawnFollows DEF WordInv, AccessStaysWithdrawn
<1> QED BY <1>1, WordInvariant, PTL

\* An active client has one live credential, with its file unless a command reported
\* an error.
THEOREM CredentialsWork == WordSpec => []OneCredential
<1>1. WordInv => OneCredential
  BY DEF WordInv, OneCredential, IndInv
<1> QED BY <1>1, WordInvariant, PTL

\* A denial outweighs every allowance, and no row that narrows opens what was refused.
THEOREM DenialsOutweigh == WordSpec => []DenialsPrevail
<1>1. DenialsPrevail
  BY PolicyIsClosed DEF DenialsPrevail
<1> QED BY <1>1, PTL
=============================================================================

----------------------------- MODULE SelfClaims -----------------------------
(***************************************************************************)
(* The self model: claims about the owner, the evidence attached to them,  *)
(* and the daily jobs that promote, age, contradict and merge them, beside *)
(* the owner's decisions in the review inbox.                              *)
(*                                                                         *)
(* A job reads rows without locking them and updates them by id at its     *)
(* end; between the two the server commits proposals, decisions and        *)
(* deletions.  Topic, polarity and wording are functions of a claim's text *)
(* and likeness of texts is taken to be transitive, as the union-find of   *)
(* the dedupe job makes it.  Days are counted in a unit of the instance.   *)
(***************************************************************************)
EXTENDS Naturals, FiniteSets, FiniteSetsExt

CONSTANTS
    Claim,          \* ids of self_claims rows, each with the text it would have
    Classes,        \* Classes[c]: policy classes under which c may be proposed
    Wording,        \* Wording[c]: equal for duplicates (duplicate_kind)
    Topic,          \* Topic[c]: topic_key of the text
    Negative,       \* Negative[c]: is_negative of the text
    Suspected,      \* pairs whose likeness is in the suspicion band
    RawInput,       \* raw inputs that wait for extraction
    Context,        \* Context[s]: where a raw input, or a proposal, came from
    Worker,
    Resolver,       \* executions of resolve_review_item that approve a merge
    MinSources,     \* 3 in the code
    MinSpan,        \* 14 days
    CandidateAge,   \* 90 days
    EstablishedAge, \* 180 days
    LastDay,        \* bound of the model: the clock stops here
    MaxIncidents    \* bound of the model: see incidents

Pair == {p \in SUBSET Claim : Cardinality(p) = 2}

ASSUME ClaimsAssumption ==
    /\ \A c \in Claim : Classes[c] \subseteq {"A", "B", "C"}
    /\ Suspected \subseteq Pair
    /\ IsFiniteSet(Claim) /\ LastDay \in Nat /\ MaxIncidents \in Nat

VARIABLES
    claim,          \* the self_claims table
    evidence,       \* the evidence table
    extracted,      \* raw inputs with derived content
    profileItem,    \* profile_confirmation item of a claim
    mergeItem,      \* open merge_candidate of a pair: the proposed survivor
    conflictItem,   \* open conflict items of a pair
    conflict,       \* conflicts rows of a pair, by state; by: what the open ones name as
                    \* their candidate claim
    incidents,      \* items opened by clients, claims deleted, jobs failed so far
    now,
    work,           \* what a worker or a resolver is doing
    confirmed       \* observation: claims that the owner approved while pending

items == <<profileItem, mergeItem, conflictItem, conflict, incidents>>
vars == <<claim, evidence, extracted, items, now, work, confirmed>>

-----------------------------------------------------------------------------
NoClaim == [state |-> "absent"]

\* lifecycle_state has no CHECK constraint; "established" is one that no query
\* asks for.
ClaimState ==
    {"candidate", "active", "established", "historical", "expired", "superseded", "deleted"}

\* A proposal is its own source.
Source == Claim \cup RawInput

Row == [class : {"A", "B", "C"}, state : ClaimState,
        establishment : {"candidate", "explicit", "established"},
        pending : BOOLEAN, source : Source, created : 0..LastDay]

Evidence == [claim : Claim, source : Source, day : 0..LastDay]

Idle == [kind |-> "idle"]

Merging == [Claim -> Claim]     \* whose evidence goes where

\* What a job has read and will write.
Job ==
    [kind : {"promote", "retain"}, next : [Claim -> ClaimState \cup {"same"}]]
    \cup [kind : {"conflict"}, stage : 1..2, pairs : SUBSET Pair, live : SUBSET Claim,
          candidates : SUBSET Claim]
    \cup [kind : {"dedupe"}, into : Merging, suspects : SUBSET (Pair \X Claim)]
    \cup [kind : {"merge"}, into : Merging, pair : Pair]
    \cup [kind : {"extract"}, source : RawInput, about : SUBSET Claim, new : BOOLEAN]

RowsOK ==
    /\ claim \in [Claim -> Row \cup {NoClaim}]
    /\ evidence \in SUBSET Evidence
    /\ extracted \in SUBSET RawInput
    /\ profileItem \in [Claim -> {"none", "open", "closed"}]
    /\ mergeItem \in [Pair -> SUBSET Claim]
    /\ incidents \in 0..MaxIncidents
    /\ now \in 0..LastDay
    /\ work \in [Worker \cup Resolver -> Job \cup {Idle}]
    /\ confirmed \in SUBSET Claim

TypeOK ==
    /\ RowsOK
    /\ conflictItem \in [Pair -> 0..2]
    /\ conflict \in [Pair -> [open : 0..2, closed : 0..2, by : SUBSET Claim]]

Init ==
    /\ claim = [c \in Claim |-> NoClaim]
    /\ evidence = {}
    /\ extracted = {}
    /\ profileItem = [c \in Claim |-> "none"]
    /\ mergeItem = [p \in Pair |-> {}]
    /\ conflictItem = [p \in Pair |-> 0]
    /\ conflict = [p \in Pair |-> [open |-> 0, closed |-> 0, by |-> {}]]
    /\ incidents = 0
    /\ now = 0
    /\ work = [a \in Worker \cup Resolver |-> Idle]
    /\ confirmed = {}

TimePasses ==
    /\ now < LastDay
    /\ now' = now + 1
    /\ UNCHANGED <<claim, evidence, extracted, items, work, confirmed>>

-----------------------------------------------------------------------------
Live == {c \in Claim : claim[c].state \in {"candidate", "active", "historical"}}

\* No row has the id, and no job is about to insert it.
Fresh(c) ==
    /\ claim[c] = NoClaim
    /\ \A w \in Worker : work[w].kind = "extract" => ~(work[w].new /\ c \in work[w].about)

\* propose_self_claim: class A takes effect at once; class C waits for the
\* confirmation item created with it.
ProposeSelfClaim(c, class) ==
    /\ Fresh(c)
    /\ claim' = [claim EXCEPT ![c] =
                    [class |-> class, state |-> IF class = "A" THEN "active" ELSE "candidate",
                     establishment |-> "explicit", pending |-> class = "C",
                     source |-> c, created |-> now]]
    /\ profileItem' = [profileItem EXCEPT ![c] = IF class = "C" THEN "open" ELSE @]
    /\ UNCHANGED <<evidence, extracted, mergeItem, conflictItem, conflict, incidents, now, work, confirmed>>

\* create_review_item: a client may open items of its own, about any claims.
CreateReviewItem(p) ==
    /\ incidents < MaxIncidents
    /\ incidents' = incidents + 1
    /\ p \cap {c \in Claim : claim[c] = NoClaim} = {}
    /\ \/ /\ \E c \in p : profileItem[c] # "open" /\ profileItem' = [profileItem EXCEPT ![c] = "open"]
          /\ UNCHANGED <<mergeItem, conflictItem>>
       \/ /\ mergeItem[p] = {}
          /\ \E c \in p : mergeItem' = [mergeItem EXCEPT ![p] = {c}]
          /\ UNCHANGED <<profileItem, conflictItem>>
       \/ /\ conflictItem[p] = 0
          /\ conflictItem' = [conflictItem EXCEPT ![p] = 1]
          /\ UNCHANGED <<profileItem, mergeItem>>
    /\ UNCHANGED <<claim, evidence, extracted, conflict, now, work, confirmed>>

\* The WHERE clause of the activation.
Awaits(c) == claim[c].state = "candidate" /\ claim[c].pending

\* resolve_review_item on a profile_confirmation: approved, or rejected or
\* expired, which leave the claim as it is.
ResolveProfile(c, approved) ==
    /\ profileItem[c] = "open"
    /\ profileItem' = [profileItem EXCEPT ![c] = "closed"]
    /\ LET hit == approved /\ Awaits(c)
       IN  /\ claim' = IF hit THEN [claim EXCEPT ![c].state = "active", ![c].pending = FALSE] ELSE claim
           /\ confirmed' = IF hit THEN confirmed \cup {c} ELSE confirmed
    /\ UNCHANGED <<evidence, extracted, mergeItem, conflictItem, conflict, incidents, now, work>>

\* An open item is resolved once.  Mutant: a closed one may be resolved again.
MayResolveAgain(p) == conflict[p].closed > 0 \/ conflictItem[p] > 0

MayResolve(p) == conflictItem[p] > 0

\* resolve_review_item on a conflict item: either verdict closes the item and
\* the open conflict of the pair.
ResolveConflict(p) ==
    /\ MayResolve(p)
    /\ conflictItem' = [conflictItem EXCEPT ![p] = @ - 1]
    /\ conflict' = [conflict EXCEPT ![p] = [open |-> 0, closed |-> @.closed + @.open, by |-> {}]]
    /\ UNCHANGED <<claim, evidence, extracted, profileItem, mergeItem, incidents, now, work, confirmed>>

\* An approval under way has the item locked.
Locked(p) == \E r \in Resolver : work[r] # Idle /\ work[r].pair = p

RejectMerge(p) ==
    /\ mergeItem[p] # {}
    /\ ~Locked(p)
    /\ mergeItem' = [mergeItem EXCEPT ![p] = {}]
    /\ UNCHANGED <<claim, evidence, extracted, profileItem, conflictItem, conflict, incidents, now,
                   work, confirmed>>

\* An approved deletion plan tombstones the claim, whatever its state.
DeleteClaim(c) ==
    /\ claim[c] # NoClaim
    /\ claim[c].state # "deleted"
    /\ incidents < MaxIncidents
    /\ incidents' = incidents + 1
    /\ claim' = [claim EXCEPT ![c].state = "deleted"]
    /\ UNCHANGED <<evidence, extracted, profileItem, mergeItem, conflictItem, conflict, now, work, confirmed>>

-----------------------------------------------------------------------------
\* A worker or a resolver takes up what it has just read.  A daily job that finds
\* nothing to write is left out: it changes nothing.
Begin(a, job) ==
    /\ work[a] = Idle
    /\ work' = [work EXCEPT ![a] = job]
    /\ UNCHANGED <<claim, evidence, extracted, items, now, confirmed>>

\* The class_c_gate constraint of the table.
Gate(row) ==
    row # NoClaim /\ row.class = "C" /\ ~row.pending =>
        row.state \in {"active", "historical", "superseded", "deleted"}

\* The updates by id, on the rows as they are by now.  A row that breaks the
\* constraint rolls all of them back.
Write(next, establish) ==
    LET new == [c \in Claim |-> IF next[c] = "same" THEN claim[c]
                                ELSE [claim[c] EXCEPT !.state = next[c],
                                        !.establishment = IF c \in establish THEN "established" ELSE @]]
    IN  claim' = IF \A c \in Claim : Gate(new[c]) THEN new ELSE claim

-----------------------------------------------------------------------------
\* promote_candidates.  Mutant: a candidate of any class may be promoted.
PromotableOfAnyClass == {c \in Claim : claim[c].state = "candidate"}

Promotable == {c \in Claim : claim[c].state = "candidate" /\ claim[c].class = "B"}

\* assess_b_promotion over the claims of a group and the evidence attached to
\* them.  Every claim is a direct statement of the user; nothing in the code
\* records evidence that contradicts.
Established(group) ==
    LET E == {e \in evidence : e.claim \in group}
        sources == {claim[c].source : c \in group} \cup {e.source : e \in E}
        days == {claim[c].created : c \in group} \cup {e.day : e \in E}
    IN  /\ Cardinality(sources) >= MinSources
        /\ Cardinality({Context[s] : s \in sources}) >= 2
        /\ Max(days) - Min(days) >= MinSpan

\* The groups by topic and polarity that are promoted.  Whatever its state, an
\* opposite claim under the topic blocks promotion.
Groups ==
    LET group(c) == {d \in Promotable : Topic[d] = Topic[c] /\ Negative[d] = Negative[c]}
    IN  {group(c) : c \in {c \in Promotable :
            /\ \A d \in Claim : claim[d] # NoClaim /\ Topic[d] = Topic[c] => Negative[d] = Negative[c]
            /\ Established(group(c))}}

\* The oldest claim of each group will be promoted.
BeginPromotion(w) ==
    LET oldest(G) == {c \in G : \A d \in G : claim[c].created <= claim[d].created}
    IN \E W \in SUBSET UNION {oldest(G) : G \in Groups} :
          /\ \A G \in Groups : Cardinality(W \cap oldest(G)) = 1
          /\ W # {}
          /\ Begin(w, [kind |-> "promote", next |-> [c \in Claim |-> IF c \in W THEN "active" ELSE "same"]])

CommitPromotion(w) ==
    /\ work[w].kind = "promote"
    /\ Write(work[w].next, {c \in Claim : work[w].next[c] = "active"})
    /\ work' = [work EXCEPT ![w] = Idle]
    /\ UNCHANGED <<evidence, extracted, items, now, confirmed>>

-----------------------------------------------------------------------------
\* retention_sweep: the latest evidence counts, if there is any.
LastSupported(c) ==
    LET E == {e \in evidence : e.claim = c}
    IN  IF E = {} THEN claim[c].created ELSE Max({e.day : e \in E})

\* The handler's `current`, and retention_transition.
RetentionTransition(c) ==
    IF claim[c].state = "candidate"
    THEN IF now - LastSupported(c) > CandidateAge THEN "expired" ELSE "candidate"
    ELSE IF claim[c].establishment = "established"
    THEN IF now - LastSupported(c) > EstablishedAge THEN "historical" ELSE "established"
    ELSE "active"

\* A row whose next state differs from its lifecycle_state will be updated.
BeginRetention(w) ==
    LET moved == {c \in Claim : /\ claim[c].state \in {"candidate", "active"}
                                /\ RetentionTransition(c) # claim[c].state}
    IN  /\ moved # {}
        /\ Begin(w, [kind |-> "retain", next |->
                        [c \in Claim |-> IF c \in moved THEN RetentionTransition(c) ELSE "same"]])

CommitRetention(w) ==
    /\ work[w].kind = "retain"
    /\ Write(work[w].next, {})
    /\ work' = [work EXCEPT ![w] = Idle]
    /\ UNCHANGED <<evidence, extracted, items, now, confirmed>>

-----------------------------------------------------------------------------
\* What a candidate can contradict.
Settled == {c \in Live : claim[c].establishment = "established"
                           \/ (claim[c].class = "A" /\ claim[c].state = "active")}

\* conflict_scan reads the claims, then the open items, then the verdicts.
BeginConflictScan(w) ==
    LET contradicts(c, d) == /\ claim[c].state = "candidate" /\ d \in Settled
                             /\ Topic[c] = Topic[d] /\ Negative[c] # Negative[d]
        pairs == {p \in Pair : \E c, d \in p : contradicts(c, d)}
    IN  /\ pairs # {}
        /\ Begin(w, [kind |-> "conflict", stage |-> 1, live |-> Live, pairs |-> pairs,
                     candidates |-> {c \in Claim : claim[c].state = "candidate"}])

\* Topics that an open item is about, if the claim it names was read.
UnderReview(live) ==
    {Topic[c] : c \in live \cap UNION {p \in Pair : conflictItem[p] > 0}}

OffTopic(p, live) == \A c \in p : Topic[c] \notin UnderReview(live)

Judged(p) == conflict[p].closed > 0

\* Which pairs a read of the scan leaves.  Mutants: the verdicts are read before
\* the items; only the pair of an open item is left out.
LeftSwapped(read, p, live) == IF read = 2 THEN OffTopic(p, live) ELSE ~Judged(p)

LeftByPair(read, p, live) == IF read = 1 THEN conflictItem[p] = 0 ELSE ~Judged(p)

Left(read, p, live) == IF read = 1 THEN OffTopic(p, live) ELSE ~Judged(p)

ReadOpenItems(w) ==
    /\ work[w].kind = "conflict" /\ work[w].stage = 1
    /\ work' = [work EXCEPT ![w].stage = 2,
                            ![w].pairs = {p \in @ : Left(1, p, work[w].live)}]
    /\ UNCHANGED <<claim, evidence, extracted, items, now, confirmed>>

\* The last read, the inserts and the commit.  Under each topic the first candidate
\* that has a pair left raises all its pairs, the ones after it raise none.
CommitConflicts(w) ==
    /\ work[w].kind = "conflict" /\ work[w].stage = 2
    /\ LET free == {p \in work[w].pairs : Left(2, p, work[w].live)}
           raising == {c \in work[w].candidates : \E p \in free : c \in p}
       IN \E C \in SUBSET raising :
             /\ \A c \in raising : \E d \in C : Topic[d] = Topic[c]
             /\ \A c, d \in C : Topic[c] = Topic[d] => c = d
             /\ conflict' = [p \in Pair |->
                   IF p \in free /\ p \cap C # {}
                   THEN [conflict[p] EXCEPT !.open = @ + 1, !.by = @ \cup (p \cap C)]
                   ELSE conflict[p]]
             /\ conflictItem' = [p \in Pair |->
                   IF p \in free /\ p \cap C # {} THEN conflictItem[p] + 1 ELSE conflictItem[p]]
    /\ work' = [work EXCEPT ![w] = Idle]
    /\ UNCHANGED <<claim, evidence, extracted, profileItem, mergeItem, incidents, now, confirmed>>

-----------------------------------------------------------------------------
\* dedupe_claims.  _survivor_rank: established or active claims win, then the
\* better evidenced, then the older.
Rank(c) ==
    <<IF claim[c].establishment = "established" \/ claim[c].state = "active" THEN 0 ELSE 1,
      Cardinality(evidence) - Cardinality({e \in evidence : e.claim = c}), claim[c].created>>

Before(r, q) ==
    \/ r[1] < q[1]
    \/ r[1] = q[1] /\ r[2] < q[2]
    \/ r[1] = q[1] /\ r[2] = q[2] /\ r[3] < q[3]

\* The claims of a set that may survive a merge of it; ids break the ties.
Best(G) == {c \in G : \A d \in G : ~Before(Rank(d), Rank(c))}

\* duplicate_kind: opposite polarity is never a duplicate.
Duplicates(c) == {d \in Live : Wording[d] = Wording[c] /\ Negative[d] = Negative[c]}

\* Duplicates will be superseded by their survivor.  A suspected pair will get
\* one item, unless one of the two is in an open item already.
BeginDedupe(w) ==
    LET claimed == UNION {p \in Pair : mergeItem[p] # {}}
        free == {p \in Suspected : p \subseteq Live /\ p \cap claimed = {}}
        into(W) == [c \in Claim |-> IF c \in Live THEN CHOOSE d \in W : d \in Duplicates(c) ELSE c]
    IN \E W \in SUBSET Live, P \in SUBSET free :
          /\ W # Live \/ P # {}
          /\ \A c \in Live : \E d \in Best(Duplicates(c)) : W \cap Duplicates(c) = {d}
          /\ \A p, q \in P : p # q => p \cap q = {}
          /\ \A p \in free : \E q \in P : p \cap q # {}
          /\ \E best \in [P -> Claim] :
                /\ \A p \in P : best[p] \in Best(p)
                /\ Begin(w, [kind |-> "dedupe", into |-> into(W), suspects |-> {<<p, best[p]>> : p \in P}])

\* Evidence of a merged claim goes to its survivor, the claim is superseded.
Merge(into) ==
    /\ evidence' = {[e EXCEPT !.claim = into[e.claim]] : e \in evidence}
    /\ Write([c \in Claim |-> IF into[c] # c THEN "superseded" ELSE "same"], {})

CommitDedupe(w) ==
    /\ work[w].kind = "dedupe"
    /\ Merge(work[w].into)
    /\ mergeItem' = [p \in Pair |-> mergeItem[p] \cup {c \in p : <<p, c>> \in work[w].suspects}]
    /\ work' = [work EXCEPT ![w] = Idle]
    /\ UNCHANGED <<extracted, profileItem, conflictItem, conflict, incidents, now, confirmed>>

\* The approval of a merge_candidate: it locks the item, reads the claims, and
\* changes nothing unless both are live.
BeginMerge(r, p) ==
    /\ ~Locked(p)
    /\ \E survivor \in mergeItem[p] :
          Begin(r, [kind |-> "merge", pair |-> p,
                    into |-> [c \in Claim |-> IF c \in p /\ p \subseteq Live THEN survivor ELSE c]])

\* _merge_claims and the commit of the approval.
CommitMerge(r) ==
    /\ work[r].kind = "merge"
    /\ Merge(work[r].into)
    /\ mergeItem' = [mergeItem EXCEPT ![work[r].pair] = {}]
    /\ work' = [work EXCEPT ![r] = Idle]
    /\ UNCHANGED <<extracted, profileItem, conflictItem, conflict, incidents, now, confirmed>>

-----------------------------------------------------------------------------
\* extract_raw_input: the model finds nothing usable in the raw input, or the
\* text of a claim (the code takes up to five).  A duplicate of a live claim will
\* become evidence for that claim, anything else a new candidate.
BeginExtraction(w, s) ==
    /\ s \notin extracted
    /\ \/ Begin(w, [kind |-> "extract", source |-> s, about |-> {}, new |-> FALSE])
       \/ \E c \in Claim :
             \/ \E d \in Duplicates(c) :
                   Begin(w, [kind |-> "extract", source |-> s, about |-> {d}, new |-> FALSE])
             \/ /\ Duplicates(c) = {}
                /\ Fresh(c)
                /\ Begin(w, [kind |-> "extract", source |-> s, about |-> {c}, new |-> TRUE])

CommitExtraction(w) ==
    /\ work[w].kind = "extract"
    /\ extracted' = extracted \cup {work[w].source}
    /\ evidence' = evidence \cup {[claim |-> c, source |-> work[w].source, day |-> now] : c \in work[w].about}
    /\ claim' = [c \in Claim |-> IF c \in work[w].about /\ work[w].new
                    THEN [class |-> "B", state |-> "candidate", establishment |-> "candidate",
                          pending |-> FALSE, source |-> work[w].source, created |-> now]
                    ELSE claim[c]]
    /\ work' = [work EXCEPT ![w] = Idle]
    /\ UNCHANGED <<items, now, confirmed>>

\* A job fails, or its worker crashes; an approval is rolled back.
Abort(a) ==
    /\ work[a] # Idle
    /\ incidents < MaxIncidents
    /\ incidents' = incidents + 1
    /\ work' = [work EXCEPT ![a] = Idle]
    /\ UNCHANGED <<claim, evidence, extracted, profileItem, mergeItem, conflictItem, conflict, now, confirmed>>

-----------------------------------------------------------------------------
Server ==
    \/ \E c \in Claim : \/ \E k \in Classes[c] : ProposeSelfClaim(c, k)
                        \/ \E d \in BOOLEAN : ResolveProfile(c, d)
                        \/ DeleteClaim(c)
    \/ \E p \in Pair : \/ CreateReviewItem(p) \/ ResolveConflict(p) \/ RejectMerge(p)
                       \/ \E r \in Resolver : BeginMerge(r, p)
    \/ \E r \in Resolver : CommitMerge(r)

StartJob(w) ==
    \/ BeginPromotion(w) \/ BeginRetention(w) \/ BeginConflictScan(w) \/ BeginDedupe(w)
    \/ \E s \in RawInput : BeginExtraction(w, s)

Step(w) ==
    \/ CommitPromotion(w) \/ CommitRetention(w)
    \/ ReadOpenItems(w) \/ CommitConflicts(w)
    \/ CommitDedupe(w) \/ CommitExtraction(w)

Next ==
    \/ TimePasses
    \/ Server
    \/ \E w \in Worker : StartJob(w) \/ Step(w)
    \/ \E a \in Worker \cup Resolver : Abort(a)

Spec == Init /\ [][Next]_vars

\* Time goes on, a worker finishes what it started, and the daily sweep is
\* among what it starts.
FairSpec ==
    /\ Spec
    /\ WF_vars(TimePasses)
    /\ \A w \in Worker : WF_vars(Step(w)) /\ SF_vars(BeginRetention(w))

-----------------------------------------------------------------------------
\* "A verdict the owner already gave is final" (conflict_scan): a pair that was
\* judged, even while a scan was under way, is never raised again.
VerdictIsFinal ==
    \A p \in Pair : conflict[p].open + conflict[p].closed <= 1

SameTopics(p, q) == {Topic[c] : c \in p} = {Topic[c] : c \in q}

\* A topic is under review for one candidate at a time: open conflicts of a topic name
\* the same candidate, whatever happened to the claims since, unless all claims of one
\* of them are gone.
OneCandidatePerTopic ==
    \A p, q \in Pair :
        conflict[p].open > 0 /\ conflict[q].open > 0 /\ SameTopics(p, q)
        => \/ conflict[p].by = conflict[q].by
           \/ p \cap Live = {} \/ q \cap Live = {}

\* "One conflict item per contradicting topic": the code does not keep it.  A candidate
\* that contradicts two settled claims of a topic has two conflicts, with an item each,
\* in one scan (README, Deviations).
OneConflictPerTopic ==
    \A p, q \in Pair :
        p # q /\ conflict[p].open > 0 /\ conflict[q].open > 0 /\ SameTopics(p, q)
        => p \cap Live = {} \/ q \cap Live = {}

\* "A class-C claim still cannot reach active without its confirmation"
\* (migration 0014), whatever jobs promote, age or merge meanwhile.
ConfirmedByOwner ==
    \A c \in Claim :
        claim[c] # NoClaim /\ claim[c].class = "C"
            /\ claim[c].state \in {"active", "established", "historical"} => c \in confirmed

\* "Established memories become historical after 180 days" (evolution.py): the
\* code does not keep it.  The sweep writes "established" into lifecycle_state,
\* where neither it nor any reader finds the claim again.
EstablishedBecomeHistorical ==
    \A c \in Claim :
        (/\ claim[c] # NoClaim
         /\ claim[c].state \in {"active", "established"}
         /\ claim[c].establishment = "established"
         /\ now - LastSupported(c) > EstablishedAge)
        ~> claim[c].state \in {"historical", "superseded", "deleted"}

\* A deleted claim stays deleted.  The code does not keep it: a job that read
\* the row before the deletion writes its own state over it (README, Deviations).
DeletedStaysDeleted ==
    [][\A c \in Claim : claim[c].state = "deleted" => claim'[c].state = "deleted"]_vars

\* The owner's merge takes all evidence along.  The code does not keep it: an
\* extraction that read the claim before attaches evidence to it afterwards
\* (README, Deviations).
MergedHasNoEvidence ==
    \A e \in evidence : claim[e.claim].state # "superseded"

-----------------------------------------------------------------------------
\* The rows that a job or an approval will update, and those it will insert.
Updates(a) ==
    IF work[a].kind \in {"promote", "retain"} THEN {c \in Claim : work[a].next[c] # "same"}
    ELSE IF work[a].kind \in {"dedupe", "merge"} THEN {c \in Claim : work[a].into[c] # c}
    ELSE {}

Inserts(a) == IF work[a].kind = "extract" THEN {c \in work[a].about : work[a].new} ELSE {}

Existing == {c \in Claim : claim[c] # NoClaim}

\* Daily jobs are a worker's; what is updated exists, and an id is given out once.
WorkInv ==
    \A a \in Worker \cup Resolver :
        /\ work[a].kind \in {"promote", "retain", "conflict", "extract"} => a \in Worker
        /\ Updates(a) \subseteq Existing
        /\ Inserts(a) \cap Existing = {}
        /\ \A w \in Worker \ {a} : Inserts(a) \cap Inserts(w) = {}

\* What will make a claim of class C active, or keep it so, has its confirmation.
ConsentInv ==
    \A a \in Worker \cup Resolver, c \in Claim :
        /\ work[a].kind \in {"promote", "retain"}
        /\ work[a].next[c] \in {"active", "established", "historical"}
        /\ claim[c].class = "C"
        => c \in confirmed

\* The inductive invariant of the claims, with any number of workers.
ClaimsInv == RowsOK /\ WorkInv /\ ConsentInv /\ ConfirmedByOwner

\* The claims that are live, or that a job has read as live and will write.
Alive ==
    Live \cup {c \in Claim : \E w \in Worker :
                  work[w].kind \in {"promote", "retain"} /\ c \in Updates(w)}

\* A conflict that is open has an item that is, and was raised about claims that exist.
OpenInv ==
    \A p \in Pair : IF conflict[p].open > 0 THEN conflictItem[p] > 0 /\ p \subseteq Existing
                    ELSE conflict[p].by = {}

\* As OneCandidatePerTopic, with the claims that a job may make live again.
TopicsInv ==
    \A p, q \in Pair :
        conflict[p].open > 0 /\ conflict[q].open > 0 /\ SameTopics(p, q)
        => \/ conflict[p].by = conflict[q].by
           \/ p \cap Alive = {} \/ q \cap Alive = {}

\* A scan knows every claim under review that may yet be live; a pair left by its
\* second read shares no topic with an open conflict about any claim it knows.
ScanInv ==
    \A w \in Worker : work[w].kind = "conflict" =>
        /\ work[w].live \subseteq Existing
        /\ \A p \in work[w].pairs :
              p \subseteq work[w].live /\ \A c, d \in p : Topic[c] = Topic[d]
        /\ \A q \in Pair : conflict[q].open > 0 => q \cap Alive \subseteq work[w].live
        /\ work[w].stage = 2 =>
              \A p \in work[w].pairs :
                 /\ conflictItem[p] <= 1
                 /\ \A q \in Pair : conflict[q].open > 0 /\ SameTopics(p, q) =>
                       q \cap work[w].live = {}

\* The inductive invariant of the conflicts, with one worker.
ConflictsInv ==
    ClaimsInv /\ TypeOK /\ OpenInv /\ TopicsInv /\ ScanInv /\ VerdictIsFinal
=============================================================================

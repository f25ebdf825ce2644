------------------------------ MODULE MCReview ------------------------------
(***************************************************************************)
(* The review inbox: the claims of the self model, whose confirmations,    *)
(* conflicts and merges wait in it, and the notices that tell the owner of *)
(* items.  The two share no row but the item's, which notices only look    *)
(* at, so one run takes the behaviours of each in turn: `desk' says whose  *)
(* turn it is, and the variables of the other are 0.                       *)
(***************************************************************************)
EXTENDS SelfClaims, TLC

CONSTANTS
    same1, same2, other, s1,                                            \* claims and a raw input
    Item, Health, Sender, MaxRuns, Cooldown, DayLength, MaxTick, MaxNotices     \* module Notices

\* Items, health checks and dispatch jobs are jobs of their own; a job has a run.
ASSUME NoticesAssumption ==
    /\ Item \cap Health = {} /\ (Item \cup Health) \cap (1..MaxNotices) = {}
    /\ MaxRuns \in Nat \ {0} /\ DayLength \in Nat \ {0}
    /\ Cooldown \in Nat /\ MaxTick \in Nat /\ MaxNotices \in Nat

\* Compose starts one worker.
ASSUME OneWorker == \A v, w \in Worker : v = w

VARIABLES desk, tick, open, notices, job, run

N == INSTANCE Notices WITH Worker <- Sender

noticeVars == <<tick, open, notices, job, run>>

reviewVars == <<vars, noticeVars, desk>>

\* Two claims that say the same and one that says the opposite.
MCClasses == same1 :> {"B"} @@ same2 :> {"B"} @@ other :> {"A", "C"}

MCWording == [c \in Claim |-> 1]

MCTopic == [c \in Claim |-> 1]

MCNegative == [c \in Claim |-> c = other]

MCContext == [s \in Source |-> IF s \in RawInput THEN 3 ELSE IF s = same2 THEN 2 ELSE 1]

Off(x, y, z) == x = 0 /\ y = 0 /\ z = 0

NoClaims ==
    /\ Off(claim, evidence, extracted) /\ Off(profileItem, mergeItem, conflictItem)
    /\ Off(conflict, incidents, now) /\ Off(work, confirmed, confirmed)

NoNotices == Off(tick, open, notices) /\ Off(job, run, run)

ReviewInit ==
    \/ desk = "claims" /\ Init /\ NoNotices
    \/ desk = "notices" /\ N!Init /\ NoClaims

ReviewNext ==
    /\ UNCHANGED desk
    /\ \/ desk = "claims" /\ Next /\ UNCHANGED noticeVars
       \/ desk = "notices" /\ N!Next /\ UNCHANGED vars

ReviewSpec == ReviewInit /\ [][ReviewNext]_reviewVars

\* Items are interchangeable, and so are the workers that send notices.
Symmetry == Permutations(Item) \cup Permutations(Sender)

\* Bound of the model: one item while time passes and health is checked, else two.
ItemsOrHealth ==
    \/ desk # "notices"
    \/ \E i \in Item : job[i].runs = 0 /\ i \in open
    \/ tick = 0 /\ \A h \in Health : job[h].runs = 0

\* A pair of claims that was judged, even while a scan was under way, is never raised
\* again.
VerdictsAreFinal == desk = "claims" => VerdictIsFinal

\* The open conflicts of a topic are about one candidate, unless all claims of one of
\* them are gone.  Checked with the inductive invariants of both desks.
OneCandidateReviewed ==
    IF desk = "notices" THEN N!IndInv ELSE ConflictsInv /\ OneCandidatePerTopic

\* A claim of class C is not active without its confirmation, whatever jobs promote,
\* age or merge meanwhile.
ConfirmedByTheOwner == desk = "claims" => ConfirmedByOwner

\* Two notices with one key are a cooldown apart, or come from runs that overlapped.
RepeatsOverlap == desk = "notices" => N!RepeatsOverlap

\* An item whose job succeeded has a notice, and a notice is delivered once its
\* dispatch is over.
OwnerLearns == desk = "notices" => N!OwnerLearns
=============================================================================

---------------------------- MODULE MCAuthority ----------------------------
(***************************************************************************)
(* What takes the owner's word: permissions, given and withdrawn at a      *)
(* terminal while calls run, and deletions, approved in the review inbox.  *)
(* The two share no row, so one run takes the behaviours of each in turn:  *)
(* `side' says whose turn it is, and the variables of the other are 0.     *)
(***************************************************************************)
EXTENDS Authority, TLC

CONSTANTS Doomed, Fact, Plan, Item, Resolution      \* module Governance

\* One terminal at a time: two lose an epoch (README, Deviations).
ASSUME OneTerminal == \A o, p \in Operator : o = p

VARIABLES
    side,
    deleted, fact, checked, plan, item, due, itemLock, planLock, pc, want, answer

G == INSTANCE Governance WITH Project <- Doomed, Request <- Resolution

planVars == <<deleted, fact, checked, plan, item, due, itemLock, planLock, pc, want, answer>>

wordVars == <<vars, planVars, side>>

Off(a, b, c, d) == a = 0 /\ b = 0 /\ c = 0 /\ d = 0

NoAuthority ==
    /\ Off(client, rows, cred, file) /\ Off(token, projects, cmd, call)
    /\ Off(changes, barred, warned, warned)

NoPlans ==
    /\ Off(deleted, fact, checked, plan) /\ Off(item, due, itemLock, planLock)
    /\ Off(pc, want, answer, answer)

WordInit ==
    \/ side = "permissions" /\ Init /\ NoPlans
    \/ side = "deletions" /\ G!Init /\ NoAuthority

WordNext ==
    /\ UNCHANGED side
    /\ \/ side = "permissions" /\ Next /\ UNCHANGED planVars
       \/ side = "deletions" /\ G!Next /\ UNCHANGED vars

WordSpec == WordInit /\ [][WordNext]_wordVars

\* Bound of the model: rotations, OAuth grants and the tools of no project are explored
\* before there is one, projects with the one credential of the provisioning.
BearersOrProjects ==
    side = "permissions" =>
    \/ projects = {}
    \/ /\ \A t \in Token : token[t] = NoToken
       /\ Cardinality({k \in Cred : ~Fresh(k)}) = 1
       /\ \A r \in Request : InCall(r) => call[r].m \in Granting \/ call[r].m.on = "project"

\* Projects are interchangeable and double as plans, so are credentials, which double
\* as items, and resolutions.
Symmetry ==
    Permutations(Project \cap Plan) \cup Permutations(Cred \cap Item)
        \cup Permutations(Resolution)

\* Every variable has its type. Of all the resolutions of a confirmation item at most
\* one takes effect, a plan is executed by exactly one approval, and what it deletes
\* is what its preview showed, all of it and no fact recorded since.
DeletedAsApproved ==
    IF side = "permissions"
    THEN IndInv
    ELSE /\ G!IndInv
         /\ G!ItemsAreSingleUse
         /\ G!OneApprovalPerExecution

\* A check passes only under the permissions that the call, or its OAuth grant,
\* started with: an epoch that was left behind never comes back.
PermissionsAreCurrent == side = "permissions" => PassedIsCurrent

\* Of a call under way when the permissions change at most one more protected stage
\* happens, of create_project and its retries two.
FewLateStages == side = "permissions" => FewStagesAreLate

\* Access that the operator withdrew stays withdrawn until it is granted again,
\* though self-grants for other projects write back scopes that they read before.
AccessStaysWithdrawn == side = "permissions" => WithdrawnStaysWithdrawn

\* An active client has one live credential, whose file was delivered, unless a
\* rotation reported an error.
OneCredential == side = "permissions" => OneWorkingCredential

\* The policy is closed by default: a denial outweighs every allowance, and no row
\* that narrows opens what was refused.
DenialsPrevail == side = "permissions" => RestrictionsNeverOpen
=============================================================================

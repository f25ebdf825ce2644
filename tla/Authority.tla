----------------------------- MODULE Authority -----------------------------
(***************************************************************************)
(* The authority of one client: its row, credentials, OAuth grants and     *)
(* permission rows, the operator commands that change them, and the tool   *)
(* calls that run under them (PersistedAuthority, OAuthBearerAuthority,    *)
(* PersistedOAuthGrantStore, OAuthServer, the policy, the operator         *)
(* commands of admin.py and AuthorizedToolService).                        *)
(*                                                                         *)
(* A call authenticates once and takes the permission epoch it found along.*)
(* Before, between and after its protected stages it asks the policy       *)
(* again, each time in a session of its own.  An operator command reads    *)
(* the client row and writes whole lists and a new epoch from what it      *)
(* read; so does the grant that create_project makes to its caller, which  *)
(* leaves the epoch alone.  Clients share no rows, one of them is enough.  *)
(*                                                                         *)
(* The content scopes that every client is given at its provisioning are   *)
(* one scope, "home", and the tools that work on them one tool, "domain".  *)
(***************************************************************************)
EXTENDS Naturals, Sequences, FiniteSets

CONSTANTS
    Operator,   \* terminals of the owner
    Request,    \* tool calls
    Project,    \* ids of projects
    Cred,       \* ids of credentials
    Token,      \* ids of OAuth grants
    MaxEpoch    \* bound of the model: permission epochs

ASSUME MaxEpochAssumption == MaxEpoch \in Nat \ {0}

\* Projects have ids that are neither the content scope nor a pattern.
ASSUME ProjectAssumption == Project \cap {"home", "*"} = {}

VARIABLES
    client,     \* the row of the client
    rows,       \* its open rows of permission_grants
    cred,       \* rows of credentials: "absent", "live" or "revoked"
    file,       \* credentials whose file exists
    token,      \* authorization codes and the rows of oauth_grants made of them
    projects,   \* committed projects
    cmd,        \* the command that a terminal runs
    call,       \* the calls
    changes,    \* observation: committed permission changes of the operator
    barred,     \* observation: projects whose access was withdrawn and not granted since
    warned      \* observation: a rotation ended with an error

vars == <<client, rows, cred, file, token, projects, cmd, call, changes,
          barred, warned>>

-----------------------------------------------------------------------------
(***************************************************************************)
(* The policy.                                                             *)
(***************************************************************************)
Scope == {"home"} \cup Project

Rank == [normal |-> 0, personal |-> 1, private |-> 2, highly_private |-> 3]

ConfirmationRisk ==
    {"high_risk_deletion", "new_recipient_external_communication", "class_c_mutation",
     "broad_permission_change", "destructive_maintenance"}

\* Patterns match exactly, or by an explicit "*".
Matching(grants, tool, scope) ==
    {g \in grants : g.tool \in {tool, "*"} /\ g.scope \in {scope, "*"}}

Allows(grants) == {g \in grants : g.effect = "allow"}

\* Mutant: a deny is looked at only where nothing allows.
DecisionAllowFirst(c, epoch, grants, tool, scope, sensitivity, risk) ==
    LET matches == Matching(grants, tool, scope)
    IN  IF c.status # "active" \/ c.epoch # epoch THEN "AUTH_INVALID"
        ELSE IF tool \notin c.tools \/ scope \notin c.scopes THEN "SCOPE_DENIED"
        ELSE IF Allows(matches) = {} THEN "SCOPE_DENIED"
        ELSE IF \A g \in Allows(matches) : Rank[sensitivity] > Rank[g.ceiling]
             THEN "SENSITIVITY_DENIED"
        ELSE IF risk # "ordinary" THEN "CONFIRMATION_REQUIRED" ELSE "ok"

\* authorize of the policy: the first objection, or "ok".
Decision(c, epoch, grants, tool, scope, sensitivity, risk) ==
    LET matches == Matching(grants, tool, scope)
    IN  IF c.status = "revoked" THEN "CLIENT_REVOKED"
        ELSE IF c.status # "active" \/ c.epoch # epoch THEN "AUTH_INVALID"
        ELSE IF tool \notin c.tools THEN "TOOL_DENIED"
        ELSE IF scope \notin c.scopes THEN "SCOPE_DENIED"
        ELSE IF sensitivity \notin DOMAIN Rank THEN "SENSITIVITY_DENIED"
        ELSE IF \E g \in matches : g.effect = "deny" THEN "TOOL_DENIED"
        ELSE IF Allows(matches) = {} THEN "SCOPE_DENIED"
        ELSE IF \E g \in Allows(matches) : Rank[sensitivity] > Rank[g.ceiling]
             THEN "SENSITIVITY_DENIED"
        ELSE IF risk \in ConfirmationRisk THEN "CONFIRMATION_REQUIRED"
        ELSE IF risk # "ordinary" THEN "VALIDATION_FAILED"
        ELSE "ok"

\* The row that commands and self-grants insert.
Allow(tool, scope) ==
    [effect |-> "allow", tool |-> tool, scope |-> scope, ceiling |-> "private"]

\* PersistedAuthority.authorize on the committed rows.
Authorized(epoch, tool, scope) ==
    Decision(client, epoch, rows, tool, scope, "private", "ordinary") = "ok"

-----------------------------------------------------------------------------
(***************************************************************************)
(* The methods of the tool service: the tool and the kind of scope that    *)
(* their checks name, and the stages they run through.                     *)
(*   check    authorize                                                    *)
(*   fence    authorize as pre_commit, inside the open transaction         *)
(*   commit   the transaction commits                                      *)
(*   read     protected data are read                                      *)
(*   call     evidence leaves for the model provider                       *)
(*   resolve  the project of a task is looked up                           *)
(*   grant, granted   grant_project_scope reads, then commits              *)
(***************************************************************************)
Fenced == <<"check", "fence", "commit", "check">>

Guarded == <<"check", "read", "check">>

RecordWrite == [tool |-> "domain", on |-> "home", plan |-> Fenced]

RecordRead == [tool |-> "domain", on |-> "home", plan |-> Guarded]

\* complete_todo, update_note, delete_todo and correct_expense are checked alike, and
\* so is propose_self_claim.
CorrectRecord == RecordWrite

ProposeSelfClaim == RecordWrite

OperationStatus == RecordRead

SearchBrain == [tool |-> "domain", on |-> "home", plan |-> Guarded]

\* The scope is the card's own, known only once the card was read.
EntryContent == [tool |-> "domain", on |-> "home", plan |-> <<"read", "check">>]

\* Mutant: no check between the search and the provider.
AnswerBrainUnchecked ==
    [tool |-> "domain", on |-> "home", plan |-> <<"check", "read", "call", "check">>]

AnswerBrain ==
    [tool |-> "domain", on |-> "home", plan |-> <<"check", "read", "check", "call", "check">>]

\* Nothing found: the answer needs neither the provider nor another check.
AnswerBrainEmpty == [tool |-> "domain", on |-> "home", plan |-> <<"check", "read">>]

BrainContext == [tool |-> "domain", on |-> "home", plan |-> Guarded]

CreateProject ==
    [tool |-> "project.write", on |-> "home",
     plan |-> Fenced \o <<"grant", "granted", "read">>]

\* A retry reads the outcome under its key, and grants the project again.
ReplayCreateProject ==
    [tool |-> "project.write", on |-> "home",
     plan |-> Guarded \o <<"grant", "granted", "read">>]

\* The methods that grant a project to their caller, after their last check.
Granting == {CreateProject, ReplayCreateProject}

ListProjects == [tool |-> "project.read", on |-> "home", plan |-> Guarded]

RecordProjectFact == [tool |-> "project.write", on |-> "project", plan |-> Fenced]

StartTask == RecordProjectFact

CheckpointTask ==
    [tool |-> "project.write", on |-> "project", plan |-> <<"resolve">> \o Fenced]

FinalizeTask == CheckpointTask

\* sync_workspace hands no pre_commit to the store.
SyncWorkspace ==
    [tool |-> "project.write", on |-> "project", plan |-> <<"check", "commit", "check">>]

ProjectContext == [tool |-> "project.read", on |-> "project", plan |-> Guarded]

SearchProject == ProjectContext

ResolveReviewItem == [tool |-> "review.write", on |-> "home", plan |-> Fenced]

ListReviewItems == [tool |-> "review.read", on |-> "home", plan |-> Guarded]

GetDeletionPlan == ListReviewItems

\* In the name of a project, as far as the creator's grant goes.
CreateReviewItem == [tool |-> "review.write", on |-> "project", plan |-> Fenced]

CreateDeletionPlan == CreateReviewItem

UploadAsset == [tool |-> "domain", on |-> "home", plan |-> Fenced]

Method ==
    {RecordWrite, CorrectRecord, ProposeSelfClaim, RecordRead, OperationStatus,
     SearchBrain, EntryContent, AnswerBrain, AnswerBrainEmpty, BrainContext,
     CreateProject, ReplayCreateProject, ListProjects, RecordProjectFact, StartTask, CheckpointTask,
     FinalizeTask, SyncWorkspace, ProjectContext, SearchProject, ResolveReviewItem,
     ListReviewItems, GetDeletionPlan, CreateReviewItem, CreateDeletionPlan, UploadAsset}

\* The scope that the checks name.
ScopeOf(m, p) == IF m.on = "home" THEN "home" ELSE p

-----------------------------------------------------------------------------
DefaultTools ==
    {"domain", "project.read", "project.write", "review.read", "review.write"}

ProjectTools == {"project.read", "project.write"}

CreatorTools == {"project.read", "project.write", "review.write"}

ReviewTools == {"review.read", "review.write"}

NoClient == [status |-> "absent", epoch |-> 0, scopes |-> {}, tools |-> {}]

ClientRow ==
    [status : {"active", "revoked"}, epoch : 1..MaxEpoch,
     scopes : SUBSET Scope, tools : SUBSET DefaultTools]

Rows == {Allow(t, s) : t \in DefaultTools, s \in Scope}

\* "live" carries the epoch it was issued at; since is an observation.
NoToken == [state |-> "absent", epoch |-> 0, since |-> 0]

DeadToken == [NoToken EXCEPT !.state = "dead"]

Kind == {"idle", "provision", "rotate", "revoke", "project", "review"}

\* What a command works with: its target, the wanted access, the credential it
\* issues, the client row it read and the rows that it closes and inserts; alone
\* observes that no self-grant for its project committed since it closed rows.
Idle == [kind |-> "idle", step |-> "", on |-> "home", access |-> "none",
         k |-> "none", row |-> NoClient, closes |-> {}, adds |-> {}, alone |-> FALSE]

CommandRow ==
    [kind : Kind, step : {"", "deliver", "commit", "rows", "update"}, on : Scope,
     access : {"none", "read", "write"}, k : Cred \cup {"none"},
     row : ClientRow \cup {NoClient}, closes : SUBSET Rows, adds : SUBSET Rows,
     alone : BOOLEAN]

Resting == [at |-> 0]

CallRow ==
    [m : Method, p : Scope, at : 1..8, epoch : 1..MaxEpoch, since : 0..MaxEpoch,
     passed : 0..MaxEpoch, late : 0..2, scopes : SUBSET Scope, tools : SUBSET DefaultTools,
     adds : SUBSET Rows]

\* The next stage of a call, "answered" at its end.
StageOf(c) == IF c.at > Len(c.m.plan) THEN "answered" ELSE c.m.plan[c.at]

InCall(r) == call[r].at > 0

TypeOK ==
    /\ client \in ClientRow \cup {NoClient}
    /\ rows \in SUBSET Rows
    /\ cred \in [Cred -> {"absent", "live", "revoked"}]
    /\ file \in SUBSET Cred
    /\ token \in [Token -> [state : {"absent", "code", "live", "dead"},
                             epoch : 0..MaxEpoch, since : 0..MaxEpoch]]
    /\ projects \in SUBSET Project
    /\ cmd \in [Operator -> CommandRow]
    /\ call \in [Request -> CallRow \cup {Resting}]
    /\ changes \in 0..MaxEpoch
    /\ barred \in SUBSET Project
    /\ warned \in BOOLEAN

Init ==
    /\ client = NoClient
    /\ rows = {}
    /\ cred = [k \in Cred |-> "absent"]
    /\ file = {}
    /\ token = [t \in Token |-> NoToken]
    /\ projects = {}
    /\ cmd = [o \in Operator |-> Idle]
    /\ call = [r \in Request |-> Resting]
    /\ changes = 0
    /\ barred = {}
    /\ warned = FALSE

-----------------------------------------------------------------------------
(***************************************************************************)
(* Operator commands.                                                      *)
(***************************************************************************)
Start(o, c) ==
    /\ cmd[o] = Idle
    /\ client.epoch < MaxEpoch
    /\ cmd' = [cmd EXCEPT ![o] = c]
    /\ UNCHANGED <<client, rows, cred, file, token, projects, call, changes, barred,
                   warned>>

Proceed(o, step) == cmd' = [cmd EXCEPT ![o].step = step]

Finish(o) == cmd' = [cmd EXCEPT ![o] = Idle]

Fresh(k) == cred[k] = "absent" /\ k \notin file /\ \A o \in Operator : cmd[o].k # k

\* provision_client looks for the name among the clients and issues a credential.
StartProvision(o, k) ==
    /\ client = NoClient
    /\ Fresh(k)
    /\ Start(o, [Idle EXCEPT !.kind = "provision", !.step = "deliver", !.k = k])

\* rotate_client_credential reads the row; issue_credential refuses a client
\* that is not active.
StartRotate(o, k) ==
    /\ client.status = "active"
    /\ Fresh(k)
    /\ Start(o, [Idle EXCEPT !.kind = "rotate", !.step = "deliver", !.k = k])

\* write_credential_once: the file is there before the row is.
Deliver(o) ==
    /\ cmd[o].step = "deliver"
    /\ file' = file \cup {cmd[o].k}
    /\ Proceed(o, "commit")
    /\ UNCHANGED <<client, rows, cred, token, projects, call, changes, barred, warned>>

\* Mutant: the credentials before the rotation are left as they are.
IssuedBeside(k) == [cred EXCEPT ![k] = "live"]

\* The rows of credentials once the new one is inserted.
Issued(k) ==
    [j \in Cred |-> IF j = k THEN "live" ELSE IF cred[j] = "live" THEN "revoked" ELSE cred[j]]

\* Mutant: the file goes whether the transaction failed or not.
FileAlways(o, failed) == file \ {cmd[o].k}

\* except BaseException: unlink.
FileAfter(o, failed) == IF failed THEN file \ {cmd[o].k} ELSE file

\* The transaction of provision_client.  It may commit and still fail for the
\* command: the answer to the commit is lost.
CommitProvision(o, failed) ==
    /\ cmd[o].kind = "provision" /\ cmd[o].step = "commit"
    /\ client = NoClient
    /\ client' = [status |-> "active", epoch |-> 1, scopes |-> {"home"}, tools |-> DefaultTools]
    /\ rows' = {Allow(t, "home") : t \in DefaultTools}
    /\ cred' = Issued(cmd[o].k)
    /\ file' = FileAfter(o, failed)
    /\ warned' = (warned \/ failed)
    /\ Finish(o)
    /\ UNCHANGED <<token, projects, call, changes, barred>>

\* The transaction of rotate_client_credential; it does not look at the status.
CommitRotate(o, failed) ==
    /\ cmd[o].kind = "rotate" /\ cmd[o].step = "commit"
    /\ cred' = Issued(cmd[o].k)
    /\ file' = FileAfter(o, failed)
    /\ warned' = (warned \/ failed)
    /\ Finish(o)
    /\ UNCHANGED <<client, rows, token, projects, call, changes, barred>>

\* The transaction rolls back.
FailIssue(o) ==
    /\ cmd[o].kind \in {"provision", "rotate"} /\ cmd[o].step = "commit"
    /\ file' = FileAfter(o, TRUE)
    /\ warned' = TRUE
    /\ Finish(o)
    /\ UNCHANGED <<client, rows, cred, token, projects, call, changes, barred>>

\* The terminal dies: an open transaction is rolled back, a file stays.
Die(o) ==
    /\ cmd[o] # Idle
    /\ Finish(o)
    /\ UNCHANGED <<client, rows, cred, file, token, projects, call, changes, barred, warned>>

\* revoke_client reads the row and writes status and epoch from it.
StartRevoke(o) ==
    /\ client.status = "active"
    /\ Start(o, [Idle EXCEPT !.kind = "revoke", !.step = "update", !.row = client])

CommitRevoke(o) ==
    /\ cmd[o].kind = "revoke"
    /\ client' = [client EXCEPT !.status = "revoked", !.epoch = cmd[o].row.epoch + 1]
    /\ cred' = [k \in Cred |-> IF cred[k] = "live" THEN "revoked" ELSE cred[k]]
    /\ changes' = changes + 1
    /\ Finish(o)
    /\ UNCHANGED <<rows, file, token, projects, call, barred, warned>>

\* set_project_access and set_review_access begin with a SELECT of the client.
StartAccess(o, kind, s, access) ==
    /\ client # NoClient
    /\ kind = "project" => s \in projects
    /\ kind = "review" => s = "home"
    /\ Start(o, [Idle EXCEPT !.kind = kind, !.step = "rows", !.on = s, !.access = access,
                             !.row = client])

ToolsOf(kind) == IF kind = "project" THEN ProjectTools ELSE ReviewTools

\* The tools that an access level names.
Named(kind, access) ==
    IF access = "write" THEN ToolsOf(kind)
    ELSE IF kind = "project" THEN {"project.read"} ELSE {"review.read"}

\* Mutant: withdrawing access leaves the rows open.
ClosedNone(kind, s) == {}

\* The rows that "none" closes.
Closed(kind, s) == {g \in rows : g.scope = s /\ g.tool \in ToolsOf(kind)}

\* The statements on permission_grants: closing, or inserting what is not open.
AccessRows(o) ==
    LET c == cmd[o]
    IN  /\ c.step = "rows"
        /\ cmd' = [cmd EXCEPT
              ![o].step = "update",
              ![o].alone = TRUE,
              ![o].closes = IF c.access = "none" THEN Closed(c.kind, c.on) ELSE {},
              ![o].adds = IF c.access = "none" THEN {}
                          ELSE {Allow(t, c.on) : t \in Named(c.kind, c.access)} \ rows]
        /\ UNCHANGED <<client, rows, cred, file, token, projects, call, changes,
                       barred, warned>>

\* Mutant: the epoch stays.
NextEpochSame(row) == row.epoch

\* permission_epoch, from the row that was read.
NextEpoch(row) == row.epoch + 1

\* The scopes list: review access leaves a withdrawn scope in it.
NextScopes(c) ==
    IF c.access # "none" THEN c.row.scopes \cup {c.on}
    ELSE IF c.kind = "project" THEN c.row.scopes \ {c.on} ELSE c.row.scopes

\* The UPDATE of the client row, with the whole lists, and the commit.
CommitAccess(o) ==
    LET c == cmd[o]
    IN  /\ c.kind \in {"project", "review"} /\ c.step = "update"
        /\ client' = [client EXCEPT
              !.scopes = NextScopes(c),
              !.tools = IF c.access = "none" THEN c.row.tools
                        ELSE c.row.tools \cup Named(c.kind, c.access),
              !.epoch = NextEpoch(c.row)]
        /\ rows' = (rows \ c.closes) \cup c.adds
        /\ changes' = changes + 1
        /\ barred' = IF c.kind # "project" THEN barred
                     ELSE IF c.access # "none" THEN barred \ {c.on}
                     ELSE IF c.alone THEN barred \cup {c.on} ELSE barred
        /\ Finish(o)
        /\ UNCHANGED <<cred, file, token, projects, call, warned>>

-----------------------------------------------------------------------------
(***************************************************************************)
(* OAuth.                                                                  *)
(***************************************************************************)
\* issue_code, confirmed by the owner.
IssueCode(t) ==
    /\ token[t] = NoToken
    /\ token' = [token EXCEPT ![t].state = "code"]
    /\ UNCHANGED <<client, rows, cred, file, projects, cmd, call, changes, barred, warned>>

\* exchange_code: the code is used up before the grant is issued, which fails
\* unless the client is active at the epoch that the caller names.
ExchangeCode(t, epoch) ==
    /\ token[t].state = "code"
    /\ token' = [token EXCEPT ![t] =
          IF client.status = "active" /\ client.epoch = epoch
          THEN [state |-> "live", epoch |-> epoch, since |-> changes] ELSE DeadToken]
    /\ UNCHANGED <<client, rows, cred, file, projects, cmd, call, changes, barred, warned>>

\* revoke_token, or the end of its hour.
RevokeToken(t) ==
    /\ token[t].state = "live"
    /\ token' = [token EXCEPT ![t] = DeadToken]
    /\ UNCHANGED <<client, rows, cred, file, projects, cmd, call, changes, barred, warned>>

\* revoke_client of the grant store.
OAuthRevokeClient ==
    /\ client.status = "active" /\ client.epoch < MaxEpoch
    /\ \A o \in Operator : cmd[o].kind \notin {"revoke", "project", "review"}
    /\ token' = [t \in Token |-> IF token[t].state = "live" THEN DeadToken ELSE token[t]]
    /\ client' = [client EXCEPT !.status = "revoked", !.epoch = @ + 1]
    /\ changes' = changes + 1
    /\ UNCHANGED <<rows, cred, file, projects, cmd, call, barred, warned>>

-----------------------------------------------------------------------------
(***************************************************************************)
(* Tool calls.                                                             *)
(***************************************************************************)
\* The ids of projects that calls are creating.
Creating == {call[r].p : r \in {q \in Request : InCall(q) /\ call[q].m = CreateProject}}

\* What a call works on: a new project, one that exists or, for a retry, is being
\* created, or the content of "home".
TargetsOf(m) ==
    IF m = CreateProject THEN Project \ (projects \cup Creating)
    ELSE IF m = ReplayCreateProject THEN projects \cup Creating
    ELSE IF m.on = "project" THEN projects ELSE {"home"}

Enter(r, m, p, since) ==
    /\ call' = [call EXCEPT ![r] =
          [m |-> m, p |-> p, at |-> 1, epoch |-> client.epoch, since |-> since,
           passed |-> since, late |-> 0, scopes |-> {}, tools |-> {},
           adds |-> {}]]
    /\ UNCHANGED <<client, rows, cred, file, token, projects, cmd, changes, barred, warned>>

\* PersistedAuthority.authenticate.
ByCredential(r, m, p, k) ==
    /\ cred[k] = "live"
    /\ client.status = "active"
    /\ Enter(r, m, p, changes)

\* Mutant: the epoch of the grant is not compared.
ResolvesAnyEpoch(t) == token[t].state = "live" /\ client.status = "active"

\* resolve_identity.
Resolves(t) ==
    /\ token[t].state = "live"
    /\ client.status = "active"
    /\ token[t].epoch = client.epoch

ByToken(r, m, p, t) ==
    /\ Resolves(t)
    /\ Enter(r, m, p, token[t].since)

\* A call begins with its authentication.
Arrive(r) ==
    /\ call[r] = Resting
    /\ \E m \in Method : \E p \in TargetsOf(m) :
          \/ \E k \in Cred : ByCredential(r, m, p, k)
          \/ \E t \in Token : ByToken(r, m, p, t)

Running(r, stage) == InCall(r) /\ StageOf(call[r]) = stage

\* The count of stages under permissions that changed since the call began.
LateAfter(r) == IF changes # call[r].since THEN call[r].late + 1 ELSE call[r].late

\* A check or a fence: the call goes on, or it is refused, rolls back and ends.
Check(r) ==
    LET c == call[r]
        ok == Authorized(c.epoch, c.m.tool, ScopeOf(c.m, c.p))
    IN  /\ Running(r, "check") \/ Running(r, "fence")
        /\ call' = IF ok THEN [call EXCEPT ![r].at = @ + 1, ![r].passed = changes]
                         ELSE [call EXCEPT ![r] = Resting]
        /\ UNCHANGED <<client, rows, cred, file, token, projects, cmd, changes, barred, warned>>

\* A protected stage: a read, the call of the provider, the commit of a write.  A
\* retry waits for the commit of the call that it repeats.
Protected(r) ==
    /\ Running(r, "read") \/ Running(r, "call") \/ Running(r, "commit")
    /\ call[r].m = ReplayCreateProject => call[r].p \in projects
    /\ call' = [call EXCEPT ![r].at = @ + 1, ![r].late = LateAfter(r)]
    /\ projects' = IF Running(r, "commit") /\ call[r].m = CreateProject
                   THEN projects \cup {call[r].p} ELSE projects
    /\ UNCHANGED <<client, rows, cred, file, token, cmd, changes, barred, warned>>

\* project_of_task.
ResolveTask(r) ==
    /\ Running(r, "resolve")
    /\ call' = [call EXCEPT ![r].at = @ + 1]
    /\ UNCHANGED <<client, rows, cred, file, token, projects, cmd, changes, barred, warned>>

\* grant_project_scope: the row of the client and the rows that are not open.
SelfGrantRead(r) ==
    LET c == call[r]
    IN  /\ Running(r, "grant")
        /\ call' = [call EXCEPT
              ![r].at = @ + 1,
              ![r].scopes = client.scopes \cup {c.p},
              ![r].tools = client.tools \cup CreatorTools,
              ![r].adds = {Allow(t, c.p) : t \in CreatorTools} \ rows]
        /\ UNCHANGED <<client, rows, cred, file, token, projects, cmd, changes, barred, warned>>

\* The commit of grant_project_scope; no check has followed the one before it.
SelfGrantCommit(r) ==
    LET c == call[r]
    IN  /\ Running(r, "granted")
        /\ client' = [client EXCEPT !.scopes = c.scopes, !.tools = c.tools]
        /\ rows' = rows \cup c.adds
        /\ barred' = barred \ {c.p}
        /\ cmd' = [o \in Operator |->
              IF cmd[o].on = c.p THEN [cmd[o] EXCEPT !.alone = FALSE] ELSE cmd[o]]
        /\ call' = [call EXCEPT ![r].at = @ + 1, ![r].late = LateAfter(r),
                                ![r].scopes = {}, ![r].tools = {}, ![r].adds = {}]
        /\ UNCHANGED <<cred, file, token, projects, changes, warned>>

\* A call has answered; the next one takes its place.
Leave(r) ==
    /\ InCall(r)
    /\ StageOf(call[r]) = "answered"
    /\ call' = [call EXCEPT ![r] = Resting]
    /\ UNCHANGED <<client, rows, cred, file, token, projects, cmd, changes, barred, warned>>

-----------------------------------------------------------------------------
Command(o) ==
    \/ \E k \in Cred : StartProvision(o, k) \/ StartRotate(o, k)
    \/ Deliver(o)
    \/ \E failed \in BOOLEAN : CommitProvision(o, failed) \/ CommitRotate(o, failed)
    \/ FailIssue(o)
    \/ Die(o)
    \/ StartRevoke(o)
    \/ CommitRevoke(o)
    \/ \E kind \in {"project", "review"}, s \in Scope, access \in {"none", "read", "write"} :
          StartAccess(o, kind, s, access)
    \/ AccessRows(o)
    \/ CommitAccess(o)

Serve(r) ==
    \/ Arrive(r)
    \/ Check(r)
    \/ Protected(r)
    \/ ResolveTask(r)
    \/ SelfGrantRead(r)
    \/ SelfGrantCommit(r)
    \/ Leave(r)

OAuth ==
    \/ \E t \in Token : IssueCode(t) \/ RevokeToken(t) \/ \E e \in 1..MaxEpoch : ExchangeCode(t, e)
    \/ OAuthRevokeClient

Next == OAuth \/ (\E o \in Operator : Command(o)) \/ (\E r \in Request : Serve(r))

Spec == Init /\ [][Next]_vars

-----------------------------------------------------------------------------
(***************************************************************************)
(* Properties.                                                             *)
(***************************************************************************)

\* A check passes only if no operator command changed the client's permissions
\* since the call authenticated or, for a call that came with an OAuth grant,
\* since the grant was issued: the epochs that the commands compute from what
\* they read never bring an old one back.
PassedIsCurrent == \A r \in Request : InCall(r) => call[r].passed = call[r].since

\* Of a call that is under way when the operator changes the permissions at most
\* one more protected stage happens: a read, a call of the provider, a commit; of
\* create_project and its retries two, the commit of the self-grant and the read of
\* list_projects, which both follow the last check.
FewStagesAreLate ==
    \A r \in Request : InCall(r) => call[r].late <= IF call[r].m \in Granting THEN 2 ELSE 1

\* Does not hold of create_project: at most one stage of a call is late.
AtMostOneLateStage == \A r \in Request : InCall(r) => call[r].late <= 1

\* Access to a project that the operator withdrew stays withdrawn until it is granted
\* again, by the operator or by a self-grant for the same project, though self-grants
\* for other projects write back a list of scopes that they read before.
WithdrawnStaysWithdrawn ==
    \A p \in barred, t \in ProjectTools : ~Authorized(client.epoch, t, p)

\* Does not hold: what the operator withdrew only the operator gives again.  A retry
\* of create_project replays the outcome and grants the project to its caller anew, and
\* so does a creation that was under way.
OnlyTheOperatorReopens == [][barred \subseteq barred' \/ changes' # changes]_vars

\* A client that is active has one live credential and that one's file was
\* delivered, unless a rotation reported an error: it is never locked out silently,
\* wherever a command dies between the file and the row.
OneWorkingCredential ==
    client.status = "active" =>
        \E k \in Cred : /\ cred[k] = "live"
                        /\ \A j \in Cred : cred[j] = "live" => j = k
                        /\ k \in file \/ warned

\* Inputs of the policy: at most two rows, of every effect, pattern and ceiling.
PolicyRow ==
    [effect : {"allow", "deny"}, tool : {"domain", "*", "review.read"}, scope : {"home", "*"},
     ceiling : {"normal", "private"}]

PolicyInput == {{g, h} : g, h \in PolicyRow}

Asked(grants, c, sensitivity) ==
    Decision(c, 1, grants, "domain", "home", sensitivity, "ordinary") = "ok"

\* The policy is closed by default: a deny row that applies, by name or by "*",
\* outweighs every allow, any deny row, a shorter list of tools or scopes or a
\* lower ceiling never opens what was refused, and of several rows that allow the
\* narrowest decides.  (The inputs do not depend on the state; they are gone
\* through where no client exists yet.)
RestrictionsNeverOpen ==
    client = NoClient =>
    LET full == [status |-> "active", epoch |-> 1, scopes |-> {"home"}, tools |-> DefaultTools]
    IN  \A grants \in PolicyInput, s \in {"normal", "private"} :
          /\ \A g \in PolicyRow : g.effect = "deny" /\ Asked(grants \cup {g}, full, s)
                                    => Asked(grants, full, s)
          /\ \A g \in PolicyRow : g.effect = "deny" /\ g.tool # "review.read"
                                    => ~Asked(grants \cup {g}, full, s)
          /\ ~Asked(grants, [full EXCEPT !.scopes = {}], s)
          /\ ~Asked(grants, [full EXCEPT !.tools = {"review.read"}], s)
          /\ Asked({[g EXCEPT !.ceiling = "normal"] : g \in grants}, full, s)
                => Asked(grants, full, s)
          /\ Asked(grants, full, s) =>
                \A g \in grants : Asked({g}, full, s) \/ g.tool = "review.read"
-----------------------------------------------------------------------------
(***************************************************************************)
(* The inductive invariant of the proofs (AuthorityProofs).                *)
(***************************************************************************)
\* The epoch counts the changes that the operator committed.
EpochInv == client.epoch = IF client = NoClient THEN 0 ELSE changes + 1

NoClientInv == client = NoClient => changes = 0 /\ barred = {}

\* How far a command may be, by its kind.
Progress ==
    {<<"idle", "">>, <<"revoke", "update">>}
        \cup {"provision", "rotate"} \X {"deliver", "commit"}
        \cup {"project", "review"} \X {"rows", "update"}

\* A command that will change the permissions works with the epoch that is in force.
CommandInv ==
    \A o \in Operator :
        /\ <<cmd[o].kind, cmd[o].step>> \in Progress
        /\ cmd[o].kind = "review" => cmd[o].on = "home"
        /\ cmd[o].kind \in {"revoke", "project", "review"} =>
              client # NoClient /\ cmd[o].row.epoch = client.epoch /\ client.epoch < MaxEpoch

\* A credential that is being issued has no row yet and, once delivered, its file.
IssuingInv ==
    \A o \in Operator :
        cmd[o].kind \in {"provision", "rotate"} =>
            /\ cmd[o].k \in Cred
            /\ cred[cmd[o].k] = "absent"
            /\ cmd[o].step = "commit" => cmd[o].k \in file

\* A grant, or a call, stands for the permissions at its epoch.
StampsInv ==
    /\ \A t \in Token : token[t].state = "live" => token[t].epoch = token[t].since + 1
    /\ \A r \in Request : InCall(r) =>
          /\ client # NoClient
          /\ call[r].epoch = call[r].since + 1
          /\ call[r].passed = call[r].since
          /\ call[r].since <= changes

\* After a protected stage under permissions that have changed comes a check; only
\* a self-grant goes on to the read that ends its call.
LateInv ==
    \A r \in Request : InCall(r) /\ call[r].late # 0 =>
        /\ call[r].since # changes
        /\ \/ call[r].late = 1 /\ StageOf(call[r]) = "check"
           \/ StageOf(call[r]) = "answered"
           \/ call[r].late = 1 /\ call[r].m \in Granting /\ call[r].at = Len(call[r].m.plan)
        /\ call[r].late = 2 => call[r].m \in Granting

\* The id that a creation works with, or its retry, is that of a project.
CreationInv == \A r \in Request : InCall(r) /\ call[r].m \in Granting => call[r].p \in Project

\* Rows are inserted under the project that a command or a self-grant is for.
AddsInv ==
    /\ \A r \in Request : InCall(r) => \A g \in call[r].adds : g.scope = call[r].p
    /\ \A o \in Operator : \A g \in cmd[o].adds : cmd[o].access # "none" /\ g.scope = cmd[o].on

RowsOf(x) == {g \in rows : g.scope = x /\ g.tool \in ProjectTools}

\* Where access was withdrawn no row is open; a command that withdraws it closes all
\* that no self-grant inserted meanwhile.
WithdrawnInv ==
    /\ \A x \in barred : RowsOf(x) = {}
    /\ \A o \in Operator : LET c == cmd[o]
                           IN  /\ c.kind = "project" => c.on \in Project
                               /\ c.alone /\ c.kind = "project" /\ c.access = "none" =>
                                     RowsOf(c.on) \subseteq c.closes

IndInv ==
    /\ TypeOK
    /\ EpochInv
    /\ NoClientInv
    /\ CommandInv
    /\ IssuingInv
    /\ StampsInv
    /\ LateInv
    /\ CreationInv
    /\ AddsInv
    /\ WithdrawnInv
    /\ OneWorkingCredential
=============================================================================

------------------------------ MODULE LlmJobs ------------------------------
(***************************************************************************)
(* The jobs that call a model: extraction of a note and the daily digest,  *)
(* under the owner's daily budget.                                         *)
(*                                                                         *)
(* The jobs table is the meter: a job counts on the day of its last lease, *)
(* its own lease included.  The digest goes through the scopes of the day  *)
(* before; each scope is read, summarised by the model, committed and then *)
(* indexed in another transaction.  Runs crash, lose their leases to other *)
(* workers without noticing, and are still at work when midnight passes.   *)
(*                                                                         *)
(* A job is queued from the start and may be leased at any time.  What the *)
(* model answers is left open: a call succeeds or ends the run.  Scopes    *)
(* whose records all look like secrets are left out.                       *)
(***************************************************************************)
EXTENDS Naturals, FiniteSets

CONSTANTS
    Extract,    \* extract_raw_input jobs
    Digest,     \* daily_digest jobs
    Scope,      \* authorization scopes
    Worker,
    Quota,      \* LLM jobs per local day
    MaxRuns,    \* max_attempts
    LastDay     \* bound of the model: local days

VARIABLES
    day,        \* the local day
    noted,      \* scopes that recorded something, by day
    job,
    run,        \* what a worker is at
    derived,    \* extracted notes and digests
    cards,      \* digests in the search index
    admitted,   \* observation: jobs let through on the day of their lease
    covered,    \* observation: days whose digest was gone through to the end
    struck      \* observation: digests whose run crashed before they were indexed

vars == <<day, noted, job, run, derived, cards, admitted, covered, struck>>

-----------------------------------------------------------------------------
Day == 1..LastDay

LlmJob == Extract \cup Digest

DigestId == Day \X Scope

NoRun == [stage |-> "idle"]

\* moment: the day that a run goes by; left: scopes it has yet to go through.
Run ==
    [stage : {"read", "quota", "next", "insert", "index", "settle"}, job : LlmJob,
     moment : Day, left : SUBSET Scope, at : SUBSET Scope]

TypeOK ==
    /\ day \in Day
    /\ noted \in SUBSET DigestId
    /\ job \in [LlmJob -> [state : {"queued", "leased", "succeeded", "dead"},
                           holder : SUBSET Worker, runs : 0..MaxRuns, started : 0..LastDay]]
    /\ run \in [Worker -> Run \cup {NoRun}]
    /\ derived \in SUBSET (Extract \cup DigestId)
    /\ cards \in SUBSET DigestId
    /\ admitted \in SUBSET (LlmJob \X Day)
    /\ covered \in SUBSET Day
    /\ struck \in SUBSET DigestId

Init ==
    /\ day = 1
    /\ noted = {}
    /\ job = [j \in LlmJob |-> [state |-> "queued", holder |-> {}, runs |-> 0, started |-> 0]]
    /\ run = [w \in Worker |-> NoRun]
    /\ derived = {}
    /\ cards = {}
    /\ admitted = {}
    /\ covered = {}
    /\ struck = {}

-----------------------------------------------------------------------------
\* A note of the day; nothing digests those of the last day of the model.
Record(s) ==
    /\ day < LastDay
    /\ noted' = noted \cup {<<day, s>>}
    /\ noted' # noted
    /\ UNCHANGED <<day, job, run, derived, cards, admitted, covered, struck>>

Midnight ==
    /\ day < LastDay
    /\ day' = day + 1
    /\ UNCHANGED <<noted, job, run, derived, cards, admitted, covered, struck>>

\* A worker leases the job: started_at is the time of the lease.
ClaimJob(w, j) ==
    /\ run[w] = NoRun
    /\ job[j].state = "queued"
    /\ job[j].runs < MaxRuns
    /\ job' = [job EXCEPT ![j] = [state |-> "leased", holder |-> {w}, runs |-> @.runs + 1,
                                  started |-> day]]
    /\ run' = [run EXCEPT ![w] = [stage |-> "read", job |-> j, moment |-> day, left |-> {}, at |-> {}]]
    /\ UNCHANGED <<day, noted, derived, cards, admitted, covered, struck>>

LoseLease(j) ==
    /\ job[j].state = "leased"
    /\ job' = [job EXCEPT ![j].holder = {},
                          ![j].state = IF job[j].runs < MaxRuns THEN "queued" ELSE "dead"]
    /\ UNCHANGED <<day, noted, run, derived, cards, admitted, covered, struck>>

AtStage(w, stage) == run[w].stage = stage

To(w, stage) == run' = [run EXCEPT ![w].stage = stage]

\* extract_raw_input: is the note there, fit to be sent, and not yet extracted?
ReadNote(w, fit) ==
    /\ AtStage(w, "read")
    /\ run[w].job \in Extract
    /\ IF fit /\ run[w].job \notin derived THEN To(w, "quota") ELSE To(w, "settle")
    /\ UNCHANGED <<day, noted, job, derived, cards, admitted, covered, struck>>

\* Mutant: the window is the day that has begun.
WindowToday(m) == m

\* The day before the moment at which the handler began.
Window(m) == m - 1

\* daily_digest: the clock is read and the window's records are selected.
ReadWindow(w) ==
    /\ AtStage(w, "read")
    /\ run[w].job \in Digest
    /\ LET scopes == {s \in Scope : <<Window(day), s>> \in noted}
       IN  run' = [run EXCEPT ![w].stage = IF scopes = {} THEN "settle" ELSE "quota",
                              ![w].moment = day, ![w].left = scopes]
    /\ UNCHANGED <<day, noted, job, derived, cards, admitted, covered, struck>>

\* Mutant: only jobs that are done count.
StartedDone(m) == {j \in LlmJob : job[j].started = m /\ job[j].state = "succeeded"}

\* llm_jobs_started: the jobs whose last lease began on the day.
Started(m) == {j \in LlmJob : job[j].started = m}

\* Extraction reads the clock now, the digest read it when it began.
Moment(w) == IF run[w].job \in Extract THEN day ELSE run[w].moment

\* quota_exceeded: the job is skipped, and done.
CheckQuota(w) ==
    /\ AtStage(w, "quota")
    /\ IF Cardinality(Started(Moment(w))) >= Quota
       THEN To(w, "settle") /\ UNCHANGED admitted
       ELSE /\ To(w, IF run[w].job \in Extract THEN "insert" ELSE "next")
            /\ admitted' = IF job[run[w].job].started = Moment(w)
                           THEN admitted \cup {<<run[w].job, Moment(w)>>} ELSE admitted
    /\ UNCHANGED <<day, noted, job, derived, cards, covered, struck>>

DigestOf(w, s) == <<Window(run[w].moment), s>>

\* Mutant: five scopes at most, here one.
LeftAfterFirst(w, s) == {}

\* The loop goes on with the other scopes.
LeftAfter(w, s) == run[w].left \ {s}

\* The next scope of the loop; one with a digest is passed over, and after the
\* last one the run is done.
NextScope(w) ==
    /\ AtStage(w, "next")
    /\ \/ /\ run[w].left = {}
          /\ To(w, "settle")
          /\ covered' = covered \cup {Window(run[w].moment)}
       \/ \E s \in run[w].left :
             /\ run' = IF DigestOf(w, s) \in derived
                       THEN [run EXCEPT ![w].left = @ \ {s}]
                       ELSE [run EXCEPT ![w].stage = "insert", ![w].at = {s}]
             /\ UNCHANGED covered
    /\ UNCHANGED <<day, noted, job, derived, cards, admitted, struck>>

\* The model has answered.  The derived row: its key refuses a second one.
InsertNote(w) ==
    /\ AtStage(w, "insert")
    /\ run[w].job \in Extract
    /\ run[w].job \notin derived
    /\ derived' = derived \cup {run[w].job}
    /\ To(w, "settle")
    /\ UNCHANGED <<day, noted, job, cards, admitted, covered, struck>>

InsertDigest(w) ==
    /\ AtStage(w, "insert")
    /\ \E s \in run[w].at :
          /\ DigestOf(w, s) \notin derived
          /\ derived' = derived \cup {DigestOf(w, s)}
    /\ To(w, "index")
    /\ UNCHANGED <<day, noted, job, cards, admitted, covered, struck>>

\* _index_digest, in a transaction of its own.
IndexDigest(w) ==
    /\ AtStage(w, "index")
    /\ \E s \in run[w].at :
          /\ cards' = cards \cup {DigestOf(w, s)}
          /\ run' = [run EXCEPT ![w].stage = "next", ![w].left = LeftAfter(w, s), ![w].at = {}]
    /\ UNCHANGED <<day, noted, job, derived, admitted, covered, struck>>

Settle(w) ==
    /\ AtStage(w, "settle")
    /\ job' = IF w \in job[run[w].job].holder
              THEN [job EXCEPT ![run[w].job].state = "succeeded", ![run[w].job].holder = {}] ELSE job
    /\ run' = [run EXCEPT ![w] = NoRun]
    /\ UNCHANGED <<day, noted, derived, cards, admitted, covered, struck>>

\* The provider fails, a key refuses the row, the worker stops.
Crash(w) ==
    /\ run[w] # NoRun
    /\ struck' = IF AtStage(w, "index") THEN struck \cup {DigestOf(w, s) : s \in run[w].at} ELSE struck
    /\ run' = [run EXCEPT ![w] = NoRun]
    /\ UNCHANGED <<day, noted, job, derived, cards, admitted, covered>>

Next ==
    \/ Midnight
    \/ \E s \in Scope : Record(s)
    \/ \E j \in LlmJob : LoseLease(j) \/ \E w \in Worker : ClaimJob(w, j)
    \/ \E w \in Worker :
          \/ \E fit \in BOOLEAN : ReadNote(w, fit)
          \/ ReadWindow(w)
          \/ CheckQuota(w)
          \/ NextScope(w)
          \/ InsertNote(w)
          \/ InsertDigest(w)
          \/ IndexDigest(w)
          \/ Settle(w)
          \/ Crash(w)

Spec == Init /\ [][Next]_vars

-----------------------------------------------------------------------------
AdmittedOn(d) == {j \in LlmJob : <<j, d>> \in admitted}

\* The budget holds: of the jobs leased on a day, no more than Quota get past
\* quota_exceeded on that day, however many workers ask at the same time and
\* although a retry after midnight moves a job to another day.
BudgetHolds == \A d \in Day : Cardinality(AdmittedOn(d)) <= Quota

\* A scope's digest is there, and in the search index unless a run stopped, or still
\* is, just before indexing it.
Digested(d, s) ==
    /\ <<d, s>> \in derived
    /\ \/ <<d, s>> \in cards \cup struck
       \/ \E w \in Worker : AtStage(w, "index") /\ run[w].at = {s} /\ Window(run[w].moment) = d

\* A day whose digest was gone through has a digest for every scope that recorded
\* something, whatever was interrupted and taken up again.
DigestsAreComplete == \A d \in covered, s \in Scope : <<d, s>> \in noted => Digested(d, s)

-----------------------------------------------------------------------------
\* Those extractions that are admitted on the day that it is were leased on it, and
\* when the last one was admitted there was room.
AdmittedInv ==
    /\ \A x \in admitted : x[2] <= day
    /\ \A j \in Extract : <<j, day>> \in admitted => job[j].started = day
    /\ \A d \in Day : AdmittedOn(d) # {} => Cardinality(AdmittedOn(d) \cap Extract) < Quota

\* A digest that is past its first look.
Digesting(w) == run[w].job \notin Extract /\ run[w].stage \in {"quota", "next", "insert", "index"}

\* A run of the digest is for a day that is over; the scope it is at is one of those
\* that it has yet to finish, and all others that recorded something have their digest.
RunIsSound(w) ==
    run[w] # NoRun =>
        /\ run[w].moment <= day
        /\ run[w].stage \in {"next", "index"} => run[w].job \notin Extract
        /\ run[w].at # {} => run[w].job \notin Extract /\ run[w].stage \in {"insert", "index"}
        /\ run[w].stage = "index" =>
              run[w].at # {} /\ \A s \in run[w].at : <<Window(run[w].moment), s>> \in derived
        /\ \A s \in run[w].at : run[w].at = {s}
        /\ Digesting(w) =>
              /\ run[w].at \subseteq run[w].left
              /\ Window(run[w].moment) \in Day
              /\ \A s \in Scope : <<Window(run[w].moment), s>> \in noted =>
                    s \in run[w].left \/ <<Window(run[w].moment), s>> \in derived

RunsInv == \A w \in Worker : RunIsSound(w)

\* No digest is without its card, unless a run stopped just before.
DerivedInv == \A d \in Day, s \in Scope : <<d, s>> \in derived => Digested(d, s)

CoveredInv == \A d \in covered : d < day

\* The inductive invariant of the proofs.
IndInv ==
    /\ TypeOK
    /\ AdmittedInv
    /\ RunsInv
    /\ DerivedInv
    /\ CoveredInv
    /\ DigestsAreComplete
=============================================================================

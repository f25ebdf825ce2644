------------------------------- MODULE Assets -------------------------------
(***************************************************************************)
(* Uploaded assets: the bytes in storage, the blob row that all uploads of *)
(* the same bytes share, and the parse job that derives the asset's text.  *)
(*                                                                         *)
(* The bytes are stored before the transaction; the blob's count is read   *)
(* and written back by it.  The parse job works in three transactions: it  *)
(* reads, it commits the derived text, it enqueues the index job for that  *)
(* text; and a repeated run that finds the text does nothing more.         *)
(*                                                                         *)
(* Uploads have won their claims (module Idempotency); leases, tokens and  *)
(* retries of jobs are reduced to what a run can notice (module JobQueue). *)
(***************************************************************************)
EXTENDS Naturals, FiniteSets

CONSTANTS
    Upload,     \* executions of upload_asset; an asset goes by its upload
    Content,    \* bytes
    Worker,
    MaxRuns     \* max_attempts of a parse job

VARIABLES
    file,       \* contents in storage
    blob,       \* reference_count by content; 0: no row
    blobLock,   \* the upload whose open transaction wrote the blob row
    upload,     \* the uploads
    met,        \* observation: uploads that were open while this one was
    job,        \* the parse job of an asset
    run,        \* what a worker is at
    derived,    \* assets with derived text
    indexed,    \* assets whose text has an index job
    struck      \* observation: assets whose run crashed before the index job

vars == <<file, blob, blobLock, upload, met, job, run, derived, indexed, struck>>

-----------------------------------------------------------------------------
NoJob == [state |-> "none", holder |-> {}, runs |-> 0]

Job == [state : {"queued", "leased", "succeeded", "dead"}, holder : SUBSET Worker, runs : 0..MaxRuns]

NoRun == [stage |-> "idle"]

Run == [stage : {"read", "derive", "enqueue", "settle"}, asset : Upload]

TypeOK ==
    /\ file \in SUBSET Content
    /\ blob \in [Content -> 0..Cardinality(Upload)]
    /\ blobLock \in [Content -> SUBSET Upload]
    /\ upload \in [Upload -> [stage : {"idle", "look", "write", "commit", "stored", "failed"},
                              content : SUBSET Content, seen : 0..Cardinality(Upload)]]
    /\ met \in [Upload -> SUBSET Upload]
    /\ job \in [Upload -> Job \cup {NoJob}]
    /\ run \in [Worker -> Run \cup {NoRun}]
    /\ derived \in SUBSET Upload
    /\ indexed \in SUBSET Upload
    /\ struck \in SUBSET Upload

Init ==
    /\ file = {}
    /\ blob = [x \in Content |-> 0]
    /\ blobLock = [x \in Content |-> {}]
    /\ upload = [u \in Upload |-> [stage |-> "idle", content |-> {}, seen |-> 0]]
    /\ met = [u \in Upload |-> {}]
    /\ job = [u \in Upload |-> NoJob]
    /\ run = [w \in Worker |-> NoRun]
    /\ derived = {}
    /\ indexed = {}
    /\ struck = {}

jobVars == <<job, run, derived, indexed, struck>>

uploadVars == <<blob, blobLock, upload, met>>

Open(u) == upload[u].stage \in {"look", "write", "commit"}

Of(u, x) == upload[u].content = {x}

Stored(u) == upload[u].stage = "stored"

-----------------------------------------------------------------------------
\* Mutant: nothing is written for a type of content that is not known.
FileAfterNone(x) == file

\* store_atomic: the bytes are there under their hash, all of them or none.
FileAfter(x) == file \cup {x}

\* The bytes are stored, then the transaction begins.
Store(u, x) ==
    /\ upload[u].stage = "idle"
    /\ file' = FileAfter(x)
    /\ upload' = [upload EXCEPT ![u].stage = "look", ![u].content = {x}]
    /\ met' = [v \in Upload |-> IF v = u THEN {q \in Upload : Open(q)}
                                ELSE IF Open(v) THEN met[v] \cup {u} ELSE met[v]]
    /\ UNCHANGED <<blob, blobLock, jobVars>>

\* The SELECT of the blob row.
LookBlob(u) ==
    /\ upload[u].stage = "look"
    /\ \E x \in upload[u].content : upload' = [upload EXCEPT ![u].stage = "write", ![u].seen = blob[x]]
    /\ UNCHANGED <<file, blob, blobLock, met, jobVars>>

\* The INSERT, which the unique constraint refuses once another is committed, or
\* the UPDATE by id; both wait for an open transaction that wrote the row.
WriteBlob(u) ==
    /\ upload[u].stage = "write"
    /\ \E x \in upload[u].content :
          /\ blobLock[x] = {}
          /\ IF upload[u].seen = 0 /\ blob[x] > 0
             THEN /\ upload' = [upload EXCEPT ![u].stage = "failed"]
                  /\ UNCHANGED blobLock
             ELSE /\ upload' = [upload EXCEPT ![u].stage = "commit"]
                  /\ blobLock' = [blobLock EXCEPT ![x] = {u}]
    /\ UNCHANGED <<file, blob, met, jobVars>>

\* Mutant: the count is that of the first upload.
CountKept(u) == IF upload[u].seen = 0 THEN 1 ELSE upload[u].seen

\* What is written back: one more than was read.
Count(u) == upload[u].seen + 1

\* The asset and its parse job are committed with the blob row.
CommitUpload(u) ==
    /\ upload[u].stage = "commit"
    /\ \E x \in upload[u].content :
          /\ blob' = [blob EXCEPT ![x] = Count(u)]
          /\ blobLock' = [blobLock EXCEPT ![x] = {}]
    /\ upload' = [upload EXCEPT ![u].stage = "stored"]
    /\ job' = [job EXCEPT ![u] = [state |-> "queued", holder |-> {}, runs |-> 0]]
    /\ UNCHANGED <<file, met, run, derived, indexed, struck>>

\* The source is gone, the authority changed, the connection is lost.
RollbackUpload(u) ==
    /\ Open(u)
    /\ blobLock' = [x \in Content |-> blobLock[x] \ {u}]
    /\ upload' = [upload EXCEPT ![u].stage = "failed"]
    /\ UNCHANGED <<file, blob, met, jobVars>>

-----------------------------------------------------------------------------
\* A worker leases the job.
ClaimJob(w, u) ==
    /\ run[w] = NoRun
    /\ job[u].state = "queued"
    /\ job[u].runs < MaxRuns
    /\ job' = [job EXCEPT ![u] = [state |-> "leased", holder |-> {w}, runs |-> @.runs + 1]]
    /\ run' = [run EXCEPT ![w] = [stage |-> "read", asset |-> u]]
    /\ UNCHANGED <<file, uploadVars, derived, indexed, struck>>

\* The lease runs out, whatever its holder is doing: the job is queued again, or
\* dead once its attempts are used up.
LoseLease(u) ==
    /\ job[u].state = "leased"
    /\ job' = [job EXCEPT ![u].holder = {},
                          ![u].state = IF job[u].runs < MaxRuns THEN "queued" ELSE "dead"]
    /\ UNCHANGED <<file, uploadVars, run, derived, indexed, struck>>

At(w, stage) == run[w].stage = stage

To(w, stage) == run' = [run EXCEPT ![w].stage = stage]

\* process: the asset, its blob, and text that is there already.
ReadAsset(w) ==
    /\ At(w, "read")
    /\ IF run[w].asset \in derived THEN To(w, "settle") ELSE To(w, "derive")
    /\ UNCHANGED <<file, uploadVars, job, derived, indexed, struck>>

\* The bytes are read and verified, the text stored and committed; the unique
\* constraint refuses a second text.
Derive(w) ==
    /\ At(w, "derive")
    /\ run[w].asset \notin derived
    /\ upload[run[w].asset].content \subseteq file
    /\ derived' = derived \cup {run[w].asset}
    /\ To(w, "enqueue")
    /\ UNCHANGED <<file, uploadVars, job, indexed, struck>>

\* Mutant: the job's outcome is settled first, and only its holder enqueues.
MayEnqueueHolder(w) == w \in job[run[w].asset].holder

\* Whoever committed the text enqueues its index job.
MayEnqueue(w) == TRUE

\* A transaction of its own.
EnqueueIndex(w) ==
    /\ At(w, "enqueue")
    /\ indexed' = IF MayEnqueue(w) THEN indexed \cup {run[w].asset} ELSE indexed
    /\ To(w, "settle")
    /\ UNCHANGED <<file, uploadVars, job, derived, struck>>

\* complete_job: without effect for a run that lost its lease.
Settle(w) ==
    /\ At(w, "settle")
    /\ job' = IF w \in job[run[w].asset].holder
              THEN [job EXCEPT ![run[w].asset].state = "succeeded", ![run[w].asset].holder = {}]
              ELSE job
    /\ run' = [run EXCEPT ![w] = NoRun]
    /\ UNCHANGED <<file, uploadVars, derived, indexed, struck>>

\* The worker stops, or its transaction fails: the lease will run out.  A run
\* that finds the text of another one refused by the constraint ends like this.
Crash(w) ==
    /\ run[w] # NoRun
    /\ struck' = IF At(w, "enqueue") THEN struck \cup {run[w].asset} ELSE struck
    /\ run' = [run EXCEPT ![w] = NoRun]
    /\ UNCHANGED <<file, uploadVars, job, derived, indexed>>

\* reconcile_deletion of a plan that names the asset: the text goes.  The asset's
\* row has no lifecycle and stays.
ReconcileDeletion(u) ==
    /\ Stored(u)
    /\ u \in derived
    /\ derived' = derived \ {u}
    /\ UNCHANGED <<file, uploadVars, job, run, indexed, struck>>

Next ==
    \/ \E u \in Upload :
          \/ \E x \in Content : Store(u, x)
          \/ LookBlob(u)
          \/ WriteBlob(u)
          \/ CommitUpload(u)
          \/ RollbackUpload(u)
          \/ LoseLease(u)
          \/ ReconcileDeletion(u)
          \/ \E w \in Worker : ClaimJob(w, u)
    \/ \E w \in Worker :
          ReadAsset(w) \/ Derive(w) \/ EnqueueIndex(w) \/ Settle(w) \/ Crash(w)

Spec == Init /\ [][Next]_vars

-----------------------------------------------------------------------------
AssetsOf(x) == {u \in Upload : Stored(u) /\ Of(u, x)}

Apart(x) == \A u, v \in AssetsOf(x) : v \notin met[u]

\* A committed asset has a blob row and its bytes, whatever failed around it; the
\* row counts no upload twice, and counts each of them unless two were open at
\* the same time.
BlobsAreBacked ==
    \A x \in Content :
        /\ blob[x] > 0 <=> AssetsOf(x) # {}
        /\ AssetsOf(x) # {} => x \in file
        /\ blob[x] <= Cardinality(AssetsOf(x))
        /\ Apart(x) => blob[x] = Cardinality(AssetsOf(x))

\* Text that was derived is searchable: it has its index job, or the run that
\* derived it is about to enqueue it, or crashed at that very point, which is the
\* one gap that the retry does not close.
TextIsIndexed ==
    \A u \in derived : u \in indexed \cup struck \/ \E w \in Worker : run[w] = [stage |-> "enqueue", asset |-> u]

-----------------------------------------------------------------------------
\* The bytes of an upload are stored before its transaction begins; uploads that are
\* open met; the count that one has read is that of the assets, unless it was met by
\* one of them, or they met.
UploadsInv ==
    /\ \A u \in Upload : Open(u) \/ Stored(u) => \E x \in file : Of(u, x)
    /\ \A u, v \in Upload : Open(u) /\ Open(v) /\ u # v => v \in met[u]
    /\ \A u \in Upload, x \in Content :
          upload[u].stage \in {"write", "commit"} /\ Of(u, x) =>
             /\ upload[u].seen <= Cardinality(AssetsOf(x))
             /\ Apart(x) /\ AssetsOf(x) \cap met[u] = {} =>
                   upload[u].seen = Cardinality(AssetsOf(x))

\* The inductive invariant of the uploads and their jobs.
IndInv == TypeOK /\ UploadsInv /\ BlobsAreBacked /\ TextIsIndexed
=============================================================================

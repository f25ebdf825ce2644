------------------------------ MODULE MCSearch ------------------------------
(***************************************************************************)
(* The search index from three sides: the canonical rows and the jobs that *)
(* keep their cards, the table of cards and the searches over it, and the  *)
(* uploads whose text is to be indexed.  Each side sees the index in its   *)
(* own detail and shares no variable with the others; one run takes the    *)
(* behaviours of each in turn: `side' says whose turn it is, and the       *)
(* variables of the others are 0.                                          *)
(***************************************************************************)
EXTENDS Projection, TLC

CONSTANTS
    Target, Attr, Query, Indexer, Models, MaxCards, Candidates, Limit, RrfK, Ceiling, \* module Retrieval
    Upload, Content, MaxRuns                                                \* module Assets

\* The bounds are numbers and the uploads finitely many.
ASSUME TableAssumption == MaxCards \in Nat /\ Models \in Nat

ASSUME AssetsAssumption == IsFiniteSet(Upload) /\ MaxRuns \in Nat

VARIABLES
    side,
    cards, allocated, call,
    file, blob, blobLock, upload, met, job, run, derived, indexed, struck

\* Two records of one scope, the second more sensitive and of the next day.
MCAttr ==
    [t \in Target |-> IF t = 1 THEN [scope |-> "knowledge", sensitivity |-> 0, time |-> 2]
                               ELSE [scope |-> "knowledge", sensitivity |-> 1, time |-> 3]]

\* Queries without a filter, whose words and vector tell any two texts apart, either way, or
\* not; and queries with a ceiling of sensitivity, a range of days, or both, the range open or
\* not, which match by their words, by their vector, by both or not at all.
MCQuery ==
    LET constant(n) == [x \in {"short", "long", "secret"} |-> n]
        nearer == [short |-> 1, long |-> 2]
        none == [version |-> 0]
        vectors(D) == {none} \cup [version : {Models} \ {0}, distance : D]
    IN  [scope : {"knowledge"}, ceiling : {1}, from : {0}, to : {0},
         density : [{"short", "long", "secret"} -> 0..1],
         vector : vectors([{"short", "long"} -> 1..2])]
            \cup [scope : {"knowledge"}, ceiling : 0..1, from : 0..1, to : 0..1,
                  density : {constant(0), constant(1)}, vector : vectors({nearer})]

R == INSTANCE Retrieval

\* Sensitivities, times and limits are numbers, and queries are what IsQuery says.
ASSUME SearchAssumption ==
    /\ {Candidates, Limit, RrfK, Ceiling} \subseteq Nat
    /\ \A t \in Target : Attr[t].sensitivity \in Nat /\ Attr[t].time \in Nat
    /\ \A q \in Query : R!IsQuery(q)

A == INSTANCE Assets WITH Worker <- Indexer

tableVars == <<cards, allocated, call>>

assetVars == <<file, blob, blobLock, upload, met, job, run, derived, indexed, struck>>

searchVars == <<vars, tableVars, assetVars, side>>

Off(a, b, c) == a = 0 /\ b = 0 /\ c = 0

NoRows == Off(row, text, card) /\ Off(queued, work, client) /\ Off(failures, lost, lost)

NoTable == Off(cards, allocated, call)

NoAssets ==
    /\ Off(file, blob, blobLock) /\ Off(upload, met, job)
    /\ Off(run, derived, indexed) /\ struck = 0

SearchInit ==
    \/ side = "rows" /\ Init /\ NoTable /\ NoAssets
    \/ side = "table" /\ R!Init /\ NoRows /\ NoAssets
    \/ side = "assets" /\ A!Init /\ NoRows /\ NoTable

SearchNext ==
    /\ UNCHANGED side
    /\ \/ side = "rows" /\ Next /\ UNCHANGED <<tableVars, assetVars>>
       \/ side = "table" /\ R!Next /\ UNCHANGED <<vars, assetVars>>
       \/ side = "assets" /\ A!Next /\ UNCHANGED <<vars, tableVars>>

SearchSpec == SearchInit /\ [][SearchNext]_searchVars

\* Notes are interchangeable and double as uploads, raw inputs of expenses as contents;
\* so are indexers.
Symmetry ==
    Permutations(Note \cap Upload) \cup Permutations(Expense \cap Content)
        \cup Permutations(Indexer)

\* Bound of the model: rows that exist.  No operation relates more than two, nor rows of
\* different kinds, which only share the worker: it is enough to pair each with a note.
MaxRows == 2

FewRows ==
    side = "rows" =>
        LET rows == {s \in Source : row[s] # "absent"}
        IN  /\ Cardinality(rows) <= MaxRows
            /\ \A s \in rows \ Note, t \in rows \ Note : s # t => {s, t} \subseteq Expense

\* Every variable has its type, and a row that is gone is not listed: its card is
\* dropped, or a job that will drop it is under way, or was lost for good.  With the
\* properties below these are the inductive invariants of the three sides.
CardsSound ==
    /\ side \in {"rows", "table", "assets"}
    /\ side = "rows" => TypeOK /\ JobsInv /\ UnlistedInv /\ GoneIsUnlisted
    /\ side = "table" => R!TypeOK /\ R!CallsInv
    /\ side = "assets" => A!TypeOK /\ A!UploadsInv

\* A row that is there is listed with its text, or has a job that will list it, unless
\* one was lost for good; and is listed once its jobs are done.
RowsAreListed == side = "rows" => ListedInv /\ LiveIsListed

\* Two cards of one target under one model version come from index calls that
\* overlapped.
TwinsOverlap == side = "table" => R!TwinsOverlap

\* A card that comes before another in every list that has the other one is ranked
\* before it; a card that matches and is within the filters is served unless others
\* crowd it out, and a context package is a prefix of the hits that fits its budget.
SearchServes == side = "table" => R!DominantRanksFirst /\ R!MatchesAreServed

\* An asset's bytes are in storage under a blob row that counts it, except for
\* uploads of the same bytes that ran at the same time; derived text of an asset has
\* its index job, unless a run stopped, or still is, just before it enqueues the job.
UploadsReachTheIndex == side = "assets" => A!BlobsAreBacked /\ A!TextIsIndexed
=============================================================================

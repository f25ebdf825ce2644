----------------------------- MODULE Retrieval -----------------------------
(***************************************************************************)
(* The search index and the searches over it.                              *)
(*                                                                         *)
(* index() replaces the card of a target under one model version: a DELETE *)
(* and an INSERT in one READ COMMITTED transaction, after the text was     *)
(* read in another.  No unique constraint keeps two calls for one target   *)
(* from inserting both, and a change of the embedding model leaves the     *)
(* cards of the old one in place.                                          *)
(*                                                                         *)
(* A search is a function of the table: a keyword list and a semantic list *)
(* of candidates, fused by reciprocal rank and cut to a limit, then to a   *)
(* budget of bytes.  A text is known by what the index makes of it: short, *)
(* embedded as a whole; long, embedded in chunks; secret, not embedded.    *)
(***************************************************************************)
EXTENDS Integers, FiniteSets

CONSTANTS
    Target,     \* canonical rows that have a card
    Attr,       \* scope, sensitivity and time (0 if none) of the card of a target
    Query,      \* queries asked
    Indexer,    \* workers that index
    Models,     \* bound of the model: embedding models, 0 for none
    MaxCards,   \* bound of the model: cards ever inserted
    Candidates, \* length of a list of candidates
    Limit,      \* hits of a search
    RrfK,       \* _RRF_K
    Ceiling     \* bytes of a context package

VARIABLES
    cards,      \* search_index_entries with their chunks
    allocated,  \* cards ever inserted
    call        \* index calls under way

vars == <<cards, allocated, call>>

-----------------------------------------------------------------------------
Text == {"short", "long", "secret"}

Id == 1..MaxCards

\* version: vector_model_version, 0 for NULL; saw: observation, the cards that had
\* been inserted when the call that wrote it deleted.
Card == [id : Id, target : Target, text : Text, version : 0..Models, saw : 0..MaxCards]

NoCall == [doomed |-> {}]

\* An open transaction of index(); doomed: the rows that it deleted.
Call == [target : Target, text : Text, version : 0..Models, doomed : SUBSET Id, saw : 0..MaxCards]

TypeOK ==
    /\ cards \in SUBSET Card
    /\ allocated \in 0..MaxCards
    /\ call \in [Indexer -> Call \cup {NoCall}]

Init ==
    /\ cards = {}
    /\ allocated = 0
    /\ call = [w \in Indexer |-> NoCall]

-----------------------------------------------------------------------------
Locked == UNION {call[w].doomed : w \in Indexer}

\* Mutant: vector_model_version = :version, which NULL never satisfies.
ReplacesEqual(c, t, version) == c.target = t /\ c.version = version /\ version # 0

\* The DELETE of index(), by target and model version.
Replaces(c, t, version) == c.target = t /\ c.version = version

\* handle() and the first half of index(): the text, which is whatever the row said
\* when it was read, is embedded by the model that the worker is configured with, if
\* any, unless it looks like a secret.  The DELETE waits for the rows that another
\* open transaction deletes.
Delete(w, t, x, model) ==
    /\ call[w] = NoCall
    /\ allocated < MaxCards
    /\ x = "secret" => model = 0
    /\ LET doomed == {c.id : c \in {d \in cards : Replaces(d, t, model)}}
       IN  /\ doomed \cap Locked = {}
           /\ call' = [call EXCEPT ![w] = [target |-> t, text |-> x, version |-> model,
                                           doomed |-> doomed, saw |-> allocated]]
    /\ UNCHANGED <<cards, allocated>>

\* The INSERT and the commit; the chunks of the deleted cards go with them.
Insert(w) ==
    /\ call[w] # NoCall
    /\ allocated < MaxCards
    /\ allocated' = allocated + 1
    /\ cards' = {c \in cards : c.id \notin call[w].doomed} \cup
                {[id |-> allocated + 1, target |-> call[w].target, text |-> call[w].text,
                  version |-> call[w].version, saw |-> call[w].saw]}
    /\ call' = [call EXCEPT ![w] = NoCall]

\* The row is gone: whatever card it has is dropped, under every version.
DropCards(t) ==
    /\ {c.id : c \in {d \in cards : d.target = t}} \cap Locked = {}
    /\ cards' = {c \in cards : c.target # t}
    /\ UNCHANGED <<allocated, call>>

\* The worker stops: the open transaction is rolled back.
Crash(w) ==
    /\ call[w] # NoCall
    /\ call' = [call EXCEPT ![w] = NoCall]
    /\ UNCHANGED <<cards, allocated>>

Next ==
    \/ \E t \in Target : DropCards(t)
    \/ \E w \in Indexer :
          \/ \E t \in Target, x \in Text, model \in 0..Models : Delete(w, t, x, model)
          \/ Insert(w)
          \/ Crash(w)

Spec == Init /\ [][Next]_vars

-----------------------------------------------------------------------------
(***************************************************************************)
(* A query says what the database computes for it: the density of keyword  *)
(* matches of a text, 0 when there is none, and its distance from the      *)
(* query's vector, if there is one (version 0: none).  `from' and `to' are *)
(* days, 0 for an open end.                                                *)
(***************************************************************************)
IsQuery(q) ==
    /\ {q.ceiling, q.from, q.to, q.vector.version} \subseteq Nat
    /\ q.density \in [Text -> Nat]
    /\ q.vector.version # 0 => q.vector.distance \in [{"short", "long"} -> Nat]

\* Times of day d are 2d - 1 and 2d.
DayOf(time) == (time + 1) \div 2

\* _normalize_time_bound: a bare date is the whole day, for either bound.
UpperBound(day) == 2 * day

LowerBound(day) == 2 * day - 1

\* A card without a time is in no range.
InRange(time, q) ==
    \/ q.from = 0 /\ q.to = 0
    \/ /\ time # 0
       /\ q.from # 0 => LowerBound(q.from) <= time
       /\ q.to # 0 => time <= UpperBound(q.to)

\* The filters that every list of candidates shares.
Base(q) ==
    {c \in cards :
        /\ Attr[c.target].scope = q.scope
        /\ Attr[c.target].sensitivity <= q.ceiling
        /\ InRange(Attr[c.target].time, q)}

\* Scores are fractions <<n, d>>, compared and added exactly.
Zero == <<0, 1>>

Above(s, t) == s[1] * t[2] > t[1] * s[2]

Plus(s, t) == <<s[1] * t[2] + t[1] * s[2], s[2] * t[2]>>

\* Higher scores come first, then lower ids.
Before(d, c, score) == Above(score[d], score[c]) \/ (~Above(score[c], score[d]) /\ d.id < c.id)

Position(c, S, score) == Cardinality({d \in S : Before(d, c, score)}) + 1

First(n, S, score) == {c \in S : Position(c, S, score) <= n}

Density(q) == [c \in Base(q) |-> <<q.density[c.text], 1>>]

Keyword(q) == First(Candidates, {c \in Base(q) : q.density[c.text] > 0}, Density(q))

\* Cards with a vector, of their own or of their chunks, that the query's compares with.
Embedded(q) == {c \in Base(q) : c.text # "secret" /\ c.version = q.vector.version /\ c.version # 0}

Distance(q) == [c \in Embedded(q) |-> <<-q.vector.distance[c.text], 1>>]

\* DISTINCT ON orders by id, so that the limit keeps the lowest ids; the cards with
\* a vector of their own are limited by distance.
Semantic(q) ==
    LET chunked == First(Candidates, {c \in Embedded(q) : c.text = "long"}, [c \in Embedded(q) |-> Zero])
        whole   == First(Candidates, {c \in Embedded(q) : c.text = "short"}, Distance(q))
    IN  First(Candidates, chunked \cup whole, Distance(q))

\* What a list gives to a card.
Reciprocal(c, S, score) == IF c \in S THEN <<1, RrfK + Position(c, S, score)>> ELSE Zero

\* Mutant: the fused score is scaled by the length of the document.
FusedByLength(c, k, s) == IF c.text = "long" THEN <<Plus(k, s)[1], 5 * Plus(k, s)[2]>> ELSE Plus(k, s)

\* Nothing but the two lists makes the score.
Fused(c, k, s) == Plus(k, s)

\* rrf_fuse
Scores(q) ==
    LET K == Keyword(q)
        S == Semantic(q)
    IN  [c \in K \cup S |-> Fused(c, Reciprocal(c, K, Density(q)), Reciprocal(c, S, Distance(q)))]

\* The fused list: a position for every candidate.
Ranking(q) ==
    LET score == Scores(q)
    IN  [c \in DOMAIN score |-> Position(c, DOMAIN score, score)]

Hits(ranking) == {c \in DOMAIN ranking : ranking[c] <= Limit}

\* A long hit takes two bytes, any other one.
Bytes(S) == Cardinality(S) + Cardinality({c \in S : c.text = "long"})

UpTo(c, ranking) == {d \in Hits(ranking) : ranking[d] <= ranking[c]}

\* get_brain_context: hits are taken in order up to the first that does not fit.
Selected(ranking) == {c \in Hits(ranking) : Bytes(UpTo(c, ranking)) <= Ceiling}

-----------------------------------------------------------------------------
\* Two cards of one target under one model version come from index calls that
\* overlapped: the later one deleted before the earlier one was committed.
TwinsOverlap ==
    \A c, d \in cards :
        c.target = d.target /\ c.version = d.version /\ c.id < d.id => d.saw < c.id

\* What a search sees does not depend on open calls: each table that is reached is
\* reached with none, as a call may stop at any point.
Quiet == call = [w \in Indexer |-> NoCall]

InBetter(c, d, S, score) == d \in S => c \in S /\ Above(score[c], score[d])

\* The lists alone decide: a card that comes before another in every list that has
\* the other one is ranked before it, however long the two documents are.
DominantRanksFirst ==
    Quiet => \A q \in Query :
        LET K        == Keyword(q)
            S        == Semantic(q)
            density  == Density(q)
            distance == Distance(q)
            ranking  == Ranking(q)
        IN  \A c, d \in K \cup S :
               InBetter(c, d, K, density) /\ InBetter(c, d, S, distance) => ranking[c] < ranking[d]

\* What a query asks for: the scope, the ceiling, and the days of the range, both ends
\* included.
Asked(c, q) ==
    LET day == DayOf(Attr[c.target].time)
    IN  /\ Attr[c.target].scope = q.scope
        /\ Attr[c.target].sensitivity <= q.ceiling
        /\ \/ q.from = 0 /\ q.to = 0
           \/ Attr[c.target].time # 0 /\ q.from <= day /\ (q.to # 0 => day <= q.to)

\* Its words match, or its vector is of the query's model.
Matches(c, q) ==
    \/ q.density[c.text] > 0
    \/ c.text # "secret" /\ c.version = q.vector.version /\ c.version # 0

\* What is served was asked for; what was asked for and matches is served, unless as
\* many others crowd it out; what a context package takes fits its budget and leaves
\* out no hit that precedes one it takes.
MatchesAreServed ==
    Quiet => \A q \in Query :
        LET ranking == Ranking(q)
            hits    == Hits(ranking)
            taken   == Selected(ranking)
            crowd   == Cardinality({c \in cards : Asked(c, q)}) - 1
        IN  /\ \A c \in hits : Asked(c, q) /\ Matches(c, q)
            /\ \A c \in cards :
                  Asked(c, q) /\ Matches(c, q) =>
                      c \in hits \/ crowd >= Candidates \/ crowd >= Limit
            /\ Bytes(taken) <= Ceiling
            /\ \A c \in taken, d \in hits : ranking[d] < ranking[c] => d \in taken

-----------------------------------------------------------------------------
\* Ids are given out in order, each once; a call deletes the cards that it replaces, unless they
\* were inserted after its DELETE.
CallsInv ==
    /\ \A c \in cards : c.id <= allocated
    /\ \A c, d \in cards : c.id = d.id => c = d
    /\ \A w \in Indexer : call[w] # NoCall =>
          /\ call[w].saw <= allocated
          /\ \A c \in cards : Replaces(c, call[w].target, call[w].version) =>
                c.id \in call[w].doomed \/ c.id > call[w].saw

\* The inductive invariant of the table.
IndInv == TypeOK /\ CallsInv /\ TwinsOverlap
=============================================================================

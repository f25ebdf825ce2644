---------------------------- MODULE SearchProofs ----------------------------
(***************************************************************************)
(* The search index for any rows, workers, targets and uploads: what is    *)
(* listed, what is not, twins, and the way of an upload to the index.  The *)
(* inductive invariants are checked by the run of MCSearch; the theorems   *)
(* at the end are about the specification of that run.                     *)
(***************************************************************************)
EXTENDS MCSearch, FiniteSetTheorems, WellFoundedInduction, TLAPS

(***************************************************************************)
(* The table of cards.                                                     *)
(***************************************************************************)
\* The initial state of the table satisfies its invariant.
LEMMA TableInit == R!Init => R!IndInv
BY TableAssumption DEF R!Init, R!IndInv, R!TypeOK, R!CallsInv, R!TwinsOverlap, R!NoCall

\* The fields of an index call that is open, and of a card.
LEMMA CallTypes ==
    ASSUME R!TypeOK
    PROVE  /\ \A w \in Indexer : call[w] # R!NoCall =>
                 call[w] \in R!Call /\ call[w].saw \in 0..MaxCards /\ call[w].doomed \subseteq 1..MaxCards
           /\ \A c \in cards : c \in R!Card /\ c.id \in 1..MaxCards /\ c.saw \in 0..MaxCards
<1>1. \A w \in Indexer : call[w] # R!NoCall => call[w] \in R!Call
  BY DEF R!TypeOK
<1>2. \A c \in cards : c \in R!Card
  BY DEF R!TypeOK
<1> QED BY <1>1, <1>2 DEF R!Call, R!Card, R!Id

\* Cards that go away disturb neither the open calls nor the twins.
LEMMA FewerCards ==
    ASSUME R!IndInv, cards' \subseteq cards, allocated' = allocated,
           call' \in [Indexer -> R!Call \cup {R!NoCall}],
           \A w \in Indexer : call'[w] = call[w] \/ call'[w] = R!NoCall
    PROVE  R!IndInv'
<1> USE DEF R!IndInv
<1>1. R!TypeOK'
  BY DEF R!TypeOK, R!Card, R!Id, R!Text, R!Call, R!NoCall
<1>2. R!CallsInv'
  BY DEF R!CallsInv, R!Replaces, R!NoCall
<1>3. R!TwinsOverlap'
  BY DEF R!TwinsOverlap
<1> QED BY <1>1, <1>2, <1>3

\* The DELETE of an index call: it dooms the cards that it saw.
LEMMA DeleteStep ==
    ASSUME R!IndInv, NEW w \in Indexer, NEW t \in Target, NEW x \in R!Text, NEW model \in 0..Models,
           R!Delete(w, t, x, model)
    PROVE  R!IndInv'
<1> USE DEF R!IndInv
<1> DEFINE doomed == {c.id : c \in {d \in cards : R!Replaces(d, t, model)}}
           opened == [target |-> t, text |-> x, version |-> model, doomed |-> doomed, saw |-> allocated]
<1>1. call' = [call EXCEPT ![w] = opened] /\ cards' = cards /\ allocated' = allocated
  BY DEF R!Delete
<1>2. allocated \in 0..MaxCards /\ call \in [Indexer -> R!Call \cup {R!NoCall}]
  BY DEF R!TypeOK
<1>3. opened \in R!Call
  <2>1. doomed \in SUBSET R!Id
    BY CallTypes DEF R!Id
  <2> QED BY <1>2, <2>1 DEF R!Call
<1>4. R!TypeOK'
  BY <1>1, <1>2, <1>3 DEF R!TypeOK, R!Card, R!Id, R!Text, R!Call, R!NoCall
<1>5. R!CallsInv'
  <2> SUFFICES ASSUME NEW v \in Indexer, call'[v] # R!NoCall
               PROVE  /\ call'[v].saw <= allocated
                      /\ \A c \in cards : R!Replaces(c, call'[v].target, call'[v].version) =>
                            c.id \in call'[v].doomed \/ c.id > call'[v].saw
    BY <1>1 DEF R!CallsInv, R!Replaces, R!NoCall
  <2>1. CASE v = w
    <3>1. call'[v] = opened
      BY <1>1, <1>2, <2>1
    <3> QED BY <1>2, <3>1, TableAssumption
  <2>2. CASE v # w
    BY <1>1, <1>2, <2>2 DEF R!CallsInv
  <2> QED BY <2>1, <2>2
<1>6. R!TwinsOverlap'
  BY <1>1 DEF R!TwinsOverlap
<1> QED BY <1>4, <1>5, <1>6

\* The INSERT: of the cards that the new one could double, those that the call saw are
\* deleted with it, and the others were inserted after its DELETE.
LEMMA InsertStep ==
    ASSUME R!IndInv, NEW w \in Indexer, R!Insert(w)
    PROVE  R!IndInv'
<1> USE DEF R!IndInv
<1> DEFINE new == [id |-> allocated + 1, target |-> call[w].target, text |-> call[w].text,
                   version |-> call[w].version, saw |-> call[w].saw]
<1>1. /\ call[w] # R!NoCall /\ allocated < MaxCards /\ allocated' = allocated + 1
      /\ cards' = {c \in cards : c.id \notin call[w].doomed} \cup {new}
      /\ call' = [call EXCEPT ![w] = R!NoCall]
  BY DEF R!Insert
<1>2. allocated \in 0..MaxCards /\ call \in [Indexer -> R!Call \cup {R!NoCall}] /\ allocated \in Nat
  BY TableAssumption DEF R!TypeOK
<1>3. call[w] \in R!Call /\ call[w].saw \in 0..MaxCards /\ call[w].saw <= allocated
  BY <1>1, CallTypes DEF R!CallsInv
<1>4. new \in R!Card
  BY <1>1, <1>2, <1>3, TableAssumption DEF R!Card, R!Call, R!Id
<1>5. R!TypeOK'
  <2>1. cards' \subseteq R!Card
    BY <1>1, <1>4 DEF R!TypeOK
  <2>2. allocated' \in 0..MaxCards
    BY <1>1, <1>2, TableAssumption
  <2>3. call' \in [Indexer -> R!Call \cup {R!NoCall}]
    BY <1>1, <1>2
  <2> QED BY <2>1, <2>2, <2>3 DEF R!TypeOK, R!Card, R!Id, R!Text, R!Call, R!NoCall
<1>6. R!CallsInv'
  <2>1. \A c \in cards' : c.id <= allocated'
    BY <1>1, <1>2, CallTypes, TableAssumption DEF R!CallsInv
  <2>2. ASSUME NEW v \in Indexer, call'[v] # R!NoCall
        PROVE  /\ call'[v].saw <= allocated'
               /\ \A c \in cards' : R!Replaces(c, call'[v].target, call'[v].version) =>
                     c.id \in call'[v].doomed \/ c.id > call'[v].saw
    <3>1. v # w /\ call'[v] = call[v]
      BY <1>1, <1>2, <2>2
    <3>2. call[v].saw \in 0..MaxCards /\ call[v].saw <= allocated
      BY <2>2, <3>1, CallTypes DEF R!CallsInv
    <3>3. new.id > call'[v].saw
      BY <1>2, <3>1, <3>2, TableAssumption
    <3>4. call'[v].saw <= allocated'
      BY <1>1, <1>2, <3>1, <3>2, TableAssumption
    <3>5. \A c \in cards : R!Replaces(c, call[v].target, call[v].version) =>
             c.id \in call[v].doomed \/ c.id > call[v].saw
      BY <2>2, <3>1 DEF R!CallsInv
    <3> QED BY <1>1, <3>1, <3>3, <3>4, <3>5
  <2>3. \A c, d \in cards' : c.id = d.id => c = d
    BY <1>1, <1>2, CallTypes, TableAssumption DEF R!CallsInv
  <2> QED BY <2>1, <2>2, <2>3 DEF R!CallsInv, R!Replaces, R!NoCall
<1>7. R!TwinsOverlap'
  <2> SUFFICES ASSUME NEW c \in cards', NEW d \in cards',
                      c.target = d.target, c.version = d.version, c.id < d.id
               PROVE  d.saw < c.id
    BY DEF R!TwinsOverlap
  <2>1. c # new
    BY <1>1, <1>2, CallTypes, TableAssumption DEF R!CallsInv
  <2>2. c \in cards /\ c.id \notin call[w].doomed
    BY <1>1, <2>1
  <2>3. CASE d = new
    <3>1. R!Replaces(c, call[w].target, call[w].version)
      BY <2>3 DEF R!Replaces
    <3> QED BY <1>1, <2>2, <2>3, <3>1, <1>3, CallTypes, TableAssumption DEF R!CallsInv
  <2>4. CASE d # new
    BY <1>1, <2>2, <2>4 DEF R!TwinsOverlap
  <2> QED BY <2>3, <2>4
<1> QED BY <1>5, <1>6, <1>7

\* Every step of the table keeps its invariant.
LEMMA TableStep == R!IndInv /\ [R!Next]_(R!vars) => R!IndInv'
<1> SUFFICES ASSUME R!IndInv, [R!Next]_(R!vars) PROVE R!IndInv'
  OBVIOUS
<1>0. call \in [Indexer -> R!Call \cup {R!NoCall}]
  BY DEF R!IndInv, R!TypeOK
<1>1. ASSUME NEW t \in Target, R!DropCards(t) PROVE R!IndInv'
  BY <1>0, <1>1, FewerCards DEF R!DropCards
<1>2. ASSUME NEW w \in Indexer, R!Crash(w) PROVE R!IndInv'
  BY <1>0, <1>2, FewerCards DEF R!Crash
<1>3. CASE UNCHANGED R!vars
  BY <1>0, <1>3, FewerCards DEF R!vars
<1> QED BY <1>1, <1>2, <1>3, DeleteStep, InsertStep DEF R!Next

(***************************************************************************)
(* Searches over the table.                                                *)
(***************************************************************************)
\* Cardinality is the same operator in the instance.
LEMMA SameCount == \A S : R!Cardinality(S) = Cardinality(S)
BY DEF R!Cardinality, Cardinality

\* Scores: the denominators are positive.
Fraction == Int \X (Nat \ {0})

\* Multiplying keeps an order, and a positive factor can be taken out again.
LEMMA Factor ==
    ASSUME NEW x \in Int, NEW y \in Int, NEW n \in Nat \ {0}
    PROVE  /\ x * n \in Int /\ n * x = x * n
           /\ x >= y <=> x * n >= y * n
           /\ x > y <=> x * n > y * n
OBVIOUS

\* Above is a strict order of fractions, and fractions of which none is above the other
\* are equal to any third.
LEMMA AboveOrder ==
    ASSUME NEW s \in Fraction, NEW t \in Fraction, NEW u \in Fraction
    PROVE  /\ R!Above(s, t) => ~R!Above(t, s)
           /\ ~R!Above(t, s) /\ ~R!Above(u, t) => ~R!Above(u, s)
           /\ ~R!Above(t, s) /\ R!Above(t, u) => R!Above(s, u)
           /\ R!Above(s, t) /\ ~R!Above(u, t) => R!Above(s, u)
<1> PICK a \in Int, b \in Nat \ {0} : s = <<a, b>>
  BY DEF Fraction
<1> PICK c \in Int, d \in Nat \ {0} : t = <<c, d>>
  BY DEF Fraction
<1> PICK e \in Int, f \in Nat \ {0} : u = <<e, f>>
  BY DEF Fraction
<1>0. /\ R!Above(s, t) <=> a * d > c * b
      /\ R!Above(t, s) <=> c * b > a * d
      /\ R!Above(t, u) <=> c * f > e * d
      /\ R!Above(u, t) <=> e * d > c * f
      /\ R!Above(s, u) <=> a * f > e * b
      /\ R!Above(u, s) <=> e * b > a * f
  BY DEF R!Above
<1> DEFINE ad == a * d
           cb == c * b
           cf == c * f
           ed == e * d
           af == a * f
           eb == e * b
<1>1. ad \in Int /\ cb \in Int /\ cf \in Int /\ ed \in Int /\ af \in Int /\ eb \in Int
  OBVIOUS
<1>2. ad * f = af * d /\ cb * f = cf * b /\ ed * b = eb * d
  OBVIOUS
<1> HIDE DEF ad, cb, cf, ed, af, eb
<1>3. (cb > ad <=> cb * f > ad * f) /\ (ad > cb <=> ad * f > cb * f)
  BY <1>1, Factor
<1>4. (ed > cf <=> ed * b > cf * b) /\ (cf > ed <=> cf * b > ed * b)
  BY <1>1, Factor
<1>5. (eb > af <=> eb * d > af * d) /\ (af > eb <=> af * d > eb * d)
  BY <1>1, Factor
<1>6. ad * f \in Int /\ cb * f \in Int /\ ed * b \in Int /\ cf * b \in Int /\ eb * d \in Int /\ af * d \in Int
  BY <1>1
<1>7. /\ R!Above(s, t) <=> ad > cb
      /\ R!Above(t, s) <=> cb > ad
      /\ R!Above(t, u) <=> cf > ed
      /\ R!Above(u, t) <=> ed > cf
      /\ R!Above(s, u) <=> af > eb
      /\ R!Above(u, s) <=> eb > af
  BY <1>0 DEF ad, cb, cf, ed, af, eb
<1> QED BY <1>2, <1>3, <1>4, <1>5, <1>6, <1>7

\* A sum is a fraction, and grows with each of its parts.
LEMMA PlusGrows ==
    ASSUME NEW p \in Fraction, NEW q \in Fraction, NEW r \in Fraction, NEW s \in Fraction
    PROVE  /\ R!Plus(p, q) \in Fraction
           /\ ~R!Above(r, p) /\ R!Above(q, s) => R!Above(R!Plus(p, q), R!Plus(r, s))
           /\ R!Above(p, r) /\ ~R!Above(s, q) => R!Above(R!Plus(p, q), R!Plus(r, s))
<1> PICK a \in Int, b \in Nat \ {0} : p = <<a, b>>
  BY DEF Fraction
<1> PICK c \in Int, d \in Nat \ {0} : q = <<c, d>>
  BY DEF Fraction
<1> PICK e \in Int, f \in Nat \ {0} : r = <<e, f>>
  BY DEF Fraction
<1> PICK g \in Int, h \in Nat \ {0} : s = <<g, h>>
  BY DEF Fraction
<1>1. b * d \in Nat \ {0} /\ f * h \in Nat \ {0}
  OBVIOUS
<1>2. R!Plus(p, q) = <<a * d + c * b, b * d>> /\ R!Plus(r, s) = <<e * h + g * f, f * h>>
  BY DEF R!Plus
<1>3. R!Plus(p, q) \in Fraction
  BY <1>1, <1>2 DEF Fraction
<1> DEFINE af == a * f
           eb == e * b
           ch == c * h
           gd == g * d
           left == (a * d + c * b) * (f * h)
           right == (e * h + g * f) * (b * d)
<1>4. /\ R!Above(p, r) <=> af > eb
      /\ R!Above(r, p) <=> eb > af
      /\ R!Above(q, s) <=> ch > gd
      /\ R!Above(s, q) <=> gd > ch
  BY DEF R!Above
<1>5. R!Above(R!Plus(p, q), R!Plus(r, s)) <=> left > right
  BY <1>2 DEF R!Above
<1>6. /\ left = af * (d * h) + ch * (b * f)
      /\ right = eb * (d * h) + gd * (b * f)
  OBVIOUS
<1>7. d * h \in Nat \ {0} /\ b * f \in Nat \ {0}
  OBVIOUS
<1>8. af \in Int /\ eb \in Int /\ ch \in Int /\ gd \in Int
  OBVIOUS
<1> HIDE DEF af, eb, ch, gd, left, right
<1> DEFINE dh == d * h
           bf == b * f
<1>9. /\ af > eb <=> af * dh > eb * dh
      /\ af >= eb <=> af * dh >= eb * dh
  BY <1>7, <1>8, Factor
<1>10. /\ ch > gd <=> ch * bf > gd * bf
       /\ ch >= gd <=> ch * bf >= gd * bf
  BY <1>7, <1>8, Factor
<1>11. af * dh \in Int /\ eb * dh \in Int /\ ch * bf \in Int /\ gd * bf \in Int
  BY <1>7, <1>8
<1>12. left = af * dh + ch * bf /\ right = eb * dh + gd * bf
  BY <1>6
<1> HIDE DEF dh, bf
<1>13. ~(eb > af) /\ ch > gd => left > right
  BY <1>8, <1>9, <1>10, <1>11, <1>12
<1>14. af > eb /\ ~(gd > ch) => left > right
  BY <1>8, <1>9, <1>10, <1>11, <1>12
<1> QED BY <1>3, <1>4, <1>5, <1>13, <1>14

\* Before is transitive where scores are fractions and ids numbers.
LEMMA BeforeOrder ==
    ASSUME NEW S, NEW score \in [S -> Fraction], \A x \in S : x.id \in Int,
           NEW c \in S, NEW d \in S, NEW e \in S,
           R!Before(e, c, score), R!Before(c, d, score)
    PROVE  R!Before(e, d, score)
<1>1. score[c] \in Fraction /\ score[d] \in Fraction /\ score[e] \in Fraction
  OBVIOUS
<1>2. /\ R!Above(score[e], score[c]) => ~R!Above(score[c], score[e])
      /\ R!Above(score[c], score[d]) => ~R!Above(score[d], score[c])
      /\ ~R!Above(score[c], score[e]) /\ ~R!Above(score[d], score[c]) => ~R!Above(score[d], score[e])
      /\ ~R!Above(score[c], score[e]) /\ R!Above(score[c], score[d]) => R!Above(score[e], score[d])
      /\ R!Above(score[e], score[c]) /\ ~R!Above(score[d], score[c]) => R!Above(score[e], score[d])
  BY <1>1, AboveOrder
<1>3. c.id \in Int /\ d.id \in Int /\ e.id \in Int
  OBVIOUS
<1> QED BY <1>2, <1>3 DEF R!Before

\* A position counts what comes before: it is at most the size of the list, and a card
\* that comes before another has the lower one.
LEMMA PositionFacts ==
    ASSUME NEW S, IsFiniteSet(S), NEW T, S \subseteq T, NEW score \in [T -> Fraction],
           \A x \in T : x.id \in Int, NEW c \in S
    PROVE  /\ R!Position(c, S, score) \in 1..Cardinality(S)
           /\ \A d \in S : R!Before(c, d, score) => R!Position(c, S, score) < R!Position(d, S, score)
<1> DEFINE above(x) == {y \in S : R!Before(y, x, score)}
<1>1. ASSUME NEW x \in S
      PROVE  /\ R!Position(x, S, score) = Cardinality(above(x)) + 1
             /\ IsFiniteSet(above(x)) /\ Cardinality(above(x)) \in Nat
             /\ Cardinality(above(x)) < Cardinality(S)
  <2>1. R!Position(x, S, score) = Cardinality(above(x)) + 1
    BY SameCount DEF R!Position
  <2>2. ~R!Before(x, x, score)
    BY AboveOrder DEF R!Before
  <2>3. above(x) \in SUBSET S /\ above(x) # S
    BY <2>2
  <2>4. IsFiniteSet(above(x)) /\ Cardinality(above(x)) <= Cardinality(S) /\ Cardinality(above(x)) # Cardinality(S)
    BY <2>3, FS_Subset
  <2>5. Cardinality(above(x)) \in Nat /\ Cardinality(S) \in Nat
    BY <2>4, FS_CardinalityType
  <2> QED BY <2>1, <2>4, <2>5
<1>2. Cardinality(S) \in Nat
  BY FS_CardinalityType
<1>3. ASSUME NEW d \in S, R!Before(c, d, score)
      PROVE  R!Position(c, S, score) < R!Position(d, S, score)
  <2>1. \A e \in S : R!Before(e, c, score) => R!Before(e, d, score)
    BY <1>3, BeforeOrder
  <2>2. above(c) \in SUBSET above(d)
    BY <2>1
  <2>3. ~R!Before(c, c, score)
    BY AboveOrder DEF R!Before
  <2>4. above(c) # above(d)
    BY <1>3, <2>3
  <2>5. Cardinality(above(c)) <= Cardinality(above(d)) /\ Cardinality(above(c)) # Cardinality(above(d))
    BY <1>1, <2>2, <2>4, FS_Subset
  <2> QED BY <1>1, <2>5
<1>4. R!Position(c, S, score) \in 1..Cardinality(S)
  <2> HIDE DEF above
  <2>1. /\ R!Position(c, S, score) = Cardinality(above(c)) + 1
        /\ Cardinality(above(c)) \in Nat /\ Cardinality(above(c)) < Cardinality(S)
    BY <1>1
  <2> QED BY <2>1, <1>2
<1> QED BY <1>3, <1>4

\* The table is finite, as ids are given out once.
LEMMA CardsAreFinite ==
    ASSUME R!IndInv
    PROVE  IsFiniteSet(cards) /\ \A c \in cards : c \in R!Card /\ c.id \in Int
<1> DEFINE id == [c \in cards |-> c.id]
<1>1. \A c \in cards : c \in R!Card /\ c.id \in 1..MaxCards
  BY CallTypes DEF R!IndInv
<1>2. id \in Injection(cards, 1..MaxCards)
  BY <1>1 DEF R!IndInv, R!CallsInv, Injection, IsInjective
<1>3. IsFiniteSet(1..MaxCards)
  BY TableAssumption, FS_Interval
<1>4. IsFiniteSet(cards)
  BY <1>2, <1>3, FS_Injection
<1> QED BY <1>1, <1>4

\* The lists of a query are finite, have scores for all they rank, and take their cards
\* from those within the filters.
LEMMA ListFacts ==
    ASSUME R!IndInv, NEW q \in Query
    PROVE  /\ IsFiniteSet(R!Base(q)) /\ R!Base(q) \subseteq cards /\ \A c \in R!Base(q) : c.id \in Int
           /\ R!Density(q) \in [R!Base(q) -> Fraction]
           /\ R!Embedded(q) \subseteq R!Base(q)
           /\ R!Distance(q) \in [R!Embedded(q) -> Fraction]
           /\ R!Keyword(q) \subseteq {c \in R!Base(q) : q.density[c.text] > 0}
           /\ R!Semantic(q) \subseteq R!Embedded(q)
<1>1. IsFiniteSet(cards) /\ \A c \in cards : c \in R!Card /\ c.id \in Int
  BY CardsAreFinite
<1>2. R!Base(q) \in SUBSET cards
  BY DEF R!Base
<1>3. IsFiniteSet(R!Base(q))
  BY <1>1, <1>2, FS_Subset
<1>4. R!IsQuery(q)
  BY SearchAssumption
<1>5. \A c \in R!Base(q) : c.text \in R!Text /\ c.version \in 0..Models /\ c.id \in Int
  BY <1>1, <1>2 DEF R!Card
<1>6. R!Density(q) \in [R!Base(q) -> Fraction]
  BY <1>4, <1>5 DEF R!Density, R!IsQuery, Fraction
<1>7. R!Embedded(q) \subseteq R!Base(q)
  BY DEF R!Embedded
<1>8. R!Distance(q) \in [R!Embedded(q) -> Fraction]
  <2> SUFFICES ASSUME NEW c \in R!Embedded(q) PROVE <<-q.vector.distance[c.text], 1>> \in Fraction
    BY DEF R!Distance
  <2>1. c.text \in {"short", "long"} /\ q.vector.version # 0
    BY <1>5, <1>7 DEF R!Embedded, R!Text
  <2>2. q.vector.distance[c.text] \in Nat
    BY <1>4, <2>1 DEF R!IsQuery
  <2> QED BY <2>2 DEF Fraction
<1>9. R!Keyword(q) \subseteq {c \in R!Base(q) : q.density[c.text] > 0}
  BY DEF R!Keyword, R!First
<1>10. R!Semantic(q) \subseteq R!Embedded(q)
  BY DEF R!Semantic, R!First
<1> QED BY <1>2, <1>3, <1>5, <1>6, <1>7, <1>8, <1>9, <1>10

\* What a list gives to a card: more than to those behind it and to those it lacks.
LEMMA ReciprocalFacts ==
    ASSUME NEW S, IsFiniteSet(S), NEW T, S \subseteq T, NEW score \in [T -> Fraction],
           \A x \in T : x.id \in Int, NEW c, NEW d
    PROVE  /\ R!Reciprocal(c, S, score) \in Fraction
           /\ d \in S /\ R!InBetter(c, d, S, score) =>
                 R!Above(R!Reciprocal(c, S, score), R!Reciprocal(d, S, score))
           /\ d \notin S => ~R!Above(R!Reciprocal(d, S, score), R!Reciprocal(c, S, score))
<1>1. RrfK \in Nat /\ Cardinality(S) \in Nat
  BY SearchAssumption, FS_CardinalityType
<1>2. ASSUME NEW x PROVE R!Reciprocal(x, S, score) \in Fraction
  <2>1. CASE x \in S
    <3>1. R!Position(x, S, score) \in 1..Cardinality(S)
      BY <2>1, PositionFacts
    <3> QED BY <1>1, <2>1, <3>1 DEF R!Reciprocal, Fraction
  <2>2. CASE x \notin S
    BY <2>2 DEF R!Reciprocal, R!Zero, Fraction
  <2> QED BY <2>1, <2>2
<1>3. ASSUME d \in S, R!InBetter(c, d, S, score)
      PROVE  R!Above(R!Reciprocal(c, S, score), R!Reciprocal(d, S, score))
  <2>1. c \in S /\ R!Before(c, d, score)
    BY <1>3 DEF R!InBetter, R!Before
  <2>2. /\ R!Position(c, S, score) \in 1..Cardinality(S)
        /\ R!Position(d, S, score) \in 1..Cardinality(S)
        /\ R!Position(c, S, score) < R!Position(d, S, score)
    BY <1>3, <2>1, PositionFacts
  <2> QED BY <1>1, <1>3, <2>1, <2>2 DEF R!Reciprocal, R!Above
<1>4. ASSUME d \notin S
      PROVE  ~R!Above(R!Reciprocal(d, S, score), R!Reciprocal(c, S, score))
  <2>1. R!Reciprocal(d, S, score) = <<0, 1>>
    BY <1>4 DEF R!Reciprocal, R!Zero
  <2>2. CASE c \in S
    <3>1. R!Position(c, S, score) \in 1..Cardinality(S)
      BY <2>2, PositionFacts
    <3>2. R!Reciprocal(c, S, score) = <<1, RrfK + R!Position(c, S, score)>>
      BY <2>2 DEF R!Reciprocal
    <3> QED BY <1>1, <2>1, <3>1, <3>2 DEF R!Above
  <2>3. CASE c \notin S
    BY <2>1, <2>3 DEF R!Reciprocal, R!Zero, R!Above
  <2> QED BY <2>2, <2>3
<1> QED BY <1>2, <1>3, <1>4

\* The fused list ranks the candidates, and only them, by fractions.
LEMMA RankingFacts ==
    ASSUME R!IndInv, NEW q \in Query, NEW C, C = R!Keyword(q) \cup R!Semantic(q)
    PROVE  /\ R!Scores(q) \in [C -> Fraction]
           /\ \A c \in C : R!Scores(q)[c] =
                 R!Plus(R!Reciprocal(c, R!Keyword(q), R!Density(q)), R!Reciprocal(c, R!Semantic(q), R!Distance(q)))
           /\ IsFiniteSet(C) /\ C \subseteq R!Base(q) /\ IsFiniteSet(R!Keyword(q)) /\ IsFiniteSet(R!Semantic(q))
           /\ R!Ranking(q) = [c \in C |-> R!Position(c, C, R!Scores(q))]
           /\ R!Ranking(q) \in [C -> 1..Cardinality(C)]
<1>1. C \in SUBSET R!Base(q) /\ R!Keyword(q) \in SUBSET R!Base(q) /\ R!Semantic(q) \in SUBSET R!Base(q)
  BY ListFacts
<1>2. IsFiniteSet(C) /\ IsFiniteSet(R!Keyword(q)) /\ IsFiniteSet(R!Semantic(q))
  BY <1>1, ListFacts, FS_Subset
<1>3. R!Scores(q) = [c \in C |->
          R!Plus(R!Reciprocal(c, R!Keyword(q), R!Density(q)), R!Reciprocal(c, R!Semantic(q), R!Distance(q)))]
  BY DEF R!Scores, R!Fused
<1>4. ASSUME NEW c \in C
      PROVE  R!Plus(R!Reciprocal(c, R!Keyword(q), R!Density(q)), R!Reciprocal(c, R!Semantic(q), R!Distance(q)))
                \in Fraction
  <2>1. R!Reciprocal(c, R!Keyword(q), R!Density(q)) \in Fraction
    BY <1>1, <1>2, ListFacts, ReciprocalFacts
  <2>2. R!Reciprocal(c, R!Semantic(q), R!Distance(q)) \in Fraction
    BY <1>1, <1>2, ListFacts, ReciprocalFacts
  <2> QED BY <2>1, <2>2, PlusGrows
<1>5. R!Scores(q) \in [C -> Fraction] /\ DOMAIN R!Scores(q) = C
  BY <1>3, <1>4
<1>6. R!Ranking(q) = [c \in C |-> R!Position(c, C, R!Scores(q))]
  BY <1>5 DEF R!Ranking
<1>7. \A c \in C : c.id \in Int
  BY <1>1, ListFacts
<1>8. ASSUME NEW c \in C PROVE R!Position(c, C, R!Scores(q)) \in 1..Cardinality(C)
  BY <1>2, <1>5, <1>7, PositionFacts
<1> QED BY <1>1, <1>2, <1>3, <1>5, <1>6, <1>8

\* The lists alone decide on the order, for any numbers of candidates and any scores.
LEMMA DominanceHolds == R!IndInv => R!DominantRanksFirst
<1> SUFFICES ASSUME R!IndInv, NEW q \in Query,
                    NEW c \in R!Keyword(q) \cup R!Semantic(q), NEW d \in R!Keyword(q) \cup R!Semantic(q),
                    R!InBetter(c, d, R!Keyword(q), R!Density(q)),
                    R!InBetter(c, d, R!Semantic(q), R!Distance(q))
             PROVE  R!Ranking(q)[c] < R!Ranking(q)[d]
  BY DEF R!DominantRanksFirst
<1> DEFINE C == R!Keyword(q) \cup R!Semantic(q)
           k(x) == R!Reciprocal(x, R!Keyword(q), R!Density(q))
           s(x) == R!Reciprocal(x, R!Semantic(q), R!Distance(q))
<1>1. /\ R!Scores(q) \in [C -> Fraction]
      /\ R!Scores(q)[c] = R!Plus(k(c), s(c)) /\ R!Scores(q)[d] = R!Plus(k(d), s(d))
      /\ IsFiniteSet(C) /\ C \subseteq R!Base(q) /\ IsFiniteSet(R!Keyword(q)) /\ IsFiniteSet(R!Semantic(q))
      /\ R!Ranking(q)[c] = R!Position(c, C, R!Scores(q))
      /\ R!Ranking(q)[d] = R!Position(d, C, R!Scores(q))
  BY RankingFacts
<1>2. /\ R!Keyword(q) \subseteq R!Base(q) /\ R!Density(q) \in [R!Base(q) -> Fraction]
      /\ R!Semantic(q) \subseteq R!Embedded(q) /\ R!Distance(q) \in [R!Embedded(q) -> Fraction]
      /\ \A x \in R!Base(q) : x.id \in Int
      /\ \A x \in R!Embedded(q) : x.id \in Int
      /\ \A x \in C : x.id \in Int
  BY <1>1, ListFacts
<1>3. /\ k(c) \in Fraction /\ k(d) \in Fraction
      /\ d \in R!Keyword(q) => R!Above(k(c), k(d))
      /\ d \notin R!Keyword(q) => ~R!Above(k(d), k(c))
  BY <1>1, <1>2, ReciprocalFacts
<1>4. /\ s(c) \in Fraction /\ s(d) \in Fraction
      /\ d \in R!Semantic(q) => R!Above(s(c), s(d))
      /\ d \notin R!Semantic(q) => ~R!Above(s(d), s(c))
  BY <1>1, <1>2, ReciprocalFacts
<1>5. R!Above(R!Plus(k(c), s(c)), R!Plus(k(d), s(d)))
  <2> HIDE DEF k, s, C
  <2>1. ~R!Above(k(d), k(c)) /\ ~R!Above(s(d), s(c))
    BY <1>3, <1>4, AboveOrder
  <2>2. R!Above(k(c), k(d)) \/ R!Above(s(c), s(d))
    BY <1>3, <1>4
  <2> QED BY <1>3, <1>4, <2>1, <2>2, PlusGrows
<1>6. R!Before(c, d, R!Scores(q))
  BY <1>1, <1>5 DEF R!Before
<1>7. R!Position(c, C, R!Scores(q)) < R!Position(d, C, R!Scores(q))
  BY <1>1, <1>2, <1>6, PositionFacts
<1> QED BY <1>1, <1>7

\* Two instants make a day.
LEMMA Halves ==
    ASSUME NEW t \in Nat
    PROVE  LET day == R!DayOf(t) IN day \in Nat /\ (t = 2 * day \/ t = 2 * day - 1)
BY DEF R!DayOf

\* The instants that the bounds stand for and the days that were asked for come to the
\* same cards.
LEMMA BaseIsAsked ==
    ASSUME R!IndInv, NEW q \in Query
    PROVE  R!Base(q) = {c \in cards : R!Asked(c, q)}
<1> SUFFICES ASSUME NEW c \in cards
             PROVE  R!InRange(Attr[c.target].time, q) <=>
                       \/ q.from = 0 /\ q.to = 0
                       \/ /\ Attr[c.target].time # 0
                          /\ q.from <= R!DayOf(Attr[c.target].time)
                          /\ q.to # 0 => R!DayOf(Attr[c.target].time) <= q.to
  BY DEF R!Base, R!Asked
<1>1. q.from \in Nat /\ q.to \in Nat
  BY SearchAssumption DEF R!IsQuery
<1>2. Attr[c.target].time \in Nat
  BY SearchAssumption, CardsAreFinite DEF R!Card
<1> DEFINE t == Attr[c.target].time
           day == R!DayOf(t)
<1>3. day \in Nat /\ (t = 2 * day \/ t = 2 * day - 1)
  BY <1>2, Halves
<1> HIDE DEF t, day
<1>5. t # 0 => (q.from <= day <=> (q.from # 0 => 2 * q.from - 1 <= t))
  BY <1>1, <1>3
<1>6. q.to # 0 => (day <= q.to <=> t <= 2 * q.to)
  BY <1>1, <1>3
<1>7. R!InRange(t, q) <=>
         \/ q.from = 0 /\ q.to = 0
         \/ t # 0 /\ q.from <= day /\ (q.to # 0 => day <= q.to)
  BY <1>5, <1>6 DEF R!InRange, R!LowerBound, R!UpperBound
<1> QED BY <1>7 DEF t, day

\* Nothing is cut from a list that is no longer than the limit.
LEMMA FirstOfFew ==
    ASSUME NEW S, IsFiniteSet(S), NEW T, S \subseteq T, NEW score \in [T -> Fraction],
           \A x \in T : x.id \in Int, NEW n \in Nat, Cardinality(S) <= n
    PROVE  R!First(n, S, score) = S
<1>1. Cardinality(S) \in Nat
  BY FS_CardinalityType
<1>2. ASSUME NEW c \in S PROVE R!Position(c, S, score) <= n
  <2>1. R!Position(c, S, score) \in 1..Cardinality(S)
    BY PositionFacts
  <2> QED BY <1>1, <2>1
<1> QED BY <1>2 DEF R!First

\* With no more cards within the filters than a list takes, every match is on a list.
LEMMA FewAreListed ==
    ASSUME R!IndInv, NEW q \in Query, Cardinality(R!Base(q)) <= Candidates,
           NEW c \in R!Base(q), R!Matches(c, q)
    PROVE  c \in R!Keyword(q) \cup R!Semantic(q)
<1>1. Candidates \in Nat /\ IsFiniteSet(R!Base(q)) /\ Cardinality(R!Base(q)) \in Nat
  BY SearchAssumption, ListFacts, FS_CardinalityType
<1>2. ASSUME NEW S \in SUBSET R!Base(q)
      PROVE  IsFiniteSet(S) /\ Cardinality(S) <= Candidates
  <2>1. IsFiniteSet(S) /\ Cardinality(S) <= Cardinality(R!Base(q))
    BY <1>1, FS_Subset
  <2>2. Cardinality(S) \in Nat
    BY <2>1, FS_CardinalityType
  <2> QED BY <1>1, <2>1, <2>2
<1>3. /\ \A x \in R!Base(q) : x.id \in Int
      /\ R!Density(q) \in [R!Base(q) -> Fraction]
      /\ R!Embedded(q) \in SUBSET R!Base(q)
      /\ R!Distance(q) \in [R!Embedded(q) -> Fraction]
  BY ListFacts
<1>4. CASE q.density[c.text] > 0
  <2> DEFINE L == {x \in R!Base(q) : q.density[x.text] > 0}
  <2>1. IsFiniteSet(L) /\ Cardinality(L) <= Candidates /\ L \subseteq R!Base(q)
    BY <1>2
  <2>2. R!First(Candidates, L, R!Density(q)) = L
    BY <1>1, <1>3, <2>1, FirstOfFew
  <2> QED BY <1>4, <2>2 DEF R!Keyword
<1>5. CASE c.text # "secret" /\ c.version = q.vector.version /\ c.version # 0
  <2> DEFINE long == {x \in R!Embedded(q) : x.text = "long"}
             short == {x \in R!Embedded(q) : x.text = "short"}
             even == [x \in R!Embedded(q) |-> R!Zero]
  <2>1. even \in [R!Embedded(q) -> Fraction]
    BY DEF R!Zero, Fraction
  <2>2. /\ IsFiniteSet(long) /\ Cardinality(long) <= Candidates
        /\ IsFiniteSet(short) /\ Cardinality(short) <= Candidates
        /\ IsFiniteSet(long \cup short) /\ Cardinality(long \cup short) <= Candidates
    <3>1. long \in SUBSET R!Base(q) /\ short \in SUBSET R!Base(q) /\ long \cup short \in SUBSET R!Base(q)
      BY <1>3
    <3> QED BY <1>2, <3>1
  <2>3. /\ long \subseteq R!Embedded(q) /\ short \subseteq R!Embedded(q)
        /\ \A x \in R!Embedded(q) : x.id \in Int
    BY <1>3
  <2>4. c \in long \cup short
    <3>1. c \in R!Embedded(q)
      BY <1>5 DEF R!Embedded
    <3>2. c.text \in {"short", "long", "secret"}
      BY CardsAreFinite DEF R!Base, R!Card, R!Text
    <3> QED BY <1>5, <3>1, <3>2
  <2> HIDE DEF even, long, short
  <2>5. R!First(Candidates, long, even) = long
    BY <1>1, <2>1, <2>2, <2>3, FirstOfFew
  <2>6. R!First(Candidates, short, R!Distance(q)) = short
    BY <1>1, <1>3, <2>2, <2>3, FirstOfFew
  <2>7. R!First(Candidates, long \cup short, R!Distance(q)) = long \cup short
    BY <1>1, <1>3, <2>2, <2>3, FirstOfFew
  <2>8. R!Semantic(q) = long \cup short
    BY <2>5, <2>6, <2>7 DEF R!Semantic, even, long, short
  <2> QED BY <2>4, <2>8
<1> QED BY <1>4, <1>5 DEF R!Matches

\* Of the cards of a finite list one has the last position: the one that the fewest are
\* behind.
LEMMA LastExists ==
    ASSUME NEW S, IsFiniteSet(S), S # {}, NEW rank, \A c \in S : rank[c] \in Nat
    PROVE  \E c \in S : \A d \in S : rank[d] <= rank[c]
<1> DEFINE behind(c) == {d \in S : rank[d] > rank[c]}
           all == {behind(c) : c \in S}
<1>1. all \subseteq FiniteSubsetsOf(S) /\ all # {}
  <2>1. \A c \in S : behind(c) \in SUBSET S
    OBVIOUS
  <2>2. \A c \in S : IsFiniteSet(behind(c))
    BY <2>1, FS_Subset
  <2> QED BY <2>1, <2>2 DEF FiniteSubsetsOf
<1>2. PICK U \in all : \A V \in all : ~(<<V, U>> \in StrictSubsetOrdering(S))
  <2> HIDE DEF all
  <2> QED BY <1>1, FS_StrictSubsetOrderingWellFounded, WFMin
<1>3. PICK c \in S : U = behind(c)
  OBVIOUS
<1>4. ASSUME NEW d \in S, ~(rank[d] <= rank[c]) PROVE FALSE
  <2>1. behind(d) \subseteq behind(c) /\ behind(d) # behind(c)
    BY <1>4
  <2>2. behind(d) \in all /\ behind(d) \in SUBSET S /\ behind(c) \in SUBSET S
    OBVIOUS
  <2> QED BY <1>2, <1>3, <2>1, <2>2 DEF StrictSubsetOrdering
<1> QED BY <1>4

\* A package holds no more bytes than fit, and grows with its hits.
LEMMA PackageFits ==
    ASSUME NEW C, IsFiniteSet(C), NEW ranking \in [C -> 1..Cardinality(C)]
    PROVE  /\ R!Bytes(R!Selected(ranking)) <= Ceiling
           /\ \A c \in R!Selected(ranking), d \in R!Hits(ranking) :
                 ranking[d] < ranking[c] => d \in R!Selected(ranking)
<1> DEFINE hits == R!Hits(ranking)
           taken == R!Selected(ranking)
           upto(c) == R!UpTo(c, ranking)
<1>1. Cardinality(C) \in Nat /\ Ceiling \in Nat
  BY FS_CardinalityType, SearchAssumption
<1>2. hits \in SUBSET C /\ taken = {c \in hits : R!Bytes(upto(c)) <= Ceiling}
  BY DEF R!Hits, R!Selected
<1>3. \A c \in C : upto(c) = {d \in hits : ranking[d] <= ranking[c]} /\ ranking[c] \in Nat
  BY <1>1 DEF R!UpTo
<1> HIDE DEF hits, taken, upto
<1>4. ASSUME NEW S \in SUBSET C, NEW T \in SUBSET S
      PROVE  R!Bytes(T) \in Nat /\ R!Bytes(T) <= R!Bytes(S)
  <2> DEFINE long(U) == {c \in U : c.text = "long"}
  <2>1. T \in SUBSET C /\ long(S) \in SUBSET C /\ long(T) \in SUBSET C /\ long(T) \in SUBSET long(S)
    OBVIOUS
  <2>2. /\ IsFiniteSet(S) /\ IsFiniteSet(T) /\ IsFiniteSet(long(S)) /\ IsFiniteSet(long(T))
        /\ Cardinality(T) <= Cardinality(S) /\ Cardinality(long(T)) <= Cardinality(long(S))
    BY <2>1, FS_Subset
  <2>3. /\ Cardinality(S) \in Nat /\ Cardinality(T) \in Nat
        /\ Cardinality(long(S)) \in Nat /\ Cardinality(long(T)) \in Nat
    BY <2>2, FS_CardinalityType
  <2>4. /\ R!Bytes(S) = Cardinality(S) + Cardinality(long(S))
        /\ R!Bytes(T) = Cardinality(T) + Cardinality(long(T))
    BY SameCount DEF R!Bytes
  <2> QED BY <2>2, <2>3, <2>4
<1>5. R!Bytes(taken) <= Ceiling
  <2>1. CASE taken = {}
    <3>1. R!Bytes({}) = 0
      BY SameCount, FS_EmptySet DEF R!Bytes
    <3> QED BY <1>1, <2>1, <3>1
  <2>2. CASE taken # {}
    <3>1. PICK c \in taken : \A d \in taken : ranking[d] <= ranking[c]
      <4>1. IsFiniteSet(taken) /\ \A c \in taken : ranking[c] \in Nat
        BY <1>2, <1>3, FS_Subset
      <4> QED BY <2>2, <4>1, LastExists
    <3>2. taken \in SUBSET upto(c) /\ upto(c) \in SUBSET C
      BY <1>2, <1>3, <3>1
    <3>3. R!Bytes(taken) \in Nat /\ R!Bytes(upto(c)) \in Nat /\ R!Bytes(taken) <= R!Bytes(upto(c))
      BY <1>4, <3>2
    <3>4. R!Bytes(upto(c)) <= Ceiling
      BY <1>2, <3>1
    <3> QED BY <1>1, <3>3, <3>4
  <2> QED BY <2>1, <2>2
<1>6. ASSUME NEW c \in taken, NEW d \in hits, ranking[d] < ranking[c] PROVE d \in taken
  <2>1. upto(c) \in SUBSET C /\ upto(d) \in SUBSET upto(c)
    BY <1>2, <1>3, <1>6
  <2>2. R!Bytes(upto(c)) \in Nat /\ R!Bytes(upto(d)) \in Nat /\ R!Bytes(upto(d)) <= R!Bytes(upto(c))
    BY <1>4, <2>1
  <2> QED BY <1>1, <1>2, <2>2
<1> QED BY <1>5, <1>6 DEF hits, taken

\* Every query is answered with what was asked for, within the limits and the budget.
LEMMA ServingHolds == R!IndInv => R!MatchesAreServed
<1> SUFFICES ASSUME R!IndInv, NEW q \in Query
             PROVE  LET ranking == R!Ranking(q)
                        hits    == R!Hits(ranking)
                        taken   == R!Selected(ranking)
                        crowd   == Cardinality({c \in cards : R!Asked(c, q)}) - 1
                    IN  /\ \A c \in hits : R!Asked(c, q) /\ R!Matches(c, q)
                        /\ \A c \in cards : R!Asked(c, q) /\ R!Matches(c, q) =>
                              c \in hits \/ crowd >= Candidates \/ crowd >= Limit
                        /\ R!Bytes(taken) <= Ceiling
                        /\ \A c \in taken, d \in hits : ranking[d] < ranking[c] => d \in taken
  BY SameCount DEF R!MatchesAreServed
<1> DEFINE ranking == R!Ranking(q)
           C == R!Keyword(q) \cup R!Semantic(q)
<1>1. IsFiniteSet(C) /\ C \in SUBSET R!Base(q) /\ ranking \in [C -> 1..Cardinality(C)]
  BY RankingFacts
<1>2. R!Base(q) = {c \in cards : R!Asked(c, q)}
  BY BaseIsAsked
<1>3. /\ IsFiniteSet(R!Base(q)) /\ Cardinality(R!Base(q)) \in Nat
      /\ Cardinality(C) \in Nat /\ Cardinality(C) <= Cardinality(R!Base(q))
  BY <1>1, ListFacts, FS_CardinalityType, FS_Subset
<1>4. R!Hits(ranking) = {c \in C : ranking[c] <= Limit}
  BY <1>1 DEF R!Hits
<1>5. ASSUME NEW c \in C PROVE R!Asked(c, q) /\ R!Matches(c, q)
  BY <1>1, <1>2, ListFacts DEF R!Matches, R!Embedded
<1>6. ASSUME NEW c \in cards, R!Asked(c, q), R!Matches(c, q),
             ~(Cardinality(R!Base(q)) - 1 >= Candidates), ~(Cardinality(R!Base(q)) - 1 >= Limit)
      PROVE  c \in R!Hits(ranking)
  <2>1. Candidates \in Nat /\ Limit \in Nat
    BY SearchAssumption
  <2>2. Cardinality(R!Base(q)) <= Candidates /\ Cardinality(R!Base(q)) <= Limit
    BY <1>3, <1>6, <2>1
  <2>3. c \in C
    BY <1>2, <1>6, <2>2, FewAreListed
  <2>4. ranking[c] \in 1..Cardinality(C)
    BY <1>1, <2>3
  <2> QED BY <1>3, <1>4, <2>1, <2>2, <2>3, <2>4
<1>7. /\ R!Bytes(R!Selected(ranking)) <= Ceiling
      /\ \A c \in R!Selected(ranking), d \in R!Hits(ranking) :
            ranking[d] < ranking[c] => d \in R!Selected(ranking)
  BY <1>1, PackageFits
<1> QED BY <1>2, <1>4, <1>5, <1>6, <1>7

(***************************************************************************)
(* Uploads.                                                                *)
(***************************************************************************)
\* Cardinality is the same operator in the instance; the assets are finitely many.
LEMMA AssetCounts ==
    /\ \A S : A!Cardinality(S) = Cardinality(S)
    /\ Cardinality(Upload) \in Nat
    /\ \A S \in SUBSET Upload : IsFiniteSet(S) /\ Cardinality(S) \in Nat /\ Cardinality(S) <= Cardinality(Upload)
<1>1. \A S : A!Cardinality(S) = Cardinality(S)
  <2>1. ASSUME NEW S PROVE A!Cardinality(S) = Cardinality(S)
    BY DEF A!Cardinality, Cardinality, A!IsFiniteSet, IsFiniteSet
  <2> QED BY <2>1
<1>2. Cardinality(Upload) \in Nat
  BY AssetsAssumption, FS_CardinalityType
<1>3. ASSUME NEW S \in SUBSET Upload
      PROVE  IsFiniteSet(S) /\ Cardinality(S) \in Nat /\ Cardinality(S) <= Cardinality(Upload)
  <2>1. IsFiniteSet(S) /\ Cardinality(S) <= Cardinality(Upload)
    BY AssetsAssumption, FS_Subset
  <2> QED BY <2>1, FS_CardinalityType
<1> QED BY <1>1, <1>2, <1>3

\* The initial state of the uploads satisfies their invariant.
LEMMA AssetsInit == A!Init => A!IndInv
<1> SUFFICES ASSUME A!Init PROVE A!IndInv
  OBVIOUS
<1> USE DEF A!Init
<1>1. A!TypeOK
  <2>1. 0 \in 0..A!Cardinality(Upload)
    BY AssetCounts
  <2> QED BY <2>1 DEF A!TypeOK, A!NoJob, A!NoRun
<1>2. A!UploadsInv
  BY DEF A!UploadsInv, A!Open, A!Stored
<1>3. A!BlobsAreBacked
  <2>1. \A x \in Content : A!AssetsOf(x) = {}
    BY DEF A!AssetsOf, A!Stored
  <2>2. A!Cardinality({}) = 0
    <3>1. Cardinality({}) = 0
      BY FS_EmptySet
    <3>2. A!Cardinality({}) = Cardinality({})
      BY AssetCounts
    <3> QED BY <3>1, <3>2
  <2>3. ASSUME NEW x \in Content
        PROVE  /\ blob[x] > 0 <=> A!AssetsOf(x) # {}
               /\ A!AssetsOf(x) # {} => x \in file
               /\ blob[x] <= A!Cardinality(A!AssetsOf(x))
               /\ A!Apart(x) => blob[x] = A!Cardinality(A!AssetsOf(x))
    <3>1. A!Cardinality(A!AssetsOf(x)) = 0 /\ blob[x] = 0 /\ A!AssetsOf(x) = {}
      BY <2>1, <2>2
    <3> QED BY <3>1
  <2> QED BY <2>3 DEF A!BlobsAreBacked
<1>4. A!TextIsIndexed
  BY DEF A!TextIsIndexed
<1> QED BY <1>1, <1>2, <1>3, <1>4 DEF A!IndInv

\* An upload has its fields.
LEMMA UploadTypes ==
    ASSUME A!TypeOK
    PROVE  /\ DOMAIN upload = Upload
           /\ \A u \in Upload :
                 /\ upload[u] \in [stage : {"idle", "look", "write", "commit", "stored", "failed"},
                                   content : SUBSET Content, seen : 0..A!Cardinality(Upload)]
                 /\ upload[u].content \subseteq Content
                 /\ upload[u].seen \in Nat /\ upload[u].seen \in 0..A!Cardinality(Upload)
           /\ \A x \in Content : blob[x] \in Nat /\ blob[x] \in 0..A!Cardinality(Upload)
<1>1. /\ upload \in [Upload -> [stage : {"idle", "look", "write", "commit", "stored", "failed"},
                                content : SUBSET Content, seen : 0..A!Cardinality(Upload)]]
      /\ blob \in [Content -> 0..A!Cardinality(Upload)]
  BY DEF A!TypeOK
<1>2. A!Cardinality(Upload) \in Nat
  BY AssetCounts
<1>3. \A i \in 0..A!Cardinality(Upload) : i \in Nat
  BY <1>2
<1> QED BY <1>1, <1>3

\* The assets, their blobs and whether they met are as before, or more have met.
LEMMA AssetsKept ==
    ASSUME A!BlobsAreBacked, blob' = blob, file \subseteq file',
           \A v \in Upload : upload[v].stage = "stored" => met[v] \subseteq met'[v],
           \A v \in Upload : upload'[v].stage = "stored" <=> upload[v].stage = "stored",
           \A v \in Upload : upload[v].stage = "stored" => upload'[v].content = upload[v].content
    PROVE  /\ \A x \in Content : A!AssetsOf(x)' = A!AssetsOf(x)
           /\ \A x \in Content : A!Apart(x)' => A!Apart(x)
           /\ A!BlobsAreBacked'
<1>1. \A x \in Content : A!AssetsOf(x)' = A!AssetsOf(x)
  BY DEF A!AssetsOf, A!Stored, A!Of
<1>2. \A x \in Content : \A v \in A!AssetsOf(x) : v \in Upload /\ upload[v].stage = "stored"
  BY DEF A!AssetsOf, A!Stored
<1>3. \A x \in Content : A!Apart(x)' => A!Apart(x)
  BY <1>1, <1>2 DEF A!Apart
<1> QED BY <1>1, <1>3 DEF A!BlobsAreBacked

\* What is left of the invariant when an upload takes a step and no asset is added.
LEMMA UploadsKept ==
    ASSUME A!IndInv, NEW u \in Upload,
           blob' = blob, file \subseteq file', A!TypeOK',
           \A v \in Upload : v # u => met[v] \subseteq met'[v],
           \A v \in Upload : v # u => upload'[v] = upload[v],
           upload[u].stage # "stored", upload'[u].stage # "stored",
           A!Open(u)' => \E x \in file' : upload'[u].content = {x},
           \A v \in Upload : v # u /\ A!Open(v) /\ A!Open(u)' => v \in met'[u] /\ u \in met'[v],
           \A x \in Content :
              upload'[u].stage \in {"write", "commit"} /\ upload'[u].content = {x} =>
                 /\ upload'[u].seen <= A!Cardinality(A!AssetsOf(x))
                 /\ A!Apart(x) /\ A!AssetsOf(x) \cap met'[u] = {} =>
                       upload'[u].seen = A!Cardinality(A!AssetsOf(x)),
           derived' = derived, indexed' = indexed, struck' = struck, run' = run
    PROVE  A!IndInv'
<1> USE DEF A!IndInv
<1>1. /\ \A x \in Content : A!AssetsOf(x)' = A!AssetsOf(x)
      /\ \A x \in Content : A!Apart(x)' => A!Apart(x)
      /\ A!BlobsAreBacked'
  BY AssetsKept
<1>2. A!UploadsInv'
  <2>1. ASSUME NEW v \in Upload, A!Open(v)' \/ A!Stored(v)' PROVE \E x \in file' : A!Of(v, x)'
    <3>1. CASE v = u
      BY <2>1, <3>1 DEF A!Stored, A!Of
    <3>2. CASE v # u
      BY <2>1, <3>2 DEF A!UploadsInv, A!Open, A!Stored, A!Of
    <3> QED BY <3>1, <3>2
  <2>2. ASSUME NEW v \in Upload, NEW q \in Upload, A!Open(v)', A!Open(q)', v # q
        PROVE  q \in met'[v]
    <3>1. \A y \in Upload : y # u => (A!Open(y)' <=> A!Open(y))
      BY DEF A!Open
    <3>2. CASE v # u /\ q # u
      BY <2>2, <3>1, <3>2 DEF A!UploadsInv
    <3>3. CASE v = u \/ q = u
      BY <2>2, <3>1, <3>3
    <3> QED BY <3>2, <3>3
  <2>3. ASSUME NEW v \in Upload, NEW x \in Content,
               upload'[v].stage \in {"write", "commit"}, upload'[v].content = {x}
        PROVE  /\ upload'[v].seen <= A!Cardinality(A!AssetsOf(x))
               /\ A!Apart(x) /\ A!AssetsOf(x) \cap met'[v] = {} =>
                     upload'[v].seen = A!Cardinality(A!AssetsOf(x))
    <3>1. CASE v = u
      BY <2>3, <3>1
    <3>2. CASE v # u
      <4>1. /\ upload[v].seen <= A!Cardinality(A!AssetsOf(x))
            /\ A!Apart(x) /\ A!AssetsOf(x) \cap met[v] = {} =>
                  upload[v].seen = A!Cardinality(A!AssetsOf(x))
        BY <2>3, <3>2 DEF A!UploadsInv, A!Of
      <4>2. met[v] \subseteq met'[v] /\ upload'[v] = upload[v]
        BY <3>2
      <4> QED BY <4>1, <4>2
    <3> QED BY <3>1, <3>2
  <2>4. ASSUME NEW v \in Upload, NEW x \in Content,
               upload'[v].stage \in {"write", "commit"}, A!Of(v, x)'
        PROVE  /\ upload'[v].seen <= A!Cardinality(A!AssetsOf(x)')
               /\ A!Apart(x)' /\ A!AssetsOf(x)' \cap met'[v] = {} =>
                     upload'[v].seen = A!Cardinality(A!AssetsOf(x)')
    <3>1. upload'[v].content = {x}
      BY <2>4 DEF A!Of
    <3> QED BY <1>1, <2>3, <2>4, <3>1
  <2> QED BY <2>1, <2>2, <2>4 DEF A!UploadsInv
<1>3. A!TextIsIndexed'
  BY DEF A!TextIsIndexed
<1> QED BY <1>1, <1>2, <1>3

\* The bytes are stored, and the transaction of the upload begins.
LEMMA StoreStep ==
    ASSUME A!IndInv, NEW u \in Upload, NEW x \in Content, A!Store(u, x)
    PROVE  A!IndInv'
<1> USE DEF A!IndInv, A!Store, A!jobVars
<1>1. file' = file \cup {x}
  BY DEF A!FileAfter
<1>2. /\ upload[u].stage = "idle"
      /\ upload' = [upload EXCEPT ![u].stage = "look", ![u].content = {x}]
      /\ \A v \in Upload : met'[v] = IF v = u THEN {q \in Upload : A!Open(q)}
                                     ELSE IF A!Open(v) THEN met[v] \cup {u} ELSE met[v]
  OBVIOUS
<1>3. /\ upload'[u].stage = "look" /\ upload'[u].content = {x}
      /\ \A v \in Upload : v # u => upload'[v] = upload[v]
  BY <1>2, UploadTypes
<1>4. A!TypeOK'
  <2>1. upload' \in [Upload -> [stage : {"idle", "look", "write", "commit", "stored", "failed"},
                                content : SUBSET Content, seen : 0..A!Cardinality(Upload)]]
    <3>1. [upload[u] EXCEPT !.stage = "look", !.content = {x}] \in
            [stage : {"idle", "look", "write", "commit", "stored", "failed"},
             content : SUBSET Content, seen : 0..A!Cardinality(Upload)]
      BY UploadTypes
    <3> QED BY <1>2, <3>1 DEF A!TypeOK
  <2>2. met' \in [Upload -> SUBSET Upload]
    BY DEF A!TypeOK
  <2> QED BY <1>1, <2>1, <2>2 DEF A!TypeOK
<1>5. \A v \in Upload : A!Open(v) => v # u
  BY <1>2 DEF A!Open
<1>6. \A v \in Upload : v # u /\ A!Open(v) => v \in met'[u] /\ u \in met'[v]
  BY <1>2
<1>7. \A v \in Upload : v # u => met[v] \subseteq met'[v]
  BY <1>2
<1>8. blob' = blob /\ derived' = derived /\ indexed' = indexed /\ struck' = struck /\ run' = run
  OBVIOUS
<1> QED BY <1>1, <1>2, <1>3, <1>4, <1>6, <1>7, <1>8, UploadsKept

\* The look at the blob row: the count is that of the assets, unless they met.
LEMMA LookStep ==
    ASSUME A!IndInv, NEW u \in Upload, A!LookBlob(u)
    PROVE  A!IndInv'
<1> USE DEF A!IndInv, A!LookBlob, A!jobVars
<1>1. PICK x \in upload[u].content : upload' = [upload EXCEPT ![u].stage = "write", ![u].seen = blob[x]]
  OBVIOUS
<1>2. /\ upload[u].stage = "look" /\ x \in Content /\ A!Open(u)
      /\ blob' = blob /\ file' = file /\ met' = met /\ blobLock' = blobLock
      /\ derived' = derived /\ indexed' = indexed /\ struck' = struck /\ run' = run /\ job' = job
  BY UploadTypes DEF A!Open
<1>3. PICK y \in file : upload[u].content = {y}
  BY <1>2 DEF A!UploadsInv, A!Of
<1>4. /\ upload'[u].stage = "write" /\ upload'[u].seen = blob[x] /\ upload'[u].content = {x}
      /\ \A v \in Upload : v # u => upload'[v] = upload[v]
  BY <1>1, <1>3, UploadTypes
<1>5. A!TypeOK'
  <2>1. upload' \in [Upload -> [stage : {"idle", "look", "write", "commit", "stored", "failed"},
                                content : SUBSET Content, seen : 0..A!Cardinality(Upload)]]
    <3>1. [upload[u] EXCEPT !.stage = "write", !.seen = blob[x]] \in
            [stage : {"idle", "look", "write", "commit", "stored", "failed"},
             content : SUBSET Content, seen : 0..A!Cardinality(Upload)]
      BY <1>2, UploadTypes
    <3> QED BY <1>1, <3>1 DEF A!TypeOK
  <2> QED BY <1>2, <2>1 DEF A!TypeOK
<1>6. /\ blob[x] <= A!Cardinality(A!AssetsOf(x))
      /\ A!Apart(x) => blob[x] = A!Cardinality(A!AssetsOf(x))
  BY <1>2 DEF A!BlobsAreBacked
<1>7. \A v \in Upload : v # u /\ A!Open(v) => v \in met'[u] /\ u \in met'[v]
  BY <1>2 DEF A!UploadsInv
<1>8. \E z \in file' : upload'[u].content = {z}
  BY <1>2, <1>3, <1>4
<1>9. \A z \in Content : upload'[u].content = {z} => z = x
  BY <1>4
<1> QED BY <1>2, <1>4, <1>5, <1>6, <1>7, <1>8, <1>9, UploadsKept

\* The blob row is written, or the unique constraint refuses it.
LEMMA WriteStep ==
    ASSUME A!IndInv, NEW u \in Upload, A!WriteBlob(u)
    PROVE  A!IndInv'
<1> USE DEF A!IndInv, A!WriteBlob, A!jobVars
<1>1. PICK stage \in {"commit", "failed"} : upload' = [upload EXCEPT ![u].stage = stage]
  OBVIOUS
<1>2. /\ upload[u].stage = "write" /\ A!Open(u)
      /\ blob' = blob /\ file' = file /\ met' = met
      /\ derived' = derived /\ indexed' = indexed /\ struck' = struck /\ run' = run /\ job' = job
  BY DEF A!Open
<1>3. /\ upload'[u].stage = stage /\ upload'[u].seen = upload[u].seen
      /\ upload'[u].content = upload[u].content
      /\ \A v \in Upload : v # u => upload'[v] = upload[v]
  BY <1>1, UploadTypes
<1>4. A!TypeOK'
  <2>1. upload' \in [Upload -> [stage : {"idle", "look", "write", "commit", "stored", "failed"},
                                content : SUBSET Content, seen : 0..A!Cardinality(Upload)]]
    BY <1>1 DEF A!TypeOK
  <2>2. blobLock' \in [Content -> SUBSET Upload]
    BY DEF A!TypeOK
  <2> QED BY <1>2, <2>1, <2>2 DEF A!TypeOK
<1>5. \A v \in Upload : v # u /\ A!Open(v) => v \in met'[u] /\ u \in met'[v]
  BY <1>2 DEF A!UploadsInv
<1>6. \E z \in file' : upload'[u].content = {z}
  BY <1>2, <1>3 DEF A!UploadsInv, A!Of
<1>7. \A x \in Content : upload'[u].content = {x} =>
          /\ upload'[u].seen <= A!Cardinality(A!AssetsOf(x))
          /\ A!Apart(x) /\ A!AssetsOf(x) \cap met'[u] = {} =>
                upload'[u].seen = A!Cardinality(A!AssetsOf(x))
  <2> SUFFICES ASSUME NEW x \in Content, upload[u].content = {x}
               PROVE  /\ upload[u].seen <= A!Cardinality(A!AssetsOf(x))
                      /\ A!Apart(x) /\ A!AssetsOf(x) \cap met[u] = {} =>
                            upload[u].seen = A!Cardinality(A!AssetsOf(x))
    BY <1>2, <1>3
  <2>1. A!Of(u, x) /\ upload[u].stage \in {"write", "commit"}
    BY <1>2 DEF A!Of
  <2> HIDE <1>1, <1>2, <1>3 DEF A!WriteBlob
  <2> QED BY <2>1 DEF A!UploadsInv
<1> QED BY <1>2, <1>3, <1>4, <1>5, <1>6, <1>7, UploadsKept

\* The transaction is rolled back.
LEMMA RollbackStep ==
    ASSUME A!IndInv, NEW u \in Upload, A!RollbackUpload(u)
    PROVE  A!IndInv'
<1> USE DEF A!IndInv, A!RollbackUpload, A!jobVars
<1>1. /\ upload' = [upload EXCEPT ![u].stage = "failed"] /\ A!Open(u)
      /\ blob' = blob /\ file' = file /\ met' = met
      /\ derived' = derived /\ indexed' = indexed /\ struck' = struck /\ run' = run /\ job' = job
  OBVIOUS
<1>2. /\ upload'[u].stage = "failed" /\ upload[u].stage # "stored"
      /\ \A v \in Upload : v # u => upload'[v] = upload[v]
  BY <1>1, UploadTypes DEF A!Open
<1>3. A!TypeOK'
  <2>1. upload' \in [Upload -> [stage : {"idle", "look", "write", "commit", "stored", "failed"},
                                content : SUBSET Content, seen : 0..A!Cardinality(Upload)]]
    BY <1>1 DEF A!TypeOK
  <2>2. blobLock' \in [Content -> SUBSET Upload]
    BY DEF A!TypeOK
  <2> QED BY <1>1, <2>1, <2>2 DEF A!TypeOK
<1>4. ~A!Open(u)'
  BY <1>2 DEF A!Open
<1> QED BY <1>1, <1>2, <1>3, <1>4, UploadsKept

\* The commit: one asset more, and a count of one more than was read.
LEMMA CommitStep ==
    ASSUME A!IndInv, NEW u \in Upload, A!CommitUpload(u)
    PROVE  A!IndInv'
<1> USE DEF A!IndInv, A!CommitUpload
<1>1. /\ upload[u].stage = "commit" /\ A!Open(u) /\ ~A!Stored(u)
      /\ file' = file /\ met' = met
      /\ derived' = derived /\ indexed' = indexed /\ struck' = struck /\ run' = run
      /\ upload' = [upload EXCEPT ![u].stage = "stored"]
      /\ job' = [job EXCEPT ![u] = [state |-> "queued", holder |-> {}, runs |-> 0]]
  BY DEF A!Open, A!Stored
<1>2. PICK x \in file : upload[u].content = {x}
  BY <1>1 DEF A!UploadsInv, A!Of
<1>3. x \in Content
  BY <1>2, UploadTypes
<1>4. /\ blob' = [blob EXCEPT ![x] = upload[u].seen + 1]
      /\ blobLock' = [blobLock EXCEPT ![x] = {}]
  BY <1>2 DEF A!Count
<1>5. /\ upload'[u].stage = "stored" /\ upload'[u].content = {x}
      /\ \A v \in Upload : v # u => upload'[v] = upload[v]
  BY <1>1, <1>2, UploadTypes
<1>6. /\ A!AssetsOf(x)' = A!AssetsOf(x) \cup {u}
      /\ u \notin A!AssetsOf(x)
      /\ \A y \in Content : y # x => A!AssetsOf(y)' = A!AssetsOf(y)
  BY <1>1, <1>5 DEF A!AssetsOf, A!Stored, A!Of
<1>7. \A y \in Content : A!AssetsOf(y) \in SUBSET Upload
  BY DEF A!AssetsOf
<1>8. /\ A!Cardinality(A!AssetsOf(x)') = A!Cardinality(A!AssetsOf(x)) + 1
      /\ \A y \in Content : A!Cardinality(A!AssetsOf(y)) \in Nat
      /\ A!Cardinality(A!AssetsOf(x)) + 1 <= A!Cardinality(Upload)
      /\ A!Cardinality(Upload) \in Nat
  <2>1. A!AssetsOf(x) \in SUBSET Upload /\ A!AssetsOf(x) \cup {u} \in SUBSET Upload
    BY <1>3, <1>7
  <2>2. Cardinality(A!AssetsOf(x) \cup {u}) = Cardinality(A!AssetsOf(x)) + 1
    BY <1>6, <2>1, AssetCounts, FS_AddElement
  <2> QED BY <1>6, <1>7, <2>1, <2>2, AssetCounts
<1>9. \A y \in Content : A!Apart(y)' => A!Apart(y)
  BY <1>1, <1>6 DEF A!Apart
<1>10. A!Apart(x)' => A!AssetsOf(x) \cap met[u] = {}
  BY <1>1, <1>6 DEF A!Apart
<1>11. /\ upload[u].seen \in Nat /\ upload[u].seen <= A!Cardinality(A!AssetsOf(x))
       /\ A!Apart(x) /\ A!AssetsOf(x) \cap met[u] = {} =>
             upload[u].seen = A!Cardinality(A!AssetsOf(x))
  BY <1>1, <1>2, <1>3, UploadTypes DEF A!UploadsInv, A!Of
<1>12. A!TypeOK'
  <2>1. upload' \in [Upload -> [stage : {"idle", "look", "write", "commit", "stored", "failed"},
                                content : SUBSET Content, seen : 0..A!Cardinality(Upload)]]
    BY <1>1 DEF A!TypeOK
  <2>2. upload[u].seen + 1 \in 0..A!Cardinality(Upload)
    BY <1>3, <1>8, <1>11
  <2>3. blob' \in [Content -> 0..A!Cardinality(Upload)]
    BY <1>4, <2>2 DEF A!TypeOK
  <2>4. blobLock' \in [Content -> SUBSET Upload]
    BY <1>4 DEF A!TypeOK
  <2>5. job' \in [Upload -> A!Job \cup {A!NoJob}]
    <3>1. [state |-> "queued", holder |-> {}, runs |-> 0] \in A!Job
      BY AssetsAssumption DEF A!Job
    <3> QED BY <1>1, <3>1 DEF A!TypeOK
  <2> QED BY <1>1, <2>1, <2>3, <2>4, <2>5 DEF A!TypeOK, A!Job, A!NoJob, A!Run, A!NoRun
<1>13. A!UploadsInv'
  <2>1. ASSUME NEW v \in Upload, A!Open(v)' \/ A!Stored(v)' PROVE \E y \in file' : A!Of(v, y)'
    <3>1. CASE v = u
      BY <1>1, <1>2, <1>5, <3>1 DEF A!Of
    <3>2. CASE v # u
      BY <1>1, <1>5, <2>1, <3>2 DEF A!UploadsInv, A!Open, A!Stored, A!Of
    <3> QED BY <3>1, <3>2
  <2>2. ASSUME NEW v \in Upload, NEW q \in Upload, A!Open(v)', A!Open(q)', v # q
        PROVE  q \in met'[v]
    <3>1. v # u /\ q # u
      BY <1>5, <2>2 DEF A!Open
    <3> QED BY <1>1, <1>5, <2>2, <3>1 DEF A!UploadsInv, A!Open
  <2>3. ASSUME NEW v \in Upload, NEW y \in Content,
               upload'[v].stage \in {"write", "commit"}, A!Of(v, y)'
        PROVE  /\ upload'[v].seen <= A!Cardinality(A!AssetsOf(y)')
               /\ A!Apart(y)' /\ A!AssetsOf(y)' \cap met'[v] = {} =>
                     upload'[v].seen = A!Cardinality(A!AssetsOf(y)')
    <3>1. v # u /\ upload'[v] = upload[v]
      BY <1>5, <2>3
    <3>2. /\ upload[v].seen \in Nat /\ upload[v].seen <= A!Cardinality(A!AssetsOf(y))
          /\ A!Apart(y) /\ A!AssetsOf(y) \cap met[v] = {} =>
                upload[v].seen = A!Cardinality(A!AssetsOf(y))
      BY <2>3, <3>1, UploadTypes DEF A!UploadsInv, A!Of
    <3>3. CASE y = x
      <4>1. u \in met'[v]
        BY <1>1, <2>3, <3>1 DEF A!UploadsInv, A!Open
      <4>2. A!AssetsOf(y)' \cap met'[v] # {}
        BY <1>6, <3>3, <4>1
      <4>3. upload'[v].seen <= A!Cardinality(A!AssetsOf(y)')
        BY <1>3, <1>8, <3>1, <3>2, <3>3
      <4> QED BY <4>2, <4>3
    <3>4. CASE y # x
      BY <1>1, <1>6, <1>9, <3>1, <3>2, <3>4
    <3> QED BY <3>3, <3>4
  <2> QED BY <2>1, <2>2, <2>3 DEF A!UploadsInv
<1>14. A!BlobsAreBacked'
  <2> SUFFICES ASSUME NEW y \in Content
               PROVE  /\ blob'[y] > 0 <=> A!AssetsOf(y)' # {}
                      /\ A!AssetsOf(y)' # {} => y \in file'
                      /\ blob'[y] <= A!Cardinality(A!AssetsOf(y)')
                      /\ A!Apart(y)' => blob'[y] = A!Cardinality(A!AssetsOf(y)')
    BY DEF A!BlobsAreBacked
  <2>1. CASE y = x
    <3>1. blob'[y] = upload[u].seen + 1
      BY <1>3, <1>4, <2>1 DEF A!TypeOK
    <3>2. y \in file' /\ A!AssetsOf(y)' # {}
      BY <1>1, <1>2, <1>6, <2>1
    <3>3. A!Apart(y)' => upload[u].seen = A!Cardinality(A!AssetsOf(x))
      BY <1>3, <1>9, <1>10, <1>11, <2>1
    <3> QED BY <1>3, <1>8, <1>11, <2>1, <3>1, <3>2, <3>3
  <2>2. CASE y # x
    <3>1. blob'[y] = blob[y]
      BY <1>4, <2>2 DEF A!TypeOK
    <3> QED BY <1>1, <1>6, <1>9, <2>2, <3>1 DEF A!BlobsAreBacked
  <2> QED BY <2>1, <2>2
<1>15. A!TextIsIndexed'
  BY <1>1 DEF A!TextIsIndexed
<1> QED BY <1>12, <1>13, <1>14, <1>15

\* A parse run, a lease or a deletion disturbs no upload.
LEMMA UploadsRest ==
    ASSUME A!UploadsInv, A!BlobsAreBacked, file' = file, UNCHANGED A!uploadVars
    PROVE  A!UploadsInv' /\ A!BlobsAreBacked'
<1> USE DEF A!uploadVars
<1>1. \A x \in Content : A!AssetsOf(x)' = A!AssetsOf(x)
  BY DEF A!AssetsOf, A!Stored, A!Of
<1>2. \A x \in Content : A!Apart(x)' <=> A!Apart(x)
  BY <1>1 DEF A!Apart
<1>3. A!BlobsAreBacked'
  BY <1>1, <1>2 DEF A!BlobsAreBacked
<1>4. A!UploadsInv'
  BY <1>1, <1>2 DEF A!UploadsInv, A!Open, A!Stored, A!Of
<1> QED BY <1>3, <1>4

\* A worker at a stage has a run of an asset.
LEMMA AssetRuns ==
    ASSUME A!TypeOK, NEW w \in Indexer, run[w] # A!NoRun
    PROVE  run[w] \in A!Run /\ run[w].asset \in Upload
BY DEF A!TypeOK, A!Run

\* The steps of the parse jobs keep types and texts.
LEMMA ParseStep ==
    ASSUME A!IndInv, NEW w \in Indexer,
           \/ \E u \in Upload : A!ClaimJob(w, u)
           \/ A!ReadAsset(w) \/ A!Derive(w) \/ A!EnqueueIndex(w) \/ A!Settle(w) \/ A!Crash(w)
    PROVE  A!IndInv'
<1> USE DEF A!IndInv
<1>1. run \in [Indexer -> A!Run \cup {A!NoRun}] /\ job \in [Upload -> A!Job \cup {A!NoJob}]
  BY DEF A!TypeOK
<1>2. \A v, s : A!At(v, s) /\ s # "idle" => run[v] # A!NoRun
  BY DEF A!At, A!NoRun
<1>3. \A s \in {"derive", "enqueue", "settle"} :
         run[w] # A!NoRun /\ A!To(w, s) =>
            /\ run' \in [Indexer -> A!Run \cup {A!NoRun}]
            /\ run'[w] = [stage |-> s, asset |-> run[w].asset]
            /\ \A v \in Indexer : v # w => run'[v] = run[v]
  <2> SUFFICES ASSUME NEW s \in {"derive", "enqueue", "settle"}, run[w] # A!NoRun, A!To(w, s)
               PROVE  /\ run' \in [Indexer -> A!Run \cup {A!NoRun}]
                      /\ run'[w] = [stage |-> s, asset |-> run[w].asset]
                      /\ \A v \in Indexer : v # w => run'[v] = run[v]
    OBVIOUS
  <2>1. run' = [run EXCEPT ![w].stage = s]
    BY DEF A!To
  <2>2. run[w] \in A!Run
    BY AssetRuns
  <2>3. run'[w] = [stage |-> s, asset |-> run[w].asset]
    BY <1>1, <2>1, <2>2 DEF A!Run
  <2>4. run'[w] \in A!Run
    BY <2>2, <2>3 DEF A!Run
  <2> QED BY <1>1, <2>1, <2>3, <2>4
<1>4. CASE \E u \in Upload : A!ClaimJob(w, u)
  <2>1. PICK u \in Upload : A!ClaimJob(w, u)
    BY <1>4
  <2> USE DEF A!ClaimJob
  <2>2. A!TypeOK'
    <3>1. job[u].runs + 1 \in 0..MaxRuns
      <4>1. job[u].runs \in 0..MaxRuns
        BY <1>1, AssetsAssumption DEF A!Job, A!NoJob
      <4> QED BY <2>1, <4>1, AssetsAssumption
    <3>2. job' \in [Upload -> A!Job \cup {A!NoJob}]
      BY <1>1, <2>1, <3>1 DEF A!Job
    <3>3. run' \in [Indexer -> A!Run \cup {A!NoRun}]
      BY <1>1, <2>1 DEF A!Run
    <3> QED BY <2>1, <3>2, <3>3 DEF A!TypeOK, A!uploadVars, A!Job, A!NoJob, A!Run, A!NoRun
  <2>3. A!TextIsIndexed'
    BY <1>1, <2>1 DEF A!TextIsIndexed, A!NoRun
  <2> QED BY <2>1, <2>2, <2>3, UploadsRest
<1>5. CASE A!ReadAsset(w)
  <2>1. run[w] # A!NoRun /\ (A!To(w, "settle") \/ A!To(w, "derive")) /\ run[w].stage = "read"
    BY <1>2, <1>5 DEF A!ReadAsset, A!At
  <2>2. A!TypeOK'
    BY <1>3, <1>5, <2>1 DEF A!TypeOK, A!ReadAsset, A!uploadVars, A!Job, A!NoJob, A!Run, A!NoRun
  <2>3. A!TextIsIndexed'
    BY <1>1, <1>3, <1>5, <2>1 DEF A!TextIsIndexed, A!ReadAsset
  <2> QED BY <1>5, <2>2, <2>3, UploadsRest DEF A!ReadAsset
<1>6. CASE A!Derive(w)
  <2>1. run[w] # A!NoRun /\ A!To(w, "enqueue") /\ run[w].stage = "derive"
        /\ derived' = derived \cup {run[w].asset}
    BY <1>2, <1>6 DEF A!Derive, A!At
  <2>2. A!TypeOK'
    BY <1>3, <1>6, <2>1, AssetRuns DEF A!TypeOK, A!Derive, A!uploadVars, A!Job, A!NoJob, A!Run, A!NoRun
  <2>3. A!TextIsIndexed'
    BY <1>1, <1>3, <1>6, <2>1 DEF A!TextIsIndexed, A!Derive
  <2> QED BY <1>6, <2>2, <2>3, UploadsRest DEF A!Derive
<1>7. CASE A!EnqueueIndex(w)
  <2>1. run[w] # A!NoRun /\ A!To(w, "settle") /\ run[w].stage = "enqueue"
        /\ indexed' = indexed \cup {run[w].asset}
    BY <1>2, <1>7 DEF A!EnqueueIndex, A!At, A!MayEnqueue
  <2>2. A!TypeOK'
    BY <1>3, <1>7, <2>1, AssetRuns DEF A!TypeOK, A!EnqueueIndex, A!uploadVars, A!Job, A!NoJob, A!Run, A!NoRun
  <2>3. A!TextIsIndexed'
    BY <1>1, <1>3, <1>7, <2>1 DEF A!TextIsIndexed, A!EnqueueIndex
  <2> QED BY <1>7, <2>2, <2>3, UploadsRest DEF A!EnqueueIndex
<1>8. CASE A!Settle(w)
  <2>1. run[w] # A!NoRun /\ run[w].stage = "settle" /\ run' = [run EXCEPT ![w] = A!NoRun]
    BY <1>2, <1>8 DEF A!Settle, A!At
  <2>2. job' \in [Upload -> A!Job \cup {A!NoJob}]
    <3>1. run[w].asset \in Upload
      BY <2>1, AssetRuns
    <3>2. /\ job[run[w].asset].runs \in 0..MaxRuns
          /\ DOMAIN job[run[w].asset] = {"state", "holder", "runs"}
      BY <1>1, <3>1, AssetsAssumption DEF A!Job, A!NoJob
    <3>3. [job[run[w].asset] EXCEPT !.state = "succeeded", !.holder = {}] \in A!Job
      BY <1>1, <3>1, <3>2 DEF A!Job, A!NoJob
    <3> QED BY <1>1, <1>8, <3>1, <3>3 DEF A!Settle
  <2>3. A!TypeOK'
    BY <1>1, <1>8, <2>1, <2>2 DEF A!TypeOK, A!Settle, A!uploadVars, A!Job, A!NoJob, A!Run, A!NoRun
  <2>4. A!TextIsIndexed'
    BY <1>1, <1>8, <2>1 DEF A!TextIsIndexed, A!Settle
  <2> QED BY <1>8, <2>3, <2>4, UploadsRest DEF A!Settle
<1>9. CASE A!Crash(w)
  <2>1. run[w] # A!NoRun /\ run' = [run EXCEPT ![w] = A!NoRun] /\ run[w].asset \in Upload
    BY <1>9, AssetRuns DEF A!Crash
  <2>2. A!TypeOK'
    BY <1>1, <1>9, <2>1 DEF A!TypeOK, A!Crash, A!uploadVars, A!Job, A!NoJob, A!Run, A!NoRun
  <2>3. A!TextIsIndexed'
    BY <1>1, <1>9, <2>1 DEF A!TextIsIndexed, A!Crash, A!At
  <2> QED BY <1>9, <2>2, <2>3, UploadsRest DEF A!Crash
<1> QED BY <1>4, <1>5, <1>6, <1>7, <1>8, <1>9

\* A lease runs out, or the text of an asset is deleted.
LEMMA BesideStep ==
    ASSUME A!IndInv, NEW u \in Upload, A!LoseLease(u) \/ A!ReconcileDeletion(u)
    PROVE  A!IndInv'
<1> USE DEF A!IndInv
<1>1. CASE A!LoseLease(u)
  <2>1. job' \in [Upload -> A!Job \cup {A!NoJob}]
    <3>1. job \in [Upload -> A!Job \cup {A!NoJob}] /\ job[u] \in A!Job
      BY <1>1 DEF A!TypeOK, A!LoseLease, A!NoJob
    <3> QED BY <1>1, <3>1 DEF A!LoseLease, A!Job
  <2>2. A!TypeOK'
    BY <1>1, <2>1 DEF A!TypeOK, A!LoseLease, A!uploadVars, A!Job, A!NoJob, A!Run, A!NoRun
  <2>3. A!TextIsIndexed'
    BY <1>1 DEF A!TextIsIndexed, A!LoseLease
  <2> QED BY <1>1, <2>2, <2>3, UploadsRest DEF A!LoseLease
<1>2. CASE A!ReconcileDeletion(u)
  <2>1. A!TypeOK'
    BY <1>2 DEF A!TypeOK, A!ReconcileDeletion, A!uploadVars, A!Job, A!NoJob, A!Run, A!NoRun
  <2>2. A!TextIsIndexed'
    BY <1>2 DEF A!TextIsIndexed, A!ReconcileDeletion
  <2> QED BY <1>2, <2>1, <2>2, UploadsRest DEF A!ReconcileDeletion
<1> QED BY <1>1, <1>2

\* Every step of uploads and their jobs keeps the invariant.
LEMMA AssetsStep == A!IndInv /\ [A!Next]_(A!vars) => A!IndInv'
<1> SUFFICES ASSUME A!IndInv, [A!Next]_(A!vars) PROVE A!IndInv'
  OBVIOUS
<1>1. CASE UNCHANGED A!vars
  <2>1. A!TypeOK' /\ A!TextIsIndexed'
    BY <1>1 DEF A!vars, A!IndInv, A!TypeOK, A!TextIsIndexed, A!Job, A!NoJob, A!Run, A!NoRun
  <2> QED BY <1>1, <2>1, UploadsRest DEF A!vars, A!uploadVars, A!IndInv
<1>2. CASE A!Next
  BY <1>2, StoreStep, LookStep, WriteStep, CommitStep, RollbackStep, ParseStep, BesideStep DEF A!Next
<1> QED BY <1>1, <1>2

(***************************************************************************)
(* Rows and their jobs.                                                    *)
(***************************************************************************)
\* The initial state of the rows satisfies their invariant.
LEMMA RowsInit == Init => IndInv
<1> SUFFICES ASSUME Init PROVE IndInv
  OBVIOUS
<1> USE DEF Init
<1>1. TypeOK
  BY RowsAssumption DEF TypeOK, Text, Idle
<1>2. JobsInv /\ ListedInv /\ UnlistedInv
  <2>1. \A k \in JobKind, s \in Source : queued[<<k, s>>] = 0
    OBVIOUS
  <2>2. \A s \in Note \cup Todo : s \in Source
    BY DEF Source
  <2> QED BY <2>1, <2>2 DEF JobsInv, ListedInv, UnlistedInv
<1> QED BY <1>1, <1>2 DEF IndInv

\* A run has its fields; the queue counts.
LEMMA RowTypes ==
    ASSUME TypeOK
    PROVE  /\ \A w \in Worker : work[w] # Idle =>
                 /\ work[w] \in Job /\ work[w].source \in Source /\ work[w].kind \in JobKind
                 /\ work[w].stage \in {"read", "write", "settle"}
                 /\ work[w].held \in BOOLEAN /\ work[w].read \in Text
           /\ \A k \in JobKind, s \in Source :
                 queued[<<k, s>>] \in 0..MaxQueued /\ queued[<<k, s>>] \in Nat
           /\ work \in [Worker -> Job \cup {Idle}]
           /\ queued \in [JobKind \X Source -> 0..MaxQueued]
           /\ \A s \in Source : row[s] \in {"absent", "live", "gone"}
<1>1. ASSUME NEW w \in Worker, work[w] # Idle PROVE work[w] \in Job
  BY <1>1 DEF TypeOK
<1>2. ASSUME NEW k \in JobKind, NEW s \in Source
      PROVE  queued[<<k, s>>] \in 0..MaxQueued
  BY DEF TypeOK
<1>3. \A i \in 0..MaxQueued : i \in Nat
  BY RowsAssumption
<1> QED BY <1>1, <1>2, <1>3 DEF TypeOK, Job

\* Jobs that are enqueued are awaited, and so is what was.
LEMMA EnqueueFacts ==
    ASSUME TypeOK, NEW J \in SUBSET (JobKind \X Source), Enqueue(J)
    PROVE  /\ queued' \in [JobKind \X Source -> 0..MaxQueued]
           /\ \A k \in JobKind, s \in Source :
                 queued'[<<k, s>>] > 0 <=> queued[<<k, s>>] > 0 \/ <<k, s>> \in J
<1>1. /\ \A j \in J : queued[j] < MaxQueued
      /\ queued' = [j \in JobKind \X Source |-> queued[j] + IF j \in J THEN 1 ELSE 0]
  BY DEF Enqueue
<1>2. \A j \in JobKind \X Source : queued[j] \in 0..MaxQueued
  BY DEF TypeOK
<1>3. ASSUME NEW j \in JobKind \X Source
      PROVE  /\ queued'[j] = queued[j] + IF j \in J THEN 1 ELSE 0
             /\ queued'[j] \in 0..MaxQueued
             /\ queued'[j] > 0 <=> queued[j] > 0 \/ j \in J
  BY <1>1, <1>2, RowsAssumption
<1>4. queued' \in [JobKind \X Source -> 0..MaxQueued]
  BY <1>1, <1>3
<1> QED BY <1>3, <1>4

\* What the server's writes have in common: the jobs J are enqueued, a row is written
\* before jobs are for it, a new row has a job, and so has a row that goes.
LEMMA ServerWrites ==
    ASSUME IndInv, TypeOK', work' = work, lost' = lost,
           NEW J \in SUBSET (JobKind \X Source),
           \A k \in JobKind, s \in Source :
              queued'[<<k, s>>] > 0 <=> queued[<<k, s>>] > 0 \/ <<k, s>> \in J,
           \A s \in Source : row[s] = "gone" => row'[s] = "gone",
           \A s \in Source : row[s] # "absent" => row'[s] # "absent",
           \A s \in Source \ Task : row'[s] = "live" =>
              \/ row[s] = "live" /\ card'[s] = card[s] /\ text'[s] = text[s]
              \/ row[s] = "absent" /\ \E k \in JobKind : <<k, s>> \in J,
           \A s \in Note \cup Todo : row'[s] = "gone" =>
              \/ row[s] = "gone" /\ card'[s] = card[s]
              \/ \E k \in JobKind : <<k, s>> \in J,
           \A k \in JobKind, s \in Source : <<k, s>> \in J =>
              row'[s] # "absent" /\ (k = "reconcile" => row'[s] = "gone")
    PROVE  IndInv'
<1> USE DEF IndInv
<1>1. \A s \in Source : Awaited(s)' <=> Awaited(s) \/ \E k \in JobKind : <<k, s>> \in J
  BY DEF Awaited
<1>2. \A w \in Worker : work[w] # Idle => work[w].source \in Source
  BY RowTypes
<1>3. \A s \in Note \cup Todo : s \in Source
  BY DEF Source
<1>4. JobsInv'
  <2>1. \A k \in JobKind, s \in Source :
           queued'[<<k, s>>] > 0 => row'[s] # "absent" /\ (k = "reconcile" => row'[s] = "gone")
    BY DEF JobsInv
  <2>2. \A w \in Worker : work'[w] # Idle =>
          /\ row'[work'[w].source] # "absent"
          /\ work'[w].kind = "reconcile" => row'[work'[w].source] = "gone" /\ work'[w].stage # "write"
    BY <1>2 DEF JobsInv, Working
  <2> QED BY <2>1, <2>2 DEF JobsInv, Working, Idle
<1>5. ListedInv'
  <2>1. ASSUME NEW s \in Source \ Task, row'[s] = "live"
        PROVE  \/ card'[s] = text'[s] \/ s \in lost \/ Awaited(s)'
               \/ \E w \in Worker : work[w] # Idle /\ work[w].held /\ work[w].source = s
    BY <1>1, <2>1 DEF ListedInv
  <2>2. ASSUME NEW w \in Worker, work[w] # Idle, work[w].source \notin Task,
               row'[work[w].source] = "live"
        PROVE  /\ work[w].stage = "write" => work[w].read = text'[work[w].source]
               /\ work[w].stage = "settle" => card'[work[w].source] = text'[work[w].source]
    <3>1. row[work[w].source] = "live" /\ card'[work[w].source] = card[work[w].source]
          /\ text'[work[w].source] = text[work[w].source]
      BY <1>2, <2>2 DEF JobsInv
    <3> QED BY <2>2, <3>1 DEF ListedInv, Working
  <2> QED BY <2>1, <2>2 DEF ListedInv, Working, Idle
<1>6. ASSUME OneWorker PROVE UnlistedInv'
  <2>0. UnlistedInv
    BY <1>6
  <2>1. ASSUME NEW s \in Note \cup Todo, row'[s] = "gone"
        PROVE  \/ card'[s] = 0 \/ s \in lost \/ Awaited(s)'
               \/ \E w \in Worker : /\ work[w] # Idle /\ work[w].stage = "read"
                                    /\ work[w].held /\ work[w].source = s
    BY <1>1, <1>3, <2>0, <2>1 DEF UnlistedInv, Working
  <2>2. ASSUME NEW w \in Worker, work[w] # Idle, work[w].source \in Note \cup Todo,
               row'[work[w].source] = "gone"
        PROVE  /\ work[w].stage = "write" => Awaited(work[w].source)'
               /\ work[w].stage = "settle" => card'[work[w].source] = 0 \/ Awaited(work[w].source)'
    BY <1>1, <1>2, <2>0, <2>2 DEF UnlistedInv, Working
  <2> QED BY <2>1, <2>2 DEF UnlistedInv, Working, Idle
<1> QED BY <1>4, <1>5, <1>6

\* The writes of the server and of the operator keep the invariant.
LEMMA WriteRows ==
    ASSUME IndInv, NEW s \in Source, NEW t \in Source, NEW named \in BOOLEAN,
           \/ Create(s) \/ Supersede(s, t) \/ GovernedDelete(s, named)
           \/ CompleteTodo(s) \/ DeleteTodo(s) \/ MergeClaim(s) \/ FinalizeTask(s)
    PROVE  IndInv'
<1> USE DEF IndInv
<1>1. /\ row \in [Source -> {"absent", "live", "gone"}] /\ text \in [Source -> Text]
      /\ card \in [Source -> Text] /\ 0 \in Text /\ 1 \in Text /\ 2 \in Text
  BY DEF TypeOK, Text
<1>2. \A k \in {"index", "trailing", "rebuild", "reconcile"} : k \in JobKind
  BY DEF JobKind
<1>3. CASE Create(s)
  <2> DEFINE J == {<<"index", s>>}
  <2>1. Enqueue(J) /\ J \in SUBSET (JobKind \X Source)
    BY <1>2, <1>3 DEF Create
  <2>2. TypeOK'
    BY <1>1, <1>3, <2>1, EnqueueFacts DEF Create, TypeOK
  <2> HIDE DEF J
  <2>3. \A k \in JobKind, q \in Source : <<k, q>> \in J => q = s /\ k = "index"
    BY DEF J
  <2>4. <<"index", s>> \in J
    BY DEF J
  <2>5. /\ row[s] = "absent" /\ card' = card /\ work' = work /\ lost' = lost
        /\ \A q \in Source : row'[q] = IF q = s THEN "live" ELSE row[q]
        /\ \A q \in Source : q # s => text'[q] = text[q]
    BY <1>1, <1>3 DEF Create
  <2>6. \A q \in Note \cup Todo : q \in Source
    BY DEF Source
  <2>7. \A q \in Source \ Task : row'[q] = "live" =>
           \/ row[q] = "live" /\ card'[q] = card[q] /\ text'[q] = text[q]
           \/ row[q] = "absent" /\ \E k \in JobKind : <<k, q>> \in J
    BY <1>2, <2>3, <2>4, <2>5
  <2>8. \A q \in Note \cup Todo : row'[q] = "gone" =>
           \/ row[q] = "gone" /\ card'[q] = card[q]
           \/ \E k \in JobKind : <<k, q>> \in J
    BY <1>1, <1>2, <2>3, <2>4, <2>5, <2>6
  <2>9. /\ \A q \in Source : row[q] = "gone" => row'[q] = "gone"
        /\ \A q \in Source : row[q] # "absent" => row'[q] # "absent"
        /\ \A k \in JobKind, q \in Source : <<k, q>> \in J =>
              row'[q] # "absent" /\ (k = "reconcile" => row'[q] = "gone")
    BY <2>3, <2>4, <2>5
  <2> QED BY <2>1, <2>2, <2>4, <2>5, <2>7, <2>8, <2>9, EnqueueFacts, ServerWrites
<1>4. CASE Supersede(s, t)
  <2> DEFINE J == {<<"trailing", s>>, <<"index", t>>}
  <2>1. Enqueue(J) /\ J \in SUBSET (JobKind \X Source)
    BY <1>2, <1>4 DEF Supersede, SupersedeJobs
  <2>2. TypeOK'
    BY <1>1, <1>4, <2>1, EnqueueFacts DEF Supersede, TypeOK
  <2> HIDE DEF J
  <2>3. /\ \A k \in JobKind, q \in Source : <<k, q>> \in J => q \in {s, t} /\ k # "reconcile"
        /\ <<"trailing", s>> \in J /\ <<"index", t>> \in J
    BY DEF J
  <2>4. /\ row[s] = "live" /\ row[t] = "absent" /\ s # t
        /\ row' = [row EXCEPT ![s] = "gone", ![t] = "live"]
        /\ text' = [text EXCEPT ![t] = 1] /\ card' = [card EXCEPT ![s] = 0]
        /\ work' = work /\ lost' = lost
    BY <1>4 DEF Supersede
  <2>5. /\ \A q \in Source : row'[q] = IF q = s THEN "gone" ELSE IF q = t THEN "live" ELSE row[q]
        /\ \A q \in Source : q # t => text'[q] = text[q]
        /\ \A q \in Source : q # s => card'[q] = card[q]
    BY <1>1, <2>4
  <2>6. \A q \in Note \cup Todo : q \in Source
    BY DEF Source
  <2>7. \A q \in Source \ Task : row'[q] = "live" =>
           \/ row[q] = "live" /\ card'[q] = card[q] /\ text'[q] = text[q]
           \/ row[q] = "absent" /\ \E k \in JobKind : <<k, q>> \in J
    BY <1>2, <2>3, <2>4, <2>5
  <2>8. \A q \in Note \cup Todo : row'[q] = "gone" =>
           \/ row[q] = "gone" /\ card'[q] = card[q]
           \/ \E k \in JobKind : <<k, q>> \in J
    BY <1>1, <1>2, <2>3, <2>4, <2>5, <2>6
  <2>9. /\ \A q \in Source : row[q] = "gone" => row'[q] = "gone"
        /\ \A q \in Source : row[q] # "absent" => row'[q] # "absent"
        /\ \A k \in JobKind, q \in Source : <<k, q>> \in J =>
              row'[q] # "absent" /\ (k = "reconcile" => row'[q] = "gone")
    <3>1. row[s] = "live" /\ row[t] = "absent" /\ row'[s] = "gone" /\ row'[t] = "live"
      BY <2>4, <2>5
    <3>2. \A q \in Source : q = s \/ q = t \/ row'[q] = row[q]
      BY <2>5
    <3>3. \A k \in JobKind, q \in Source : <<k, q>> \in J => (q = s \/ q = t) /\ k # "reconcile"
      BY <2>3
    <3> QED BY <3>1, <3>2, <3>3
  <2> QED BY <2>1, <2>2, <2>4, <2>5, <2>7, <2>8, <2>9, EnqueueFacts, ServerWrites
<1>5. CASE GovernedDelete(s, named)
  <2> DEFINE J == IF named THEN {<<"reconcile", s>>} ELSE {}
  <2>1. Enqueue(J) /\ J \in SUBSET (JobKind \X Source)
    BY <1>2, <1>5 DEF GovernedDelete
  <2>2. TypeOK'
    BY <1>1, <1>5, <2>1, EnqueueFacts DEF GovernedDelete, TypeOK
  <2>3. /\ \A k \in JobKind, q \in Source : <<k, q>> \in J => q = s
        /\ s \in Note \cup Todo => <<"reconcile", s>> \in J
    BY <1>5, RowsAssumption DEF GovernedDelete
  <2> HIDE DEF J
  <2>4. /\ row[s] = "live" /\ row' = [row EXCEPT ![s] = "gone"]
        /\ text' = text /\ card' = card /\ work' = work /\ lost' = lost
    BY <1>5 DEF GovernedDelete
  <2>5. \A q \in Source : row'[q] = IF q = s THEN "gone" ELSE row[q]
    BY <1>1, <2>4
  <2>6. \A q \in Note \cup Todo : q \in Source
    BY DEF Source
  <2>7. \A q \in Source \ Task : row'[q] = "live" => row[q] = "live" /\ card'[q] = card[q] /\ text'[q] = text[q]
    BY <2>4, <2>5
  <2>8. \A q \in Note \cup Todo : row'[q] = "gone" =>
           \/ row[q] = "gone" /\ card'[q] = card[q]
           \/ \E k \in JobKind : <<k, q>> \in J
    BY <1>2, <2>3, <2>4, <2>5, <2>6
  <2>9. /\ \A q \in Source : row[q] = "gone" => row'[q] = "gone"
        /\ \A q \in Source : row[q] # "absent" => row'[q] # "absent"
        /\ \A k \in JobKind, q \in Source : <<k, q>> \in J =>
              row'[q] # "absent" /\ (k = "reconcile" => row'[q] = "gone")
    BY <2>3, <2>4, <2>5
  <2>10. \A k \in JobKind, q \in Source : queued'[<<k, q>>] > 0 <=> queued[<<k, q>>] > 0 \/ <<k, q>> \in J
    BY <2>1, EnqueueFacts
  <2> QED BY <2>1, <2>2, <2>4, <2>7, <2>8, <2>9, <2>10, ServerWrites
<1>6. CASE CompleteTodo(s)
  <2> DEFINE J == {<<"index", s>>}
  <2>1. Enqueue(J) /\ J \in SUBSET (JobKind \X Source)
    BY <1>2, <1>6 DEF CompleteTodo
  <2>2. TypeOK'
    BY <1>1, <1>6, <2>1, EnqueueFacts DEF CompleteTodo, TypeOK
  <2> HIDE DEF J
  <2>3. \A k \in JobKind, q \in Source : <<k, q>> \in J => q = s /\ k = "index"
    BY DEF J
  <2>4. \A q \in Note \cup Todo : q \in Source
    BY DEF Source
  <2> QED BY <1>1, <1>2, <1>6, <2>1, <2>2, <2>3, <2>4, EnqueueFacts, ServerWrites DEF CompleteTodo
<1>7. CASE DeleteTodo(s)
  <2> DEFINE J == {<<"index", s>>}
  <2>1. Enqueue(J) /\ J \in SUBSET (JobKind \X Source)
    BY <1>2, <1>7 DEF DeleteTodo
  <2>2. TypeOK'
    BY <1>1, <1>7, <2>1, EnqueueFacts DEF DeleteTodo, TypeOK
  <2> HIDE DEF J
  <2>3. /\ \A k \in JobKind, q \in Source : <<k, q>> \in J => q = s /\ k = "index"
        /\ <<"index", s>> \in J
    BY DEF J
  <2>4. \A q \in Note \cup Todo : q \in Source
    BY DEF Source
  <2>5. /\ \A q \in Source : row'[q] = IF q = s THEN "gone" ELSE row[q]
        /\ \A q \in Source : card'[q] = IF q = s THEN 0 ELSE card[q]
        /\ row[s] = "live" /\ text' = text /\ work' = work /\ lost' = lost
    BY <1>1, <1>7 DEF DeleteTodo
  <2> QED BY <1>1, <1>2, <2>1, <2>2, <2>3, <2>4, <2>5, EnqueueFacts, ServerWrites
<1>8. CASE MergeClaim(s)
  <2>1. TypeOK'
    BY <1>1, <1>8 DEF MergeClaim, TypeOK
  <2>2. s \notin Note \cup Todo
    BY <1>8, RowsAssumption DEF MergeClaim
  <2>3. /\ \A q \in Source : row'[q] = IF q = s THEN "gone" ELSE row[q]
        /\ \A q \in Source : card'[q] = IF q = s THEN 0 ELSE card[q]
        /\ row[s] = "live" /\ text' = text /\ work' = work /\ lost' = lost /\ queued' = queued
    BY <1>1, <1>8 DEF MergeClaim
  <2>4. \A q \in Note \cup Todo : q \in Source
    BY DEF Source
  <2>5. {} \in SUBSET (JobKind \X Source)
    OBVIOUS
  <2> QED BY <1>1, <2>1, <2>2, <2>3, <2>4, <2>5, ServerWrites
<1>9. CASE FinalizeTask(s)
  <2>1. TypeOK'
    BY <1>1, <1>9 DEF FinalizeTask, TypeOK
  <2>2. /\ \A q \in Source \ Task : text'[q] = text[q]
        /\ row' = row /\ card' = card /\ work' = work /\ lost' = lost /\ queued' = queued
    BY <1>1, <1>9 DEF FinalizeTask
  <2>3. \A q \in Note \cup Todo : q \in Source
    BY DEF Source
  <2>4. {} \in SUBSET (JobKind \X Source)
    OBVIOUS
  <2> QED BY <1>1, <2>1, <2>2, <2>3, <2>4, RowTypes, ServerWrites
<1> QED BY <1>3, <1>4, <1>5, <1>6, <1>7, <1>8, <1>9

\* The operator rebuilds the index or revokes the client.
LEMMA OperatorRows ==
    ASSUME IndInv, RebuildIndex \/ RevokeClient
    PROVE  IndInv'
<1> USE DEF IndInv
<1>1. \A q \in Note \cup Todo : q \in Source
  BY DEF Source
<1>2. CASE RebuildIndex
  <2>1. PICK J \in SUBSET (JobKind \X Source) :
           /\ Enqueue(J)
           /\ \A k \in JobKind, s \in Source : <<k, s>> \in J => row[s] = "live" /\ k = "rebuild"
    <3>1. \A s \in Source : <<"rebuild", s>> \in JobKind \X Source
      BY DEF JobKind
    <3> QED BY <1>2, <3>1 DEF RebuildIndex
  <2>2. UNCHANGED <<row, text, card, work, client, failures, lost>>
    BY <1>2 DEF RebuildIndex
  <2>3. TypeOK'
    BY <2>1, <2>2, EnqueueFacts DEF TypeOK, Job, Idle, Text
  <2> QED BY <1>1, <2>1, <2>2, <2>3, EnqueueFacts, RowTypes, ServerWrites
<1>3. CASE RevokeClient
  <2>1. TypeOK'
    BY <1>3 DEF RevokeClient, TypeOK, Job, Idle, Text
  <2>2. {} \in SUBSET (JobKind \X Source)
    OBVIOUS
  <2> QED BY <1>1, <1>3, <2>1, <2>2, RowTypes, ServerWrites DEF RevokeClient
<1> QED BY <1>2, <1>3

\* Another run than w's has a job for the row.
ByOther(w, s) == \E v \in Worker \ {w} : work[v] # Idle /\ work[v].held /\ work[v].source = s

\* What the steps of a run have in common: the other runs, the rows and the jobs for other
\* rows stay, and a row that is live keeps its card, or gets its own. With one worker
\* there is no other run that may write the card of a row that is gone.
LEMMA RunStep ==
    ASSUME IndInv, NEW w \in Worker, TypeOK', row' = row, text' = text,
           \A v \in Worker : v # w => work'[v] = work[v],
           \* the queue's jobs are for rows as before
           \A k \in JobKind, s \in Source : queued'[<<k, s>>] > 0 =>
              queued[<<k, s>>] > 0 \/ (work[w] # Idle /\ work[w].kind = k /\ work[w].source = s),
           \* the run is of such a job, and has read and written what it should
           work'[w] # Idle =>
              /\ work'[w].source \in Source /\ row[work'[w].source] # "absent"
              /\ work'[w].kind = "reconcile" =>
                    row[work'[w].source] = "gone" /\ work'[w].stage # "write"
              /\ work'[w].source \notin Task /\ row[work'[w].source] = "live" =>
                    /\ work'[w].stage = "write" => work'[w].read = text[work'[w].source]
                    /\ work'[w].stage = "settle" => card'[work'[w].source] = text[work'[w].source],
           OneWorker => \A q \in Note \cup Todo :
              work'[w] # Idle /\ work'[w].source = q /\ row[q] = "gone" =>
                 /\ work'[w].stage = "write" => Awaited(q)'
                 /\ work'[w].stage = "settle" => card'[q] = 0 \/ Awaited(q)',
           \* each row is listed, unlisted, lost or has a job
           \A s \in Source \ Task : row[s] = "live" => card'[s] = card[s] \/ card'[s] = text[s],
           \A s \in Source \ Task : row[s] = "live" =>
              \/ card'[s] = text[s] \/ s \in lost' \/ Awaited(s)' \/ ByOther(w, s)
              \/ work'[w] # Idle /\ work'[w].held /\ work'[w].source = s,
           OneWorker => \A s \in Note \cup Todo : row[s] = "gone" =>
              \/ card'[s] = 0 \/ s \in lost' \/ Awaited(s)'
              \/ /\ work'[w] # Idle /\ work'[w].stage = "read"
                 /\ work'[w].held /\ work'[w].source = s
    PROVE  IndInv'
<1> USE DEF IndInv
<1>1. \A v \in Worker : v # w /\ work[v] # Idle => work[v].source \in Source
  BY RowTypes
<1>2. JobsInv'
  <2>1. ASSUME NEW k \in JobKind, NEW s \in Source, queued'[<<k, s>>] > 0
        PROVE  row'[s] # "absent" /\ (k = "reconcile" => row'[s] = "gone")
    BY <2>1 DEF JobsInv
  <2>2. ASSUME NEW v \in Worker, work'[v] # Idle
        PROVE  /\ row[work'[v].source] # "absent"
               /\ work'[v].kind = "reconcile" => row[work'[v].source] = "gone" /\ work'[v].stage # "write"
    BY <2>2 DEF JobsInv, Working
  <2> QED BY <2>1, <2>2 DEF JobsInv, Working, Idle
<1>3. ListedInv'
  <2>1. ASSUME NEW s \in Source \ Task, row[s] = "live"
        PROVE  \/ card'[s] = text[s] \/ s \in lost' \/ Awaited(s)'
               \/ \E v \in Worker : work'[v] # Idle /\ work'[v].held /\ work'[v].source = s
    BY <2>1 DEF ByOther
  <2>2. ASSUME NEW v \in Worker, work'[v] # Idle, work'[v].source \notin Task, row[work'[v].source] = "live"
        PROVE  /\ work'[v].stage = "write" => work'[v].read = text[work'[v].source]
               /\ work'[v].stage = "settle" => card'[work'[v].source] = text[work'[v].source]
    <3>1. CASE v = w
      BY <2>2, <3>1
    <3>2. CASE v # w
      <4>1. work'[v] = work[v] /\ work[v].source \in Source \ Task
        BY <1>1, <2>2, <3>2
      <4> QED BY <2>2, <4>1 DEF ListedInv, Working
    <3> QED BY <3>1, <3>2
  <2> QED BY <2>1, <2>2 DEF ListedInv, Working, Idle
<1>4. ASSUME OneWorker PROVE UnlistedInv'
  <2>1. \A s \in Note \cup Todo : row'[s] = "gone" =>
           \/ card'[s] = 0 \/ s \in lost' \/ Awaited(s)'
           \/ \E v \in Worker : Working(v, "read")' /\ work'[v].held /\ work'[v].source = s
    BY <1>4 DEF Working, Idle
  <2>2. ASSUME NEW v \in Worker, work'[v] # Idle, work'[v].source \in Note \cup Todo,
               row'[work'[v].source] = "gone"
        PROVE  /\ work'[v].stage = "write" => \E k \in JobKind : queued'[<<k, work'[v].source>>] > 0
               /\ work'[v].stage = "settle" =>
                     \/ card'[work'[v].source] = 0
                     \/ \E k \in JobKind : queued'[<<k, work'[v].source>>] > 0
    <3>1. v = w
      BY <1>4 DEF OneWorker
    <3> QED BY <1>4, <2>2, <3>1 DEF Awaited
  <2> QED BY <2>1, <2>2 DEF UnlistedInv, Working, Idle, Awaited
<1> QED BY <1>2, <1>3, <1>4

\* A job is claimed, or refused because its client was revoked.
LEMMA ClaimStep ==
    ASSUME IndInv, NEW w \in Worker, NEW j \in JobKind \X Source, ClaimJob(w, j)
    PROVE  IndInv'
<1> USE DEF IndInv
<1>1. PICK k \in JobKind, s \in Source : j = <<k, s>>
  OBVIOUS
<1>2. /\ work[w] = Idle /\ queued[<<k, s>>] > 0
      /\ queued' = [queued EXCEPT ![<<k, s>>] = @ - 1]
      /\ row' = row /\ text' = text /\ card' = card /\ client' = client /\ failures' = failures
  BY <1>1 DEF ClaimJob
<1>3. \A i \in JobKind, q \in Source :
         queued'[<<i, q>>] = IF i = k /\ q = s THEN queued[<<k, s>>] - 1 ELSE queued[<<i, q>>]
  BY <1>2, RowTypes
<1>4. queued' \in [JobKind \X Source -> 0..MaxQueued]
  <2>1. queued[<<k, s>>] - 1 \in 0..MaxQueued
    BY <1>2, RowTypes, RowsAssumption
  <2> QED BY <1>2, <2>1, RowTypes
<1>5. \A i \in JobKind, q \in Source : queued'[<<i, q>>] > 0 => queued[<<i, q>>] > 0
  BY <1>2, <1>3, RowTypes
<1>6. \A q \in Source : q # s => (Awaited(q)' <=> Awaited(q))
  BY <1>3 DEF Awaited
<1>7. row[s] # "absent" /\ (k = "reconcile" => row[s] = "gone")
  BY <1>2 DEF JobsInv
<1>8. \A q \in Source : (\E v \in Worker : work[v] # Idle /\ work[v].held /\ work[v].source = q) => ByOther(w, q)
  BY <1>2 DEF ByOther
<1>9. \A q \in Note \cup Todo : q \in Source
  BY DEF Source
<1>t. OneWorker => \A v \in Worker : work[v] = Idle
  BY <1>2 DEF OneWorker
<1>10. CASE work' = [work EXCEPT ![w] = [stage |-> "read", kind |-> k, source |-> s,
                                         read |-> 0, held |-> TRUE]] /\ lost' = lost
  <2> DEFINE new == [stage |-> "read", kind |-> k, source |-> s, read |-> 0, held |-> TRUE]
  <2>1. new \in Job
    BY DEF Job, Text
  <2>2. work'[w] = new /\ \A v \in Worker : v # w => work'[v] = work[v]
    BY <1>10, RowTypes
  <2>3. TypeOK'
    BY <1>2, <1>4, <1>10, <2>1 DEF TypeOK, Job, Idle, Text
  <2>4. /\ new # Idle /\ new.stage = "read" /\ new.kind = k /\ new.source = s /\ new.held
    BY DEF Idle
  <2> HIDE DEF new
  <2>5. \A q \in Source \ Task : row[q] = "live" =>
           card'[q] = text[q] \/ q \in lost' \/ Awaited(q)' \/ q = s \/ ByOther(w, q)
    BY <1>2, <1>6, <1>8, <1>10 DEF ListedInv
  <2>6. OneWorker => \A q \in Note \cup Todo : row[q] = "gone" =>
           card'[q] = 0 \/ q \in lost' \/ Awaited(q)' \/ q = s
    BY <1>2, <1>6, <1>9, <1>10, <1>t DEF UnlistedInv, Working
  <2> QED BY <1>2, <1>5, <1>7, <2>2, <2>3, <2>4, <2>5, <2>6, RunStep
<1>11. CASE work' = work /\ lost' = lost \cup {s}
  <2>1. TypeOK'
    BY <1>2, <1>4, <1>11 DEF TypeOK, Job, Idle, Text
  <2>2. \A q \in Source \ Task : row[q] = "live" =>
           card'[q] = text[q] \/ q \in lost' \/ Awaited(q)' \/ ByOther(w, q)
    BY <1>2, <1>6, <1>8, <1>11 DEF ListedInv
  <2>3. OneWorker => \A q \in Note \cup Todo : row[q] = "gone" => card'[q] = 0 \/ q \in lost' \/ Awaited(q)'
    BY <1>2, <1>6, <1>9, <1>11, <1>t DEF UnlistedInv, Working
  <2> QED BY <1>2, <1>5, <1>11, <2>1, <2>2, <2>3, RunStep
<1> QED BY <1>1, <1>10, <1>11 DEF ClaimJob

\* The run's fields, and what the invariants say of its row.
LEMMA RunFacts ==
    ASSUME IndInv, NEW w \in Worker, work[w] # Idle
    PROVE  /\ work[w] \in Job /\ work[w].source \in Source /\ work[w].kind \in JobKind
           /\ work[w].stage \in {"read", "write", "settle"}
           /\ row[work[w].source] \in {"live", "gone"}
           /\ work[w].kind = "reconcile" =>
                 row[work[w].source] = "gone" /\ work[w].stage # "write"
           /\ work[w].source \notin Task /\ row[work[w].source] = "live" =>
                 /\ work[w].stage = "write" => work[w].read = text[work[w].source]
                 /\ work[w].stage = "settle" => card[work[w].source] = text[work[w].source]
           /\ OneWorker /\ work[w].source \in Note \cup Todo /\ row[work[w].source] = "gone" =>
                 /\ work[w].stage = "write" => Awaited(work[w].source)
                 /\ work[w].stage = "settle" => card[work[w].source] = 0 \/ Awaited(work[w].source)
           /\ \A q \in Source \ Task : row[q] = "live" =>
                 \/ card[q] = text[q] \/ q \in lost \/ Awaited(q) \/ ByOther(w, q)
                 \/ work[w].held /\ work[w].source = q
           /\ OneWorker => \A q \in Note \cup Todo : row[q] = "gone" =>
                 \/ card[q] = 0 \/ q \in lost \/ Awaited(q)
                 \/ work[w].stage = "read" /\ work[w].held /\ work[w].source = q
<1> USE DEF IndInv
<1>1. /\ work[w] \in Job /\ work[w].source \in Source /\ work[w].kind \in JobKind
      /\ work[w].stage \in {"read", "write", "settle"}
  BY RowTypes
<1>2. /\ row[work[w].source] \in {"live", "gone"}
      /\ work[w].kind = "reconcile" => row[work[w].source] = "gone" /\ work[w].stage # "write"
  BY <1>1, RowTypes DEF JobsInv, Working
<1>3. OneWorker => \A v \in Worker : v = w
  BY DEF OneWorker
<1>4. \A q \in Source \ Task : row[q] = "live" =>
         \/ card[q] = text[q] \/ q \in lost \/ Awaited(q) \/ ByOther(w, q)
         \/ work[w].held /\ work[w].source = q
  BY DEF ListedInv, ByOther
<1>5. OneWorker => \A q \in Note \cup Todo : row[q] = "gone" =>
         \/ card[q] = 0 \/ q \in lost \/ Awaited(q)
         \/ work[w].stage = "read" /\ work[w].held /\ work[w].source = q
  BY <1>3 DEF UnlistedInv, Working
<1>6. work[w].source \notin Task /\ row[work[w].source] = "live" =>
         /\ work[w].stage = "write" => work[w].read = text[work[w].source]
         /\ work[w].stage = "settle" => card[work[w].source] = text[work[w].source]
  BY DEF ListedInv, Working
<1>7. OneWorker /\ work[w].source \in Note \cup Todo /\ row[work[w].source] = "gone" =>
         /\ work[w].stage = "write" => Awaited(work[w].source)
         /\ work[w].stage = "settle" => card[work[w].source] = 0 \/ Awaited(work[w].source)
  BY DEF UnlistedInv, Working
<1> QED BY <1>1, <1>2, <1>4, <1>5, <1>6, <1>7

\* The first transaction: the row is read, or its card dropped.
LEMMA ReadStep ==
    ASSUME IndInv, NEW w \in Worker, ReadSource(w)
    PROVE  IndInv'
<1>1. work[w] # Idle /\ work[w].stage = "read"
  BY DEF ReadSource, Working
<1>s. PICK s \in Source : s = work[w].source
  BY <1>1, RunFacts
<1> USE <1>s
<1>2. /\ row' = row /\ text' = text /\ queued' = queued /\ client' = client
      /\ failures' = failures /\ lost' = lost
  BY DEF ReadSource
<1>3. \A q : Awaited(q)' <=> Awaited(q)
  BY <1>2 DEF Awaited
<1>4. s \in Source /\ work \in [Worker -> Job \cup {Idle}] /\ work[w] \in Job
  BY <1>1, RunFacts, RowTypes DEF IndInv
<1>5. CASE /\ work[w].kind # "reconcile" /\ row[s] = "live" /\ card' = card
           /\ work' = [work EXCEPT ![w].stage = "write", ![w].read = text[s]]
  <2> DEFINE new == [work[w] EXCEPT !.stage = "write", !.read = text[s]]
  <2>1. /\ new \in Job /\ new # Idle /\ new.stage = "write" /\ new.read = text[s]
        /\ new.source = s /\ new.kind = work[w].kind /\ new.held = work[w].held
    BY <1>4 DEF Job, IndInv, TypeOK, Idle
  <2>2. work' = [work EXCEPT ![w] = new]
    BY <1>5
  <2> HIDE DEF new
  <2>3. work'[w] = new /\ \A v \in Worker : v # w => work'[v] = work[v]
    BY <1>4, <2>2
  <2>4. TypeOK'
    BY <1>2, <1>4, <1>5, <2>1, <2>2 DEF IndInv, TypeOK, Job, Idle, Text
  <2>5. /\ \A q \in Source \ Task : row[q] = "live" =>
              \/ card'[q] = text[q] \/ q \in lost' \/ Awaited(q)' \/ ByOther(w, q)
              \/ work'[w].held /\ work'[w].source = q
        /\ OneWorker => \A q \in Note \cup Todo : row[q] = "gone" =>
              card'[q] = 0 \/ q \in lost' \/ Awaited(q)'
    BY <1>1, <1>2, <1>3, <1>5, <2>1, <2>3, RunFacts
  <2>6. row[s] = "live" /\ work'[w].source = s /\ work'[w].kind # "reconcile"
        /\ work'[w].stage = "write" /\ work'[w].read = text[s] /\ work'[w] # Idle
    BY <1>5, <2>1, <2>3
  <2>7. \A q \in Note \cup Todo :
           work'[w].source = q /\ row[q] = "gone" => FALSE
    BY <2>6
  <2>8. \A k \in JobKind, q \in Source : queued'[<<k, q>>] > 0 => queued[<<k, q>>] > 0
    BY <1>2
  <2>9. \A q \in Source \ Task : card'[q] = card[q]
    BY <1>5
  <2> HIDE <1>5, <2>1
  <2> QED BY <1>2, <1>4, <2>3, <2>4, <2>5, <2>6, <2>7, <2>8, <2>9, RunStep
<1>6. CASE /\ row[s] # "live" /\ card' = [card EXCEPT ![s] = 0]
           /\ work' = [work EXCEPT ![w].stage = "settle"]
  <2> DEFINE new == [work[w] EXCEPT !.stage = "settle"]
  <2>1. /\ new \in Job /\ new # Idle /\ new.stage = "settle"
        /\ new.source = s /\ new.kind = work[w].kind /\ new.held = work[w].held
    BY <1>4 DEF Job, Idle
  <2>2. work' = [work EXCEPT ![w] = new]
    BY <1>6
  <2> HIDE DEF new
  <2>3. work'[w] = new /\ \A v \in Worker : v # w => work'[v] = work[v]
    BY <1>4, <2>2
  <2>4. TypeOK'
    BY <1>2, <1>4, <1>6, <2>1, <2>2 DEF IndInv, TypeOK, Job, Idle, Text
  <2>5. row[s] = "gone" /\ (work[w].kind = "reconcile" => row[s] = "gone")
    BY <1>1, <1>6, RunFacts
  <2>6. card'[s] = 0 /\ \A q \in Source : q # s => card'[q] = card[q]
    BY <1>4, <1>6 DEF IndInv, TypeOK
  <2>7. \A q \in Note \cup Todo : q \in Source
    BY DEF Source
  <2>8. /\ \A q \in Source \ Task : row[q] = "live" =>
              card'[q] = text[q] \/ q \in lost' \/ Awaited(q)' \/ ByOther(w, q)
        /\ OneWorker => \A q \in Note \cup Todo : row[q] = "gone" =>
              card'[q] = 0 \/ q \in lost' \/ Awaited(q)'
    BY <1>1, <1>2, <1>3, <2>5, <2>6, <2>7, RunFacts
  <2> QED BY <1>1, <1>2, <1>4, <2>1, <2>3, <2>4, <2>5, <2>6, <2>8, RunStep
<1>7. work[w].kind = "reconcile" => row[s] # "live"
  BY <1>1, RunFacts
<1> QED BY <1>5, <1>6, <1>7 DEF ReadSource, CardOfGone

\* The second transaction: the card is written, whatever became of the row.
LEMMA WriteCardStep ==
    ASSUME IndInv, NEW w \in Worker, WriteCard(w)
    PROVE  IndInv'
<1> DEFINE new == [work[w] EXCEPT !.stage = "settle"]
<1>1. work[w] # Idle /\ work[w].stage = "write"
  BY DEF WriteCard, Working
<1>s. PICK s \in Source : s = work[w].source
  BY <1>1, RunFacts
<1> USE <1>s
<1>2. /\ row' = row /\ text' = text /\ queued' = queued /\ client' = client
      /\ failures' = failures /\ lost' = lost
      /\ card' = [card EXCEPT ![s] = work[w].read] /\ work' = [work EXCEPT ![w] = new]
  BY DEF WriteCard, CardAfter
<1>3. \A q : Awaited(q)' <=> Awaited(q)
  BY <1>2 DEF Awaited
<1>4. s \in Source /\ work \in [Worker -> Job \cup {Idle}] /\ work[w] \in Job /\ work[w].read \in Text
  BY <1>1, RunFacts, RowTypes DEF IndInv
<1>5. /\ new \in Job /\ new # Idle /\ new.stage = "settle"
      /\ new.source = s /\ new.kind = work[w].kind /\ new.held = work[w].held
  BY <1>4 DEF Job, Idle
<1> HIDE DEF new
<1>6. work'[w] = new /\ \A v \in Worker : v # w => work'[v] = work[v]
  BY <1>2, <1>4
<1>7. TypeOK'
  BY <1>2, <1>4, <1>5 DEF IndInv, TypeOK, Job, Idle, Text
<1>8. card'[s] = work[w].read /\ \A q \in Source : q # s => card'[q] = card[q]
  BY <1>2, <1>4 DEF IndInv, TypeOK
<1>9. \A q \in Note \cup Todo : q \in Source
  BY DEF Source
<1>10. /\ \A q \in Source \ Task : row[q] = "live" =>
             card'[q] = text[q] \/ q \in lost' \/ Awaited(q)' \/ ByOther(w, q)
       /\ OneWorker => \A q \in Note \cup Todo : row[q] = "gone" =>
             card'[q] = 0 \/ q \in lost' \/ Awaited(q)'
  BY <1>1, <1>2, <1>3, <1>8, <1>9, RunFacts
<1>11. /\ s \notin Task /\ row[s] = "live" => card'[s] = text[s]
       /\ OneWorker /\ s \in Note \cup Todo /\ row[s] = "gone" => Awaited(s)'
       /\ row[s] # "absent" /\ (work[w].kind = "reconcile" => row[s] = "gone")
  BY <1>1, <1>3, <1>8, RunFacts
<1> QED BY <1>1, <1>2, <1>4, <1>5, <1>6, <1>7, <1>10, <1>11, RunStep

\* The end of a run: settled, dead, or given back to the queue.
LEMMA EndStep ==
    ASSUME IndInv, NEW w \in Worker, Settle(w) \/ Retry(w) \/ DeadLetter(w) \/ LeaseLost(w)
    PROVE  IndInv'
<1>1. work[w] # Idle
  BY DEF Settle, Retry, DeadLetter, LeaseLost, Working
<1>s. PICK s \in Source, k \in JobKind : s = work[w].source /\ k = work[w].kind
  BY <1>1, RunFacts
<1> USE <1>s
<1>2. /\ row' = row /\ text' = text /\ card' = card /\ client' = client
      /\ failures \in 0..MaxFailures
  BY DEF Settle, Retry, DeadLetter, LeaseLost, IndInv, TypeOK
<1>3. /\ s \in Source /\ k \in JobKind /\ <<k, s>> \in JobKind \X Source
      /\ work \in [Worker -> Job \cup {Idle}] /\ work[w] \in Job
  BY <1>1, RunFacts, RowTypes DEF IndInv
<1>4. failures < MaxFailures => failures + 1 \in 0..MaxFailures
  BY <1>2, RowsAssumption
<1>5. ASSUME queued' = Requeued(work[w]), queued[<<k, s>>] < MaxQueued
      PROVE  /\ queued' \in [JobKind \X Source -> 0..MaxQueued]
             /\ \A i \in JobKind, q \in Source : queued'[<<i, q>>] > 0 =>
                   queued[<<i, q>>] > 0 \/ (k = i /\ s = q)
             /\ \A q \in Source : Awaited(q) => Awaited(q)'
             /\ Awaited(s)'
  <2>1. queued' = [queued EXCEPT ![<<k, s>>] = @ + 1]
    BY <1>5 DEF Requeued
  <2>2. queued[<<k, s>>] \in Nat /\ queued[<<k, s>>] + 1 \in 0..MaxQueued
    BY <1>3, <1>5, RowTypes, RowsAssumption DEF IndInv
  <2>3. queued \in [JobKind \X Source -> 0..MaxQueued]
    BY RowTypes DEF IndInv
  <2>4. \A i \in JobKind, q \in Source :
           queued'[<<i, q>>] = IF i = k /\ q = s THEN queued[<<k, s>>] + 1 ELSE queued[<<i, q>>]
    BY <1>3, <2>1, <2>3
  <2>5. queued' \in [JobKind \X Source -> 0..MaxQueued]
    BY <2>1, <2>2, <2>3
  <2>6. Awaited(s)'
    BY <1>3, <2>2, <2>4 DEF Awaited
  <2>7. \A q \in Source : Awaited(q) => Awaited(q)'
    BY <2>2, <2>4 DEF Awaited
  <2> QED BY <2>4, <2>5, <2>6, <2>7
<1>6. queued' = queued => \A q : Awaited(q)' <=> Awaited(q)
  BY DEF Awaited
<1>7. \A q \in Note \cup Todo : q \in Source
  BY DEF Source
<1>8. CASE work' = [work EXCEPT ![w] = Idle]
  <2>1. work'[w] = Idle /\ \A v \in Worker : v # w => work'[v] = work[v]
    BY <1>3, <1>8
  <2>2. work' \in [Worker -> Job \cup {Idle}]
    BY <1>3, <1>8
  <2>3. CASE Settle(w)
    <3>1. queued' = queued /\ failures' = failures /\ lost' = lost \ {s} /\ work[w].stage = "settle"
      BY <2>3 DEF Settle, Working
    <3>2. TypeOK'
      BY <1>2, <2>2, <3>1 DEF IndInv, TypeOK, Job, Idle, Text
    <3>3. /\ \A q \in Source \ Task : row[q] = "live" =>
                card'[q] = text[q] \/ q \in lost' \/ Awaited(q)' \/ ByOther(w, q)
          /\ OneWorker => \A q \in Note \cup Todo : row[q] = "gone" =>
                card'[q] = 0 \/ q \in lost' \/ Awaited(q)'
      BY <1>1, <1>2, <1>6, <1>7, <3>1, RunFacts
    <3> QED BY <1>2, <2>1, <3>1, <3>2, <3>3, RunStep
  <2>4. CASE Retry(w)
    <3>1. /\ failures' = failures + 1 /\ failures < MaxFailures /\ lost' = lost
          /\ work[w].held => queued[<<k, s>>] < MaxQueued /\ queued' = Requeued(work[w])
          /\ ~work[w].held => queued' = queued
      BY <2>4 DEF Retry
    <3>2. /\ queued' \in [JobKind \X Source -> 0..MaxQueued]
          /\ \A i \in JobKind, q \in Source : queued'[<<i, q>>] > 0 =>
                queued[<<i, q>>] > 0 \/ (k = i /\ s = q)
          /\ \A q \in Source : Awaited(q) => Awaited(q)'
          /\ work[w].held => Awaited(s)'
      BY <1>5, <1>6, <3>1, RowTypes DEF IndInv
    <3>3. TypeOK'
      BY <1>2, <1>4, <2>2, <3>1, <3>2 DEF IndInv, TypeOK, Job, Idle, Text
    <3>4. /\ \A q \in Source \ Task : row[q] = "live" =>
                card'[q] = text[q] \/ q \in lost' \/ Awaited(q)' \/ ByOther(w, q)
          /\ OneWorker => \A q \in Note \cup Todo : row[q] = "gone" =>
                card'[q] = 0 \/ q \in lost' \/ Awaited(q)'
      BY <1>1, <1>2, <1>7, <3>1, <3>2, RunFacts
    <3> QED BY <1>1, <1>2, <2>1, <3>2, <3>3, <3>4, RunStep
  <2>5. CASE DeadLetter(w)
    <3>1. /\ failures' = failures + 1 /\ failures < MaxFailures /\ queued' = queued
          /\ lost' = IF work[w].held THEN lost \cup {s} ELSE lost
      BY <2>5 DEF DeadLetter
    <3>2. TypeOK'
      BY <1>2, <1>3, <1>4, <2>2, <3>1 DEF IndInv, TypeOK, Job, Idle, Text
    <3>3. /\ \A q \in Source \ Task : row[q] = "live" =>
                card'[q] = text[q] \/ q \in lost' \/ Awaited(q)' \/ ByOther(w, q)
          /\ OneWorker => \A q \in Note \cup Todo : row[q] = "gone" =>
                card'[q] = 0 \/ q \in lost' \/ Awaited(q)'
      BY <1>1, <1>2, <1>6, <1>7, <3>1, RunFacts
    <3> QED BY <1>2, <2>1, <3>1, <3>2, <3>3, RunStep
  <2>6. CASE LeaseLost(w)
    <3>1. work'[w] # Idle
      BY <1>3, <2>6 DEF LeaseLost, Job, Idle
    <3> QED BY <2>1, <3>1
  <2> QED BY <2>3, <2>4, <2>5, <2>6
<1>9. CASE LeaseLost(w)
  <2> DEFINE new == [work[w] EXCEPT !.held = FALSE]
  <2>1. /\ new \in Job /\ new # Idle /\ new.stage = work[w].stage /\ new.read = work[w].read
        /\ new.source = s /\ new.kind = k /\ new.held = FALSE
    BY <1>3 DEF Job, Idle
  <2>2. /\ work' = [work EXCEPT ![w] = new] /\ lost' = lost /\ failures' = failures + 1
        /\ failures < MaxFailures /\ queued[<<k, s>>] < MaxQueued /\ queued' = Requeued(work[w])
        /\ work[w].held
    BY <1>9 DEF LeaseLost
  <2> HIDE DEF new
  <2>3. work'[w] = new /\ \A v \in Worker : v # w => work'[v] = work[v]
    BY <1>3, <2>2
  <2>4. /\ queued' \in [JobKind \X Source -> 0..MaxQueued]
        /\ \A i \in JobKind, q \in Source : queued'[<<i, q>>] > 0 =>
              queued[<<i, q>>] > 0 \/ (k = i /\ s = q)
        /\ \A q \in Source : Awaited(q) => Awaited(q)'
        /\ Awaited(s)'
    BY <1>5, <2>2
  <2>5. TypeOK'
    BY <1>2, <1>3, <1>4, <2>1, <2>2, <2>4 DEF IndInv, TypeOK, Job, Idle, Text
  <2>6. /\ \A q \in Source \ Task : row[q] = "live" =>
              card'[q] = text[q] \/ q \in lost' \/ Awaited(q)' \/ ByOther(w, q)
        /\ OneWorker => \A q \in Note \cup Todo : row[q] = "gone" =>
              card'[q] = 0 \/ q \in lost' \/ Awaited(q)'
    BY <1>1, <1>2, <1>7, <2>2, <2>4, RunFacts
  <2>7. /\ s \notin Task /\ row[s] = "live" =>
              /\ work[w].stage = "write" => work[w].read = text[s]
              /\ work[w].stage = "settle" => card'[s] = text[s]
        /\ row[s] # "absent"
        /\ k = "reconcile" => row[s] = "gone" /\ work[w].stage # "write"
    BY <1>1, <1>2, RunFacts
  <2> QED BY <1>1, <1>2, <1>3, <2>1, <2>3, <2>4, <2>5, <2>6, <2>7, RunStep
<1> QED BY <1>8, <1>9 DEF Settle, Retry, DeadLetter

\* Every step of rows and jobs keeps the invariant.
LEMMA RowsStep == IndInv /\ [Next]_vars => IndInv'
<1> SUFFICES ASSUME IndInv, [Next]_vars PROVE IndInv'
  OBVIOUS
<1>1. CASE UNCHANGED vars
  <2>1. TypeOK'
    BY <1>1 DEF vars, IndInv, TypeOK, Job, Idle, Text
  <2>2. JobsInv' /\ ListedInv' /\ (OneWorker => UnlistedInv')
    BY <1>1 DEF vars, IndInv, JobsInv, ListedInv, UnlistedInv, Awaited, Working, Idle
  <2> QED BY <2>1, <2>2 DEF IndInv
<1>2. CASE Write \/ WriteBeside
  BY <1>2, WriteRows DEF Write, WriteBeside
<1>3. CASE Work
  BY <1>3, OperatorRows, ClaimStep, ReadStep, WriteCardStep, EndStep DEF Work, Step
<1> QED BY <1>1, <1>2, <1>3 DEF Next

\* A source for which nothing is queued or under way is listed as its row is.
LEMMA QuietRows == IndInv => LiveIsListed /\ (OneWorker => GoneIsUnlisted)
<1> SUFFICES ASSUME IndInv PROVE LiveIsListed /\ (OneWorker => GoneIsUnlisted)
  OBVIOUS
<1>1. ASSUME NEW s, Quiet(s)
      PROVE  ~Awaited(s) /\ \A w \in Worker : work[w] # Idle => work[w].source # s
  <2>1. \A k \in JobKind : queued[<<k, s>>] = 0
    BY <1>1 DEF Quiet
  <2>2. ~Awaited(s)
    <3>1. ASSUME NEW k \in JobKind, queued[<<k, s>>] > 0 PROVE FALSE
      <4>1. queued[<<k, s>>] = 0
        BY <2>1
      <4> QED BY <3>1, <4>1
    <3> QED BY <3>1 DEF Awaited
  <2> QED BY <1>1, <2>2 DEF Quiet
<1>2. OneWorker => GoneIsUnlisted
  BY <1>1 DEF IndInv, UnlistedInv, GoneIsUnlisted, Working
<1>3. LiveIsListed
  BY <1>1 DEF IndInv, ListedInv, LiveIsListed
<1> QED BY <1>2, <1>3

\* The inductive invariants of the three sides.
Sides ==
    /\ side \in {"rows", "table", "assets"}
    /\ side = "rows" => IndInv
    /\ side = "table" => R!IndInv
    /\ side = "assets" => A!IndInv

\* They hold in the specification of the run, each when it is its side's turn.
LEMMA SidesCorrect == SearchSpec => []Sides
<1>1. SearchInit => Sides
  BY RowsInit, TableInit, AssetsInit DEF SearchInit, Sides
<1>2. Sides /\ [SearchNext]_searchVars => Sides'
  <2> SUFFICES ASSUME Sides, [SearchNext]_searchVars
               PROVE  Sides'
    OBVIOUS
  <2>1. side' = side
    BY DEF SearchNext, searchVars
  <2>2. CASE side = "rows"
    <3>1. [Next]_vars
      BY <2>2 DEF SearchNext, searchVars
    <3>2. IndInv'
      BY <2>2, <3>1, RowsStep DEF Sides
    <3> QED BY <2>1, <2>2, <3>2 DEF Sides
  <2>3. CASE side = "table"
    <3>1. [R!Next]_(R!vars)
      BY <2>3 DEF SearchNext, searchVars, tableVars, R!vars
    <3>2. R!IndInv'
      BY <2>3, <3>1, TableStep DEF Sides
    <3> QED BY <2>1, <2>3, <3>2 DEF Sides
  <2>4. CASE side = "assets"
    <3>1. [A!Next]_(A!vars)
      BY <2>4 DEF SearchNext, searchVars, assetVars, A!vars
    <3>2. A!IndInv'
      BY <2>4, <3>1, AssetsStep DEF Sides
    <3> QED BY <2>1, <2>4, <3>2 DEF Sides
  <2> QED BY <2>2, <2>3, <2>4 DEF Sides
<1> QED BY <1>1, <1>2, PTL DEF SearchSpec

-----------------------------------------------------------------------------
(***************************************************************************)
(* The theorems.                                                           *)
(***************************************************************************)
\* A row that is there is listed with its text, for any number of workers, and with one
\* worker a row that is gone is unlisted, once their jobs are done and none was lost:
\* whatever index, trailing, rebuild and reconcile jobs, failures and lost leases there
\* were.
THEOREM RowsCorrect == Spec => [](LiveIsListed /\ (OneWorker => GoneIsUnlisted))
<1> QED BY RowsInit, RowsStep, QuietRows, PTL DEF Spec

\* Two cards of one target under one version come from index calls that overlapped, for
\* any number of workers.
THEOREM TableCorrect == R!Spec => []R!TwinsOverlap
<1>1. R!IndInv => R!TwinsOverlap
  BY DEF R!IndInv
<1> QED BY TableInit, TableStep, <1>1, PTL DEF R!Spec

\* Whatever the table and the query: a card that comes before another in every list is
\* ranked before it; a search serves what was asked for, all of it unless the limits
\* cut it, and a context package is a prefix of the hits that fits its budget.
THEOREM SearchesCorrect == R!Spec => [](R!DominantRanksFirst /\ R!MatchesAreServed)
<1> QED BY TableInit, TableStep, DominanceHolds, ServingHolds, PTL DEF R!Spec

\* Assets have bytes and a blob row that counts them, and derived text has its index
\* job, for any number of uploads, workers and attempts.
THEOREM AssetsCorrect == A!Spec => [](A!BlobsAreBacked /\ A!TextIsIndexed)
<1>1. A!IndInv => A!BlobsAreBacked /\ A!TextIsIndexed
  BY DEF A!IndInv
<1> QED BY AssetsInit, AssetsStep, <1>1, PTL DEF A!Spec

\* Types and jobs of the three sides, in the specification of the run; and with the one
\* worker that compose starts, a row that is gone is not listed.
THEOREM IndexSound == ASSUME OneWorker PROVE SearchSpec => []CardsSound
<1>1. Sides => CardsSound
  BY QuietRows DEF Sides, CardsSound, IndInv, R!IndInv, A!IndInv
<1> QED BY <1>1, SidesCorrect, PTL

\* What is live is listed with its text, or has a job that will list it, and is listed
\* once its jobs are done, in the specification of the run and for any number of workers.
THEOREM ListingHolds == SearchSpec => []RowsAreListed
<1>1. Sides => RowsAreListed
  BY QuietRows DEF Sides, RowsAreListed, IndInv
<1> QED BY <1>1, SidesCorrect, PTL

\* Twins in the table need index calls that overlapped.
THEOREM TwinsHold == SearchSpec => []TwinsOverlap
<1>1. Sides => TwinsOverlap
  BY DEF Sides, TwinsOverlap, R!IndInv
<1> QED BY <1>1, SidesCorrect, PTL

\* Searches rank and serve as they should, in the specification of the run.
THEOREM SearchesServe == SearchSpec => []SearchServes
<1>1. Sides => SearchServes
  BY DominanceHolds, ServingHolds DEF Sides, SearchServes
<1> QED BY <1>1, SidesCorrect, PTL

\* An asset has its bytes and its count, and its text reaches the index.
THEOREM UploadsHold == SearchSpec => []UploadsReachTheIndex
<1>1. Sides => UploadsReachTheIndex
  BY DEF Sides, UploadsReachTheIndex, A!IndInv
<1> QED BY <1>1, SidesCorrect, PTL
=============================================================================

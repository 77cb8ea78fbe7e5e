-------------------------- MODULE ExtractionProofs --------------------------
(***************************************************************************)
(* Proofs about what becomes of one response, for any tables, grids, cards *)
(* and lists, any labels and any cells: the mapping of columns to fields   *)
(* is stable, and what passes validation fits the table.                   *)
(***************************************************************************)
EXTENDS Extraction, FiniteSetTheorems, SequenceTheorems, WellFoundedInduction, TLAPS

(***************************************************************************)
(* Sets of numbers, and sequences.                                         *)
(***************************************************************************)

(* Induction, over a set.                                                  *)
LEMMA SetInduction ==
  ASSUME NEW T, 0 \in T, \A n \in Nat : n \in T => n + 1 \in T
  PROVE  \A n \in Nat : n \in T
<1> SUFFICES ASSUME NEW x \in Nat, x \notin T PROVE FALSE
  OBVIOUS
<1>1. PICK n \in Nat \ T : \A m \in Nat \ T : <<m, n>> \notin OpToRel(<, Nat)
  <2>1. Nat \ T # {} /\ Nat \ T \subseteq Nat
    OBVIOUS
  <2> QED
    BY <2>1, NatLessThanWellFounded, WFMin
<1>2. n \in Nat /\ n \notin T /\ n # 0
  OBVIOUS
<1>3. n - 1 \in Nat /\ n - 1 < n /\ (n - 1) + 1 = n
  BY <1>2
<1>4. n - 1 \in T
  BY <1>1, <1>3 DEF OpToRel
<1> QED
  BY <1>2, <1>3, <1>4

(* A set of numbers has a first.                                           *)
LEMMA FirstIs ==
  ASSUME NEW S \in SUBSET Nat, S # {}
  PROVE  First(S) \in S /\ \A j \in S : First(S) <= j
<1>1. PICK i \in S : \A j \in S : <<j, i>> \notin OpToRel(<, Nat)
  BY NatLessThanWellFounded, WFMin
<1>2. \A j \in S : ~(j < i)
  BY <1>1 DEF OpToRel
<1>3. \A j \in S : i <= j
  BY <1>2
<1> QED
  BY <1>3, Zenon DEF First

(* Of finitely many places that are ranked one ranks first.                *)
LEMMA TopExists ==
  ASSUME NEW n \in Nat \ {0}, NEW R,
         \A i, j \in 1 .. n : <<i, j>> \in R \/ <<j, i>> \in R,
         \A i, j, k \in 1 .. n : <<i, j>> \in R /\ <<j, k>> \in R => <<i, k>> \in R
  PROVE  \E i \in 1 .. n : \A j \in 1 .. n : <<i, j>> \in R
<1> DEFINE T == {m \in Nat : m < n => \E i \in 1 .. m + 1 : \A j \in 1 .. m + 1 : <<i, j>> \in R}
<1>1. 0 \in T
  OBVIOUS
<1>2. ASSUME NEW m \in Nat, m \in T PROVE m + 1 \in T
  <2> SUFFICES ASSUME m + 1 < n
               PROVE  \E i \in 1 .. m + 2 : \A j \in 1 .. m + 2 : <<i, j>> \in R
    OBVIOUS
  <2>1. PICK i \in 1 .. m + 1 : \A j \in 1 .. m + 1 : <<i, j>> \in R
    BY <1>2
  <2>2. m + 2 \in 1 .. n /\ i \in 1 .. n /\ 1 .. m + 1 \subseteq 1 .. n
    OBVIOUS
  <2>3. 1 .. m + 2 = (1 .. m + 1) \cup {m + 2}
    OBVIOUS
  <2>4. <<m + 2, m + 2>> \in R
    BY <2>2
  <2>5. CASE <<i, m + 2>> \in R
    BY <2>1, <2>3, <2>5
  <2>6. CASE <<m + 2, i>> \in R
    <3>1. \A j \in 1 .. m + 1 : <<m + 2, j>> \in R
      BY <2>1, <2>2, <2>6
    <3> QED
      BY <2>3, <2>4, <3>1
  <2> QED
    BY <2>2, <2>5, <2>6
<1> HIDE DEF T
<1>3. n - 1 \in T
  BY <1>1, <1>2, SetInduction
<1>4. n - 1 < n /\ (n - 1) + 1 = n
  OBVIOUS
<1> QED
  BY <1>3, <1>4 DEF T

(* The k-th of a set of places is one of them, and each is another.        *)
LEMMA PlaceIs ==
  ASSUME NEW n \in Nat, NEW S \in SUBSET (1 .. n)
  PROVE  /\ Cardinality(S) \in Nat
         /\ \A k \in 1 .. Cardinality(S) : Place(S, k) \in S
         /\ \A k, l \in 1 .. Cardinality(S) : Place(S, k) = Place(S, l) => k = l
<1> DEFINE N    == Cardinality(S)
           B(i) == {j \in S : j < i}
           f    == [i \in S |-> Cardinality(B(i))]
<1>0. IsFiniteSet(1 .. n) /\ S \subseteq Int
  BY FS_Interval
<1>1. IsFiniteSet(S) /\ N \in Nat
  BY <1>0, FS_Subset, FS_CardinalityType
<1>2. ASSUME NEW i \in S PROVE f[i] \in 0 .. N - 1
  <2>1. B(i) \subseteq S /\ i \notin B(i)
    BY <1>0
  <2>2. Cardinality(B(i)) <= N /\ Cardinality(B(i)) # N /\ IsFiniteSet(B(i))
    <3>1. B(i) \in SUBSET S /\ B(i) # S
      BY <2>1
    <3> HIDE DEF B
    <3> QED
      BY <1>1, <3>1, FS_Subset
  <2>3. Cardinality(B(i)) \in Nat
    BY <2>2, FS_CardinalityType
  <2> QED
    BY <1>1, <2>2, <2>3
<1>3. ASSUME NEW i \in S, NEW j \in S, i < j PROVE f[i] < f[j]
  <2>1. B(i) \cup {i} \subseteq B(j) /\ i \notin B(i) /\ B(i) \subseteq S /\ B(j) \subseteq S
    <3>1. \A h \in S : h < i => h < j
      BY <1>0, <1>3
    <3>2. i \in B(j) /\ i \notin B(i)
      BY <1>0, <1>3
    <3> QED
      BY <3>1, <3>2
  <2>2. IsFiniteSet(B(i)) /\ IsFiniteSet(B(j))
    BY <1>1, <2>1, FS_Subset
  <2> HIDE DEF B
  <2>3. Cardinality(B(i) \cup {i}) = Cardinality(B(i)) + 1
    BY <2>1, <2>2, FS_AddElement
  <2>4. Cardinality(B(i) \cup {i}) <= Cardinality(B(j))
    BY <2>1, <2>2, FS_Subset
  <2>5. f[i] = Cardinality(B(i)) /\ f[j] = Cardinality(B(j)) /\ f[i] \in Int
    BY <1>2
  <2> HIDE DEF f
  <2> QED
    BY <2>2, <2>3, <2>4, <2>5, FS_CardinalityType
<1>4. \A i, j \in S : f[i] = f[j] => i = j
  <2> SUFFICES ASSUME NEW i \in S, NEW j \in S, i # j PROVE f[i] # f[j]
    OBVIOUS
  <2>1. i < j \/ j < i
    BY <1>0
  <2> HIDE DEF f
  <2> QED
    BY <1>2, <1>3, <2>1
<1> HIDE DEF f
<1>5. ASSUME NEW k \in 1 .. N PROVE \E i \in S : f[i] = k - 1
  <2> SUFFICES ASSUME \A i \in S : f[i] # k - 1 PROVE FALSE
    OBVIOUS
  <2> DEFINE T == (0 .. N - 1) \ {k - 1}
  <2>1. f \in [S -> T]
    BY <1>2 DEF f
  <2>2. IsFiniteSet(T) /\ Cardinality(T) < N
    <3> DEFINE I == 0 .. N - 1
    <3> HIDE DEF N
    <3>0. 0 \in Int /\ N - 1 \in Int /\ ~(0 > N - 1) /\ (N - 1) - 0 + 1 = N /\ k - 1 \in I
      BY <1>1
    <3>1. IsFiniteSet(I) /\ Cardinality(I) = N
      BY <3>0, FS_Interval
    <3>2. T = I \ {k - 1}
      OBVIOUS
    <3> HIDE DEF I, T
    <3>3. IsFiniteSet(T) /\ Cardinality(T) = N - 1
      BY <3>0, <3>1, <3>2, FS_RemoveElement
    <3> QED
      BY <1>1, <3>3
  <2> HIDE DEF T, N
  <2>3. Cardinality(T) < Cardinality(S) /\ IsFiniteSet(S)
    BY <1>1, <2>2 DEF N
  <2>4. \E x, y \in S : x # y /\ f[x] = f[y]
    BY <2>1, <2>2, <2>3, FS_PigeonHole
  <2> QED
    BY <1>4, <2>4
<1>6. ASSUME NEW k \in 1 .. N PROVE Place(S, k) \in S /\ f[Place(S, k)] = k - 1
  <2>1. \E i \in S : Cardinality({j \in S : j < i}) = k - 1
    BY <1>5 DEF f
  <2>2. Place(S, k) \in S /\ Cardinality({j \in S : j < Place(S, k)}) = k - 1
    BY <2>1, Zenon DEF Place
  <2> QED
    BY <2>2 DEF f
<1>7. ASSUME NEW k \in 1 .. N, NEW l \in 1 .. N, Place(S, k) = Place(S, l) PROVE k = l
  BY <1>6, <1>7
<1> QED
  BY <1>1, <1>6, <1>7

(* What is kept is what was there, once for each place.                    *)
LEMMA KeepIs ==
  ASSUME NEW n \in Nat, NEW S \in SUBSET (1 .. n), NEW s, NEW D, \A i \in S : s[i] \in D
  PROVE  /\ Keep(s, S) \in Seq(D) /\ Len(Keep(s, S)) = Cardinality(S)
         /\ DOMAIN Keep(s, S) = 1 .. Cardinality(S)
         /\ \A k \in 1 .. Cardinality(S) : Keep(s, S)[k] = s[Place(S, k)] /\ Place(S, k) \in S
         /\ \A k, l \in 1 .. Cardinality(S) : Place(S, k) = Place(S, l) => k = l
<1>1. /\ Cardinality(S) \in Nat
      /\ \A k \in 1 .. Cardinality(S) : Place(S, k) \in S
      /\ \A k, l \in 1 .. Cardinality(S) : Place(S, k) = Place(S, l) => k = l
  BY PlaceIs
<1>2. Keep(s, S) = [k \in 1 .. Cardinality(S) |-> s[Place(S, k)]]
  BY DEF Keep
<1>3. \A k \in 1 .. Cardinality(S) : Keep(s, S)[k] \in D
  BY <1>1, <1>2
<1>4. Keep(s, S) \in Seq(D)
  BY <1>1, <1>2, <1>3, IsASeq
<1> QED
  BY <1>1, <1>2, <1>4, LenProperties

(* What is kept of a sequence is a sequence of the same.                   *)
LEMMA KeepType ==
  ASSUME NEW n \in Nat, NEW S \in SUBSET (1 .. n), NEW s, NEW D, \A i \in S : s[i] \in D
  PROVE  Keep(s, S) \in Seq(D)
BY KeepIs

(***************************************************************************)
(* The mapping of columns to fields.                                       *)
(***************************************************************************)

FieldNames == {CANONICAL_FIELDS[f].name : f \in DOMAIN CANONICAL_FIELDS}

(* There are nineteen canonical fields,                                    *)
LEMMA FieldCount == Len(CANONICAL_FIELDS) = 19 /\ DOMAIN CANONICAL_FIELDS = 1 .. 19
BY DEF CANONICAL_FIELDS

(* and no more names of them.                                              *)
LEMMA FieldNamesFinite == IsFiniteSet(FieldNames) /\ Cardinality(FieldNames) <= 19
<1> DEFINE g == [f \in 1 .. 19 |-> CANONICAL_FIELDS[f].name]
<1>1. g \in Surjection(1 .. 19, FieldNames)
  BY FieldCount DEF Surjection, FieldNames
<1>2. \A n \in Nat : IsFiniteSet(1 .. n) /\ Cardinality(1 .. n) = n
  BY FS_Interval
<1> DEFINE I == 1 .. 19
<1>3. IsFiniteSet(I) /\ Cardinality(I) = 19 /\ g \in Surjection(I, FieldNames)
  BY <1>1, <1>2
<1> HIDE DEF g, I
<1> QED
  BY <1>3, FS_Surjection

\* No pair scores more than an exact label of a machine column.
IsScore(score) == score \in Nat /\ score <= 12500

(* A label scores a natural number,                                        *)
LEMMA LabelScore ==
  ASSUME NEW field, NEW label
  PROVE  IsScore(score_label(field, label))
BY DEF IsScore, score_label, SCORE_EXACT, SCORE_TOKEN_SUBSET, SCORE_SUBSTRING, MACHINE_COLUMN_BONUS

(* as does a share of the score of a shape,                                *)
LEMMA Share ==
  ASSUME NEW h \in Nat, NEW n \in Nat \ {0}, h <= n
  PROVE  (4500 * h) \div n \in Nat /\ (4500 * h) \div n <= 4500
OBVIOUS

(* and so the values of a column.                                          *)
LEMMA ValueScore ==
  ASSUME NEW field, NEW col, NEW R, NEW rows \in Seq(R)
  PROVE  IsScore(score_values(field, col, rows))
<1> DEFINE samples == {n \in DOMAIN rows : /\ n <= 25 /\ Has(rows[n], col)
                                           /\ ~is_null_token(Cell(rows[n], col).text)}
           hits    == {n \in samples : looks_like(field.shape, Cell(rows[n], col).text)}
           h       == Cardinality(hits)
           found   == Cardinality(samples)
<1>1. hits \in SUBSET samples /\ samples \in SUBSET (1 .. Len(rows)) /\ Len(rows) \in Nat
  BY LenProperties
<1>2. score_values(field, col, rows) =
        IF found < 2 \/ 10 * h < 6 * found THEN 0 ELSE (4500 * h) \div found
  BY DEF score_values, SCORE_VALUE_SHAPE
<1> HIDE DEF hits, samples
<1>3. IsFiniteSet(samples)
  <2>1. IsFiniteSet(1 .. Len(rows))
    BY <1>1, FS_Interval
  <2> QED
    BY <1>1, <2>1, FS_Subset
<1>4. h \in Nat /\ found \in Nat /\ h <= found
  BY <1>1, <1>3, FS_Subset, FS_CardinalityType
<1> HIDE DEF h, found
<1>5. CASE found < 2 \/ 10 * h < 6 * found
  BY <1>2, <1>5 DEF IsScore
<1>6. CASE ~(found < 2 \/ 10 * h < 6 * found)
  <2>1. found \in Nat \ {0}
    BY <1>4, <1>6
  <2> DEFINE q == (4500 * h) \div found
  <2>2. q \in Nat /\ q <= 4500
    BY <1>4, <2>1, Share
  <2>3. score_values(field, col, rows) = q
    BY <1>2, <1>6
  <2> HIDE DEF q
  <2> QED
    BY <2>2, <2>3 DEF IsScore
<1> QED
  BY <1>5, <1>6

\* What the assignment needs to know of the pairs.
Candidates(pairs) ==
  /\ \A c \in pairs : c.field \in FieldNames /\ c.score \in Nat \ {0} /\ c.score <= 12500 /\ c.pos \in Nat
  /\ \A c, d \in pairs : c.pos = d.pos => c = d

(* Candidates have a place of their own, a score and a known field.        *)
LEMMA CandidatesType ==
  ASSUME NEW L, NEW columns \in Seq(L), NEW R, NEW rows \in Seq(R)
  PROVE  Candidates(candidates(columns, rows))
<1> DEFINE N == DOMAIN columns
           F == DOMAIN CANONICAL_FIELDS
<1>1. N \subseteq Nat /\ F = 1 .. 19
  BY LenProperties, FieldCount
<1>2. ASSUME NEW n \in N, NEW f \in F
      PROVE  /\ Pair(columns, rows, n, f).field \in FieldNames
             /\ IsScore(Pair(columns, rows, n, f).score)
             /\ Pair(columns, rows, n, f).pos = 19 * n + f
  <2>1. IsScore(score_values(CANONICAL_FIELDS[f], columns[n], rows))
    BY ValueScore
  <2>2. IsScore(score_label(CANONICAL_FIELDS[f], columns[n]))
    BY LabelScore
  <2>3. CANONICAL_FIELDS[f].name \in FieldNames
    BY DEF FieldNames
  <2> QED
    BY <1>1, <2>1, <2>2, <2>3, FieldCount DEF Pair
<1> HIDE DEF N, F
<1>3. ASSUME NEW c \in candidates(columns, rows)
      PROVE  \E n \in N, f \in F : c = Pair(columns, rows, n, f) /\ c.score > 0
  BY DEF candidates, N, F
<1>4. ASSUME NEW c \in candidates(columns, rows)
      PROVE  c.field \in FieldNames /\ c.score \in Nat \ {0} /\ c.score <= 12500 /\ c.pos \in Nat
  <2>1. PICK n \in N, f \in F : c = Pair(columns, rows, n, f) /\ c.score > 0
    BY <1>3
  <2> QED
    <3>1. c.field \in FieldNames /\ IsScore(c.score) /\ c.pos = 19 * n + f
      BY <1>2, <2>1
    <3>2. 19 * n + f \in Nat
      BY <1>1
    <3> QED
      BY <2>1, <3>1, <3>2 DEF IsScore
<1>5. ASSUME NEW c \in candidates(columns, rows), NEW d \in candidates(columns, rows), c.pos = d.pos
      PROVE  c = d
  <2>1. PICK n \in N, f \in F : c = Pair(columns, rows, n, f)
    BY <1>3
  <2>2. PICK m \in N, e \in F : d = Pair(columns, rows, m, e)
    BY <1>3
  <2>3. 19 * n + f = 19 * m + e
    BY <1>2, <1>5, <2>1, <2>2
  <2>4. n = m /\ f = e
    BY <1>1, <2>3
  <2> QED
    BY <2>1, <2>2, <2>4
<1> QED
  BY <1>4, <1>5 DEF Candidates

\* A round of the assignment.
Round(pairs, taken) ==
  taken \cup {c \in free(pairs, taken) : \A d \in free(pairs, taken) : ~Better(d, c)}

(* While a pair is free a round takes one, the best of those that are.     *)
LEMMA RoundTakesBest ==
  ASSUME NEW pairs, Candidates(pairs), NEW taken, free(pairs, taken) # {}
  PROVE  \E c \in free(pairs, taken) :
           Round(pairs, taken) = taken \cup {c} /\ \A d \in free(pairs, taken) : d # c => Better(c, d)
<1> DEFINE open == free(pairs, taken)
<1>0. open \subseteq pairs
  BY DEF free
<1> HIDE DEF open
<1>t. /\ \A c \in open : c.score \in Nat /\ c.score <= 12500 /\ c.pos \in Nat
      /\ \A c, d \in open : c.pos = d.pos => c = d
  BY <1>0 DEF Candidates
<1>1. PICK b \in open : \A d \in open : d.score <= b.score
  <2> DEFINE T == {12500 - c.score : c \in open}
  <2>1. T \subseteq Nat /\ T # {}
    BY <1>t DEF open
  <2>2. \A t \in T : \E c \in open : t = 12500 - c.score
    OBVIOUS
  <2>3. \A c \in open : 12500 - c.score \in T
    OBVIOUS
  <2> HIDE DEF T
  <2>4. First(T) \in T /\ \A t \in T : First(T) <= t
    BY <2>1, FirstIs
  <2>5. PICK b \in open : First(T) = 12500 - b.score
    BY <2>2, <2>4
  <2>6. \A d \in open : 12500 - b.score <= 12500 - d.score
    BY <2>3, <2>4, <2>5
  <2> QED
    BY <1>t, <2>6
<1>2. PICK c \in open : c.score = b.score /\ \A d \in open : d.score = b.score => c.pos <= d.pos
  <2> DEFINE T == {d.pos : d \in {d \in open : d.score = b.score}}
  <2>1. T \subseteq Nat /\ T # {}
    BY <1>t, <1>1
  <2>2. \A t \in T : \E d \in open : d.score = b.score /\ t = d.pos
    OBVIOUS
  <2>3. \A d \in open : d.score = b.score => d.pos \in T
    OBVIOUS
  <2> HIDE DEF T
  <2>4. First(T) \in T /\ \A t \in T : First(T) <= t
    BY <2>1, FirstIs
  <2> QED
    BY <2>2, <2>3, <2>4
<1>3. \A d \in open : d.score <= c.score /\ (d.score = c.score => c.pos <= d.pos)
  BY <1>1, <1>2
<1>4. \A d \in open : ~Better(d, c)
  BY <1>t, <1>3 DEF Better
<1>5. ASSUME NEW e \in open, e # c PROVE Better(c, e)
  <2>1. c.pos # e.pos
    BY <1>t, <1>5
  <2> QED
    BY <1>t, <1>3, <2>1 DEF Better
<1>6. {e \in open : \A d \in open : ~Better(d, e)} = {c}
  BY <1>4, <1>5
<1> QED
  BY <1>5, <1>6 DEF Round, open

\* What is known of the pairs that are taken: no two share, and what has been
\* passed over shares with a better one.
Assigned(pairs, taken) ==
  /\ taken \subseteq pairs
  /\ \A m, n \in taken : m # n => m.field # n.field /\ m.col # n.col
  /\ \A c \in pairs : c \notin free(pairs, taken) =>
       \E m \in taken : (m.field = c.field \/ m.col = c.col) /\ m.score >= c.score
                        /\ (m = c \/ Better(m, c))

\* Each round takes a field, until no pair is free.
Rounds(pairs, taken, n) ==
  free(pairs, taken) = {} \/ Cardinality({m.field : m \in taken}) >= n

(* A round keeps the assignment stable, or finds nothing more to assign.   *)
LEMMA RoundAssigns ==
  ASSUME NEW pairs, Candidates(pairs), NEW taken, Assigned(pairs, taken),
         NEW n \in Nat, Rounds(pairs, taken, n)
  PROVE  Assigned(pairs, Round(pairs, taken)) /\ Rounds(pairs, Round(pairs, taken), n + 1)
<1>1. CASE free(pairs, taken) = {}
  <2>1. Round(pairs, taken) = taken
    BY <1>1 DEF Round
  <2> QED
    BY <1>1, <2>1 DEF Rounds
<1>2. CASE free(pairs, taken) # {}
  <2>1. PICK c \in free(pairs, taken) :
          Round(pairs, taken) = taken \cup {c} /\ \A d \in free(pairs, taken) : d # c => Better(c, d)
    BY <1>2, RoundTakesBest
  <2> DEFINE more == taken \cup {c}
             old == {m.field : m \in taken}
             new  == {m.field : m \in more}
  <2>2. c \in pairs /\ \A m \in taken : m.field # c.field /\ m.col # c.col
    BY DEF free
  <2>3. ASSUME NEW d \in pairs, d \notin free(pairs, more)
        PROVE  \E m \in more : (m.field = d.field \/ m.col = d.col) /\ m.score >= d.score
                               /\ (m = d \/ Better(m, d))
    <3>1. CASE d \notin free(pairs, taken)
      BY <3>1 DEF Assigned
    <3>2. CASE d \in free(pairs, taken)
      <4>1. c.field = d.field \/ c.col = d.col
        BY <2>3, <3>2 DEF free
      <4>2. c = d \/ Better(c, d)
        BY <2>1, <3>2
      <4>3. c.score >= d.score
        BY <2>2, <4>2 DEF Candidates, Better
      <4> QED
        BY <4>1, <4>2, <4>3
    <3> QED
      BY <3>1, <3>2
  <2>4. Assigned(pairs, more)
    BY <2>2, <2>3 DEF Assigned
  <2>5. new = old \cup {c.field} /\ c.field \notin old /\ old \subseteq FieldNames
    BY <2>2 DEF Candidates, Assigned
  <2> HIDE DEF old, new
  <2>6. Cardinality(new) = Cardinality(old) + 1 /\ Cardinality(old) \in Nat
    <3>1. IsFiniteSet(old)
      BY <2>5, FieldNamesFinite, FS_Subset
    <3> QED
      BY <2>5, <3>1, FS_AddElement, FS_CardinalityType
  <2>7. Cardinality(old) >= n
    BY <1>2 DEF Rounds, old
  <2>8. Cardinality(new) >= n + 1
    BY <2>6, <2>7
  <2> QED
    BY <2>1, <2>4, <2>8 DEF Rounds, new
<1> QED
  BY <1>1, <1>2

\* The loop over the rounds, of a function of their number.
Taken(pairs, take, n) == IF n = 0 THEN {} ELSE Round(pairs, take[n - 1])

(* The rounds of Greedy are a function: it can be defined for each count.  *)
LEMMA TakeExists ==
  ASSUME NEW pairs, NEW m \in Nat
  PROVE  \E take : take = [n \in 0 .. m |-> Taken(pairs, take, n)]
<1> DEFINE Loop(g, k) == g = [n \in 0 .. k |-> Taken(pairs, g, n)]
           T == {k \in Nat : \E g : Loop(g, k)}
<1>1. 0 \in T
  <2>1. Loop([n \in 0 .. 0 |-> {}], 0)
    BY DEF Taken
  <2> QED
    BY <2>1
<1>2. ASSUME NEW k \in Nat, k \in T PROVE k + 1 \in T
  <2>1. PICK g : Loop(g, k)
    BY <1>2
  <2> DEFINE h == [n \in 0 .. k + 1 |-> IF n = k + 1 THEN Taken(pairs, g, n) ELSE g[n]]
  <2>2. ASSUME NEW n \in 0 .. k + 1 PROVE h[n] = Taken(pairs, h, n)
    <3>1. CASE n = 0
      BY <2>1, <3>1 DEF Taken
    <3>2. CASE n # 0
      <4>1. n - 1 \in 0 .. k /\ h[n - 1] = g[n - 1]
        BY <3>2
      <4>2. h[n] = Taken(pairs, g, n)
        BY <2>1
      <4> HIDE DEF h
      <4> QED
        BY <3>2, <4>1, <4>2 DEF Taken
    <3> QED
      BY <3>1, <3>2
  <2>3. h = [n \in 0 .. k + 1 |-> Taken(pairs, h, n)]
    <3>1. h = [n \in 0 .. k + 1 |-> h[n]]
      OBVIOUS
    <3> HIDE DEF h
    <3> QED
      BY <2>2, <3>1
  <2> HIDE DEF h
  <2> QED
    BY <2>3
<1> HIDE DEF T
<1>3. m \in T
  BY <1>1, <1>2, SetInduction
<1> QED
  BY <1>3 DEF T

(* The greedy assignment is stable.                                        *)
LEMMA GreedyStable ==
  ASSUME NEW pairs, Candidates(pairs)
  PROVE  Assigned(pairs, Greedy(pairs)) /\ free(pairs, Greedy(pairs)) = {}
<1>1. PICK take : take = [n \in 0 .. 19 |-> Taken(pairs, take, n)] /\ Greedy(pairs) = take[19]
  <2> DEFINE Loop(g) == g = [n \in 0 .. 19 |-> Taken(pairs, g, n)]
             take == CHOOSE g : Loop(g)
  <2>1. \E g : Loop(g)
    BY TakeExists
  <2>2. Loop(take)
    BY <2>1, Zenon
  <2>3. Greedy(pairs) = take[19]
    BY FieldCount DEF Greedy, Taken, Round
  <2> QED
    BY <2>2, <2>3
<1> DEFINE T == {n \in Nat : n <= 19 => Assigned(pairs, take[n]) /\ Rounds(pairs, take[n], n)}
<1>2. 0 \in T
  <2>1. take[0] = {}
    BY <1>1 DEF Taken
  <2>2. Assigned(pairs, {})
    BY DEF Assigned, free
  <2>3. {m.field : m \in {}} = {}
    OBVIOUS
  <2>4. Rounds(pairs, {}, 0)
    BY <2>3, FS_EmptySet DEF Rounds
  <2> QED
    BY <2>1, <2>2, <2>4
<1>3. ASSUME NEW n \in Nat, n \in T PROVE n + 1 \in T
  <2> SUFFICES ASSUME n + 1 <= 19
               PROVE  Assigned(pairs, take[n + 1]) /\ Rounds(pairs, take[n + 1], n + 1)
    OBVIOUS
  <2>1. take[n + 1] = Round(pairs, take[n])
    BY <1>1 DEF Taken
  <2> QED
    BY <1>3, <2>1, RoundAssigns
<1> HIDE DEF T
<1>4. 19 \in T
  BY <1>2, <1>3, SetInduction
<1>5. Assigned(pairs, Greedy(pairs)) /\ Rounds(pairs, Greedy(pairs), 19)
  BY <1>1, <1>4 DEF T
<1>6. ASSUME Cardinality({m.field : m \in Greedy(pairs)}) >= 19 PROVE free(pairs, Greedy(pairs)) = {}
  <2> DEFINE used == {m.field : m \in Greedy(pairs)}
  <2>1. used \subseteq FieldNames
    BY <1>5 DEF Assigned, Candidates
  <2>2. \A c \in free(pairs, Greedy(pairs)) : c.field \in FieldNames \ used
    BY DEF free, Candidates
  <2>3. Cardinality(used) >= 19
    BY <1>6
  <2> HIDE DEF used
  <2>4. Cardinality(used) = Cardinality(FieldNames)
    <3>1. IsFiniteSet(used) /\ Cardinality(used) <= Cardinality(FieldNames)
      BY <2>1, FieldNamesFinite, FS_Subset
    <3> QED
      BY <2>3, <3>1, FieldNamesFinite, FS_CardinalityType
  <2>5. used = FieldNames
    BY <2>1, <2>4, FieldNamesFinite, FS_Subset
  <2> QED
    BY <2>2, <2>5
<1> QED
  BY <1>5, <1>6 DEF Rounds

(***************************************************************************)
(* What is read of a response.                                             *)
(***************************************************************************)

(* A set of places has a last.                                             *)
LEMMA LastExists ==
  ASSUME NEW n \in Nat, NEW S \in SUBSET (1 .. n), S # {}
  PROVE  \E i \in S : \A j \in S : j <= i
<1> DEFINE T == {n - i : i \in S}
<1>0. \A i \in S : i \in Int /\ n - i \in Nat
  OBVIOUS
<1>1. T \subseteq Nat /\ T # {}
  BY <1>0
<1>2. \A t \in T : \E i \in S : t = n - i
  OBVIOUS
<1>3. \A j \in S : n - j \in T
  OBVIOUS
<1> HIDE DEF T
<1>4. First(T) \in T /\ \A t \in T : First(T) <= t
  BY <1>1, FirstIs
<1>5. PICK i \in S : First(T) = n - i
  BY <1>2, <1>4
<1>6. \A j \in S : n - i <= n - j
  BY <1>3, <1>4, <1>5
<1> QED
  BY <1>0, <1>6

(* Of finitely many scores one is the highest, by a second score of equals  *)
(* and the first of the equals of both.                                    *)
LEMMA TopScore ==
  ASSUME NEW n \in Nat \ {0}, NEW score \in [1 .. n -> Int], NEW size \in [1 .. n -> Int]
  PROVE  \E i \in 1 .. n : \A j \in 1 .. n :
           \/ score[i] > score[j]
           \/ /\ score[i] = score[j]
              /\ size[i] > size[j] \/ (size[i] = size[j] /\ i <= j)
<1> DEFINE Beats(i, j) == \/ score[i] > score[j]
                          \/ /\ score[i] = score[j]
                             /\ size[i] > size[j] \/ (size[i] = size[j] /\ i <= j)
           R == {p \in (1 .. n) \X (1 .. n) : Beats(p[1], p[2])}
<1>1. \A i, j \in 1 .. n : <<i, j>> \in R <=> Beats(i, j)
  OBVIOUS
<1>2. \A i \in 1 .. n : i \in Int /\ score[i] \in Int /\ size[i] \in Int
  OBVIOUS
<1> HIDE DEF R
<1>3. ASSUME NEW i \in 1 .. n, NEW j \in 1 .. n PROVE <<i, j>> \in R \/ <<j, i>> \in R
  <2>1. Beats(i, j) \/ Beats(j, i)
    BY <1>2
  <2> HIDE DEF Beats
  <2> QED
    BY <1>1, <2>1
<1>4. ASSUME NEW i \in 1 .. n, NEW j \in 1 .. n, NEW k \in 1 .. n, <<i, j>> \in R, <<j, k>> \in R
      PROVE  <<i, k>> \in R
  <2>1. Beats(i, j) /\ Beats(j, k)
    BY <1>1, <1>4
  <2>2. Beats(i, k)
    BY <1>2, <2>1
  <2> HIDE DEF Beats
  <2> QED
    BY <1>1, <2>2
<1>5. \E i \in 1 .. n : \A j \in 1 .. n : <<i, j>> \in R
  BY <1>3, <1>4, TopExists
<1> HIDE DEF Beats
<1>6. \E i \in 1 .. n : \A j \in 1 .. n : Beats(i, j)
  BY <1>1, <1>5
<1> QED
  BY <1>6 DEF Beats

(* With no second score.                                                   *)
LEMMA TopOne ==
  ASSUME NEW n \in Nat \ {0}, NEW score \in [1 .. n -> Int]
  PROVE  \E i \in 1 .. n : \A j \in 1 .. n :
           score[i] > score[j] \/ (score[i] = score[j] /\ i <= j)
<1> DEFINE size == [i \in 1 .. n |-> 0]
<1>1. size \in [1 .. n -> Int] /\ \A i, j \in 1 .. n : ~(size[i] > size[j])
  OBVIOUS
<1> HIDE DEF size
<1> QED
  BY <1>1, TopScore

(* The longest of some sequences is one of them.                           *)
LEMMA LongestIs ==
  ASSUME NEW E, NEW seqs \in Seq(Seq(E))
  PROVE  Longest(seqs) \in Seq(E) /\ Widest(seqs) \in Nat
<1> DEFINE N == Len(seqs)
           len == [n \in 1 .. N |-> Len(seqs[n])]
           Beats(n, m) == Len(seqs[n]) > Len(seqs[m]) \/ (Len(seqs[n]) = Len(seqs[m]) /\ n <= m)
<1>1. N \in Nat /\ DOMAIN seqs = 1 .. N /\ \A n \in 1 .. N : seqs[n] \in Seq(E) /\ Len(seqs[n]) \in Nat
  BY LenProperties
<1>2. CASE seqs = <<>>
  <2>1. Longest(seqs) = <<>>
    BY <1>2 DEF Longest
  <2>2. Widest(seqs) = 0
    BY <2>1 DEF Widest
  <2>3. <<>> \in Seq(E)
    OBVIOUS
  <2> QED
    BY <2>1, <2>2, <2>3
<1>3. CASE seqs # <<>>
  <2>1. N \in Nat \ {0}
    BY <1>1, <1>3, EmptySeq
  <2>2. len \in [1 .. N -> Int] /\ \A n \in 1 .. N : len[n] = Len(seqs[n])
    BY <1>1
  <2> HIDE DEF N, len
  <2>3. \E n \in 1 .. N : \A m \in 1 .. N : len[n] > len[m] \/ (len[n] = len[m] /\ n <= m)
    BY <2>1, <2>2, TopOne
  <2>4. \E n \in DOMAIN seqs : \A m \in DOMAIN seqs : Beats(n, m)
    BY <1>1, <2>2, <2>3
  <2> DEFINE n == CHOOSE n \in DOMAIN seqs : \A m \in DOMAIN seqs : Beats(n, m)
  <2>5. n \in DOMAIN seqs /\ \A m \in DOMAIN seqs : Beats(n, m)
    BY <2>4, Zenon
  <2>6. Longest(seqs) = seqs[n]
    BY <1>3, Zenon DEF Longest
  <2> HIDE DEF n
  <2> QED
    BY <1>1, <2>5, <2>6 DEF Widest
<1> QED
  BY <1>2, <1>3

\* The labels of a row that are new, after those of the rows before.
NewLabels(rows, seen, n) ==
  IF n = 0 THEN <<>>
  ELSE LET so_far == seen[n - 1]
           labels == [i \in DOMAIN rows[n] |-> rows[n][i].col]
           new    == {i \in DOMAIN labels : \A k \in DOMAIN so_far : so_far[k] # labels[i]}
       IN  so_far \o Keep(labels, new)

(* So are the steps of _ordered_columns.                                   *)
LEMMA SeenExists ==
  ASSUME NEW rows, NEW m \in Nat
  PROVE  \E seen : seen = [n \in 0 .. m |-> NewLabels(rows, seen, n)]
<1> DEFINE Loop(g, k) == g = [n \in 0 .. k |-> NewLabels(rows, g, n)]
           T == {k \in Nat : \E g : Loop(g, k)}
<1>1. 0 \in T
  <2>1. Loop([n \in 0 .. 0 |-> <<>>], 0)
    BY DEF NewLabels
  <2> QED
    BY <2>1
<1>2. ASSUME NEW k \in Nat, k \in T PROVE k + 1 \in T
  <2>1. PICK g : Loop(g, k)
    BY <1>2
  <2> DEFINE h == [n \in 0 .. k + 1 |-> IF n = k + 1 THEN NewLabels(rows, g, n) ELSE g[n]]
  <2>2. ASSUME NEW n \in 0 .. k + 1 PROVE h[n] = NewLabels(rows, h, n)
    <3>1. CASE n = 0
      BY <2>1, <3>1 DEF NewLabels
    <3>2. CASE n # 0
      <4>1. n - 1 \in 0 .. k /\ h[n - 1] = g[n - 1]
        BY <3>2
      <4>2. h[n] = NewLabels(rows, g, n)
        BY <2>1
      <4> HIDE DEF h
      <4>3. NewLabels(rows, h, n) = NewLabels(rows, g, n)
        BY <4>1, Zenon DEF NewLabels
      <4> QED
        BY <4>2, <4>3
    <3> QED
      BY <3>1, <3>2
  <2>3. h = [n \in 0 .. k + 1 |-> NewLabels(rows, h, n)]
    <3>1. h = [n \in 0 .. k + 1 |-> h[n]]
      OBVIOUS
    <3> HIDE DEF h
    <3> QED
      BY <2>2, <3>1
  <2> HIDE DEF h
  <2> QED
    BY <2>3
<1> HIDE DEF T
<1>3. m \in T
  BY <1>1, <1>2, SetInduction
<1> QED
  BY <1>3 DEF T

(* The columns are labels of the rows.                                     *)
LEMMA ColumnsType ==
  ASSUME NEW L, NEW C, NEW rows \in Seq(Seq([col : L, cell : C]))
  PROVE  _ordered_columns(rows) \in Seq(L)
<1> DEFINE m == Len(rows)
<1>0. m \in Nat /\ \A n \in 1 .. m : rows[n] \in Seq([col : L, cell : C])
  BY LenProperties
<1>1. PICK seen : seen = [n \in 0 .. m |-> NewLabels(rows, seen, n)] /\ _ordered_columns(rows) = seen[m]
  <2> DEFINE Loop(g) == g = [n \in 0 .. m |-> NewLabels(rows, g, n)]
             seen == CHOOSE g : Loop(g)
  <2>1. \E g : Loop(g)
    BY <1>0, SeenExists
  <2>2. Loop(seen)
    BY <2>1, Zenon
  <2>3. _ordered_columns(rows) = seen[m]
    BY DEF _ordered_columns, NewLabels
  <2> QED
    BY <2>2, <2>3
<1> DEFINE T == {n \in Nat : n <= m => seen[n] \in Seq(L)}
<1>2. 0 \in T
  <2>1. seen[0] = <<>>
    BY <1>0, <1>1 DEF NewLabels
  <2>2. <<>> \in Seq(L)
    OBVIOUS
  <2> QED
    BY <2>1, <2>2, Zenon
<1>3. ASSUME NEW n \in Nat, n \in T PROVE n + 1 \in T
  <2> SUFFICES ASSUME n + 1 <= m PROVE seen[n + 1] \in Seq(L)
    OBVIOUS
  <2> DEFINE row    == rows[n + 1]
             labels == [i \in DOMAIN row |-> row[i].col]
             new    == {i \in DOMAIN labels : \A k \in DOMAIN seen[n] : seen[n][k] # labels[i]}
  <2>1. n + 1 \in 0 .. m /\ n + 1 # 0 /\ (n + 1) - 1 = n /\ n <= m
    BY <1>0, SMTT(30)
  <2>2. seen[n + 1] = seen[n] \o Keep(labels, new)
    <3>1. seen[n + 1] = NewLabels(rows, seen, n + 1)
      BY <1>1, <2>1
    <3> QED
      BY <2>1, <3>1 DEF NewLabels
  <2>3. row \in Seq([col : L, cell : C])
    BY <1>0, <2>1
  <2> HIDE DEF row
  <2>4. Len(row) \in Nat /\ DOMAIN row = 1 .. Len(row) /\ \A i \in 1 .. Len(row) : row[i].col \in L
    <3>1. Len(row) \in Nat /\ DOMAIN row = 1 .. Len(row) /\ \A i \in 1 .. Len(row) : row[i] \in [col : L, cell : C]
      BY <2>3, LenProperties
    <3> QED
      BY <3>1
  <2>5. new \in SUBSET (1 .. Len(row)) /\ \A i \in new : labels[i] \in L
    BY <2>4
  <2> HIDE DEF labels, new
  <2>6. Keep(labels, new) \in Seq(L)
    BY <2>4, <2>5, KeepType, Zenon
  <2> QED
    BY <1>3, <2>1, <2>2, <2>6, ConcatProperties
<1> HIDE DEF T
<1>4. m \in T
  BY <1>0, <1>2, <1>3, SetInduction
<1> QED
  BY <1>0, <1>1, <1>4 DEF T

(* A dict has cells of the pairs it is made from.                          *)
LEMMA DictType ==
  ASSUME NEW E, NEW pairs \in Seq(E)
  PROVE  AsDict(pairs) \in Seq(E)
<1> DEFINE same(i) == {j \in DOMAIN pairs : pairs[j].col = pairs[i].col}
           last    == [i \in DOMAIN pairs |-> pairs[CHOOSE j \in same(i) : \A k \in same(i) : k <= j]]
           firsts  == {i \in DOMAIN pairs : \A j \in same(i) : i <= j}
<1>1. Len(pairs) \in Nat /\ DOMAIN pairs = 1 .. Len(pairs) /\ \A i \in 1 .. Len(pairs) : pairs[i] \in E
  BY LenProperties
<1>2. ASSUME NEW i \in DOMAIN pairs PROVE last[i] \in E
  <2>1. same(i) \subseteq 1 .. Len(pairs) /\ same(i) # {}
    BY <1>1
  <2> DEFINE S == same(i)
  <2> HIDE DEF S
  <2>2. \E j \in S : \A k \in S : k <= j
    BY <1>1, <2>1, LastExists DEF S
  <2>3. (CHOOSE j \in S : \A k \in S : k <= j) \in S
    BY <2>2, Zenon
  <2> QED
    BY <1>1, <2>1, <2>3 DEF S
<1>3. AsDict(pairs) = Keep(last, firsts)
  BY DEF AsDict
<1>4. firsts \in SUBSET (1 .. Len(pairs)) /\ \A i \in firsts : last[i] \in E
  BY <1>1, <1>2
<1> HIDE DEF firsts, last
<1> QED
  BY <1>1, <1>3, <1>4, KeepType, Zenon

\* The words of a response, and the one that stands for an opaque cell.
Words    == STRING \cup {"object"}
Readable == Seq([n : Nat, w : Words])
Shown    == [text : Readable, link : {Null} \cup Texts, path : {Null} \cup Texts, badges : Seq(Texts)]

(* The elements of a sequence are those at its places.                     *)
LEMMA Elements ==
  ASSUME NEW S, NEW s \in Seq(S)
  PROVE  Len(s) \in Nat /\ DOMAIN s = 1 .. Len(s) /\ \A i \in 1 .. Len(s) : s[i] \in S
BY LenProperties

(* The text that stands for an unknown envelope can be read.               *)
LEMMA Opaque == <<Word("object")>> \in Readable
<1> DEFINE Lexs == [n : Nat, w : Words]
<1>1. Word("object") \in Lexs
  BY DEF Word, Words
<1>2. Readable = Seq(Lexs)
  BY DEF Readable
<1> HIDE DEF Lexs
<1>3. \A l \in Lexs : <<l>> \in Seq(Lexs)
  OBVIOUS
<1> QED
  BY <1>1, <1>2, <1>3, Zenon

(* A cell of a source is one whose texts can be read.                      *)
LEMMA CellsShown == Cells \subseteq Shown
<1>1. Texts \subseteq Readable
  <2> DEFINE A == Lexemes
             B == [n : Nat, w : Words]
  <2>1. A \subseteq B /\ Texts = Seq(A) /\ Readable = Seq(B)
    BY DEF Lexemes, Words, Texts, Readable
  <2> HIDE DEF A, B
  <2> QED
    BY <2>1
<1> QED
  BY <1>1 DEF Cells, Shown

\* Columns and rows as a strategy reads them, of some labels.
IsData(columns, rows) ==
  /\ \E L : columns \in Seq(L)
  /\ \E D : rows \in Seq(Seq(D)) /\ \A e \in D : e.cell \in Shown

(* An object stays a row of cells, in or out of its envelope.              *)
LEMMA FlattenType ==
  ASSUME NEW row \in Seq([col : Labels, cell : Cells, wrap : STRING])
  PROVE  _flatten_row(row) \in Seq([col : Labels, cell : Shown])
<1> DEFINE D == [col : Labels, cell : Cells, wrap : STRING]
           T == [col : Labels, cell : Shown]
<1>1. Len(row) \in Nat /\ DOMAIN row = 1 .. Len(row) /\ \A i \in 1 .. Len(row) : row[i] \in D
  BY Elements, Zenon
<1>2. ASSUME NEW c \in Cells PROVE [c EXCEPT !.text = <<Word("object")>>] \in Shown
  <2> DEFINE t == <<Word("object")>>
  <2>1. c \in Shown /\ t \in Readable
    BY CellsShown, Opaque
  <2> HIDE DEF t
  <2>2. [c EXCEPT !.text = t] \in Shown
    BY <2>1 DEF Shown
  <2> QED
    BY <2>2 DEF t
<1>3. ASSUME NEW i \in 1 .. Len(row) PROVE _flatten_row(row)[i] \in T
  <2>1. row[i].col \in Labels /\ row[i].cell \in Cells
    BY <1>1
  <2> DEFINE c == IF row[i].wrap \in {"bare", "value", "val", "text", "display", "html"} THEN row[i].cell
                  ELSE [row[i].cell EXCEPT !.text = <<Word("object")>>]
  <2>2. c \in Shown
    BY <1>2, <2>1, CellsShown
  <2>3. _flatten_row(row)[i] = [col |-> row[i].col, cell |-> c]
    BY <1>1 DEF _flatten_row
  <2> HIDE DEF c
  <2> QED
    BY <2>1, <2>2, <2>3
<1>4. _flatten_row(row) = [i \in 1 .. Len(row) |-> _flatten_row(row)[i]]
  BY <1>1 DEF _flatten_row
<1> HIDE DEF T
<1>5. _flatten_row(row) \in Seq(T)
  BY <1>1, <1>3, <1>4, IsASeq
<1> QED
  BY <1>5 DEF T

(* What the JSON document is taken for.                                    *)
LEMMA JsonRowsType ==
  ASSUME NEW payload \in Payloads
  PROVE  JsonRows(payload) \in Seq(Items)
<1>1. CASE payload.lists = Null
  <2>1. <<>> \in Seq(Items)
    OBVIOUS
  <2> QED
    BY <1>1, <2>1, Zenon DEF JsonRows
<1>2. CASE payload.lists # Null
  <2> DEFINE lists  == payload.lists
             places == {n \in DOMAIN lists : lists[n].depth <= 6 /\ _is_row_list(lists[n].items)}
             found  == Keep(lists, places)
             many   == [n \in DOMAIN found |-> found[n].items]
             Lists  == [depth : Nat, items : Seq(Items)]
  <2>1. lists \in Seq(Lists)
    BY <1>2 DEF Payloads
  <2>2. Len(lists) \in Nat /\ DOMAIN lists = 1 .. Len(lists) /\ \A n \in 1 .. Len(lists) : lists[n] \in Lists
    BY <2>1, LenProperties
  <2>3. places \in SUBSET (1 .. Len(lists)) /\ \A n \in places : lists[n] \in Lists
    BY <2>2
  <2>4. JsonRows(payload) = Longest(many)
    BY <1>2, Zenon DEF JsonRows, _locate_row_list
  <2> HIDE DEF places, lists
  <2>5. found \in Seq(Lists)
    BY <2>2, <2>3, KeepType, Zenon
  <2> HIDE DEF found
  <2>6. Len(found) \in Nat /\ DOMAIN found = 1 .. Len(found) /\ \A n \in 1 .. Len(found) : found[n] \in Lists
    BY <2>5, LenProperties
  <2>7. many \in Seq(Seq(Items))
    <3>1. \A n \in 1 .. Len(found) : many[n] \in Seq(Items)
      BY <2>6
    <3>2. many = [n \in 1 .. Len(found) |-> many[n]]
      BY <2>6
    <3> HIDE DEF many
    <3> QED
      BY <2>6, <3>1, <3>2, IsASeq
  <2> HIDE DEF many
  <2> QED
    BY <2>4, <2>7, LongestIs
<1> QED
  BY <1>1, <1>2

(***************************************************************************)
(* The result of a strategy.                                               *)
(***************************************************************************)

IsResult(r) ==
  /\ r.confidence \in Int /\ Len(r.records) \in Nat
  /\ IsData(r.columns, r.rows)
  /\ r.records = [n \in DOMAIN r.rows |-> Project(r.rows[n], r.matches)]
  /\ Assigned(candidates(r.columns, r.rows), r.matches)
  /\ free(candidates(r.columns, r.rows), r.matches) = {}

(* The confidence of a mapping is a number.                                *)
LEMMA ScoreType ==
  ASSUME NEW matches, NEW count \in Nat
  PROVE  _score_mapping(matches, count) \in Int
<1> DEFINE mapped == Cardinality(REQUIRED_FIELDS \cap Mapped(matches))
           fields == Cardinality(REQUIRED_FIELDS)
           cover  == (100 * mapped) \div fields
<1>1. IsFiniteSet(REQUIRED_FIELDS) /\ REQUIRED_FIELDS # {}
  <2>1. \A S, x : IsFiniteSet(S) => IsFiniteSet(S \cup {x})
    BY FS_AddElement
  <2> DEFINE A == {} \cup {"source_ipo_id"} \cup {"name"} \cup {"gmp"}
             B == A \cup {"price"} \cup {"open_date"} \cup {"close_date"}
  <2>2. IsFiniteSet(A)
    BY <2>1, FS_EmptySet, Zenon
  <2>3. B = REQUIRED_FIELDS
    BY DEF REQUIRED_FIELDS
  <2> HIDE DEF A
  <2>4. IsFiniteSet(B)
    BY <2>1, <2>2, Zenon
  <2>5. "name" \in REQUIRED_FIELDS
    BY DEF REQUIRED_FIELDS
  <2> QED
    BY <2>5, <2>3, <2>4, Zenon
<1>2. fields \in Nat /\ fields # 0
  BY <1>1, FS_CardinalityType, FS_EmptySet
<1>3. mapped \in Nat
  <2>1. REQUIRED_FIELDS \cap Mapped(matches) \subseteq REQUIRED_FIELDS
    OBVIOUS
  <2>2. IsFiniteSet(REQUIRED_FIELDS \cap Mapped(matches))
    BY <1>1, <2>1, FS_Subset
  <2> QED
    BY <2>2, FS_CardinalityType
<1>4. required_coverage(matches) = cover
  BY DEF required_coverage
<1> HIDE DEF mapped, fields
<1>5. cover \in Int
  BY <1>2, <1>3
<1> HIDE DEF cover
<1> DEFINE bonus == IF has_identity(matches) THEN 30 ELSE 0
           score == (70 * cover) \div 100 + bonus
<1>6. bonus \in Int
  OBVIOUS
<1> HIDE DEF bonus
<1>7. score \in Int
  BY <1>5, <1>6
<1>8. _score_mapping(matches, count) =
        IF count < MIN_PLAUSIBLE_ROWS THEN 0 ELSE IF count < 3 THEN (8 * score) \div 10 ELSE score
  BY <1>4 DEF _score_mapping, bonus
<1> HIDE DEF score
<1> QED
  BY <1>7, <1>8

(* What is built from data is a result,                                    *)
LEMMA BuildType ==
  ASSUME NEW strategy, NEW columns, NEW rows, IsData(columns, rows)
  PROVE  IsResult(_build_result(strategy, rows, columns))
<1> DEFINE r == _build_result(strategy, rows, columns)
<1>1. /\ r.columns = columns /\ r.rows = rows /\ r.matches = map_columns(columns, rows)
      /\ r.records = [n \in DOMAIN rows |-> Project(rows[n], map_columns(columns, rows))]
      /\ r.confidence = _score_mapping(map_columns(columns, rows), Len(rows))
  BY DEF _build_result
<1> HIDE DEF r
<1>2. PICK L : columns \in Seq(L)
  BY DEF IsData
<1>3. PICK D : rows \in Seq(Seq(D))
  BY DEF IsData
<1>4. Candidates(candidates(columns, rows))
  BY <1>2, <1>3, CandidatesType
<1>5. /\ Assigned(candidates(columns, rows), map_columns(columns, rows))
      /\ free(candidates(columns, rows), map_columns(columns, rows)) = {}
  BY <1>4, GreedyStable DEF map_columns
<1>6. Len(rows) \in Nat /\ DOMAIN rows = 1 .. Len(rows)
  BY <1>3, LenProperties
<1>7. r.confidence \in Int
  BY <1>1, <1>6, ScoreType
<1>8. Len(r.records) \in Nat
  <2> DEFINE m == Len(rows)
             T == {r.records[n] : n \in 1 .. m}
  <2>1. r.records = [n \in 1 .. m |-> r.records[n]]
    BY <1>1, <1>6
  <2>2. \A n \in 1 .. m : r.records[n] \in T
    OBVIOUS
  <2> HIDE DEF T, m
  <2>3. r.records \in Seq(T)
    BY <1>6, <2>1, <2>2, IsASeq DEF m
  <2> QED
    BY <2>3, LenProperties
<1> QED
  BY <1>1, <1>5, <1>7, <1>8 DEF IsResult, r

(* and so is the answer that there is nothing.                             *)
LEMMA NothingType ==
  ASSUME NEW strategy
  PROVE  IsResult(Nothing(strategy))
<1> DEFINE r == Nothing(strategy)
<1>1. r.columns = <<>> /\ r.rows = <<>> /\ r.records = <<>> /\ r.matches = {} /\ r.confidence = 0
  BY DEF Nothing
<1> HIDE DEF r
<1>2. <<>> \in Seq({}) /\ <<>> \in Seq(Seq({})) /\ DOMAIN <<>> = {} /\ Len(<<>>) = 0
  BY EmptySeq
<1>3. IsData(r.columns, r.rows)
  BY <1>1, <1>2 DEF IsData
<1>4. candidates(<<>>, <<>>) = {}
  BY <1>2 DEF candidates
<1>5. Assigned(candidates(<<>>, <<>>), {}) /\ free(candidates(<<>>, <<>>), {}) = {}
  BY <1>4 DEF Assigned, free
<1>6. r.records = [n \in DOMAIN r.rows |-> Project(r.rows[n], r.matches)]
  BY <1>1, <1>2
<1> QED
  BY <1>1, <1>2, <1>3, <1>5, <1>6 DEF IsResult, r

(***************************************************************************)
(* The strategies.                                                         *)
(***************************************************************************)

(* A sequence made of another one, place by place.                         *)
LEMMA MapType ==
  ASSUME NEW n \in Nat, NEW f, f = [i \in 1 .. n |-> f[i]], NEW T, \A i \in 1 .. n : f[i] \in T
  PROVE  f \in Seq(T)
BY IsASeq

(* A feed that does not raise gives a result.                              *)
LEMMA ExtractJsonType ==
  ASSUME NEW payload \in Payloads, ~JsonRaises(payload)
  PROVE  IsResult(ExtractJson(payload))
<1> DEFINE items == JsonRows(payload)
           rows  == [n \in DOMAIN items |-> _flatten_row(items[n])]
           I     == [col : Labels, cell : Cells, wrap : STRING]
           D     == [col : Labels, cell : Shown]
<1>1. ExtractJson(payload) = IF items = <<>> THEN Nothing("JSON_API")
                             ELSE _build_result("JSON_API", rows, _ordered_columns(rows))
  BY DEF ExtractJson
<1>2. \A n \in DOMAIN items : items[n] # Null
  BY DEF JsonRaises
<1>3. items \in Seq(Items)
  BY JsonRowsType
<1> HIDE DEF items
<1>4. Len(items) \in Nat /\ DOMAIN items = 1 .. Len(items) /\ \A n \in 1 .. Len(items) : items[n] \in Items
  BY <1>3, Elements, Zenon
<1>5. \A n \in 1 .. Len(items) : items[n] \in Seq(I)
  BY <1>2, <1>4, Zenon DEF Items
<1>6. \A n \in 1 .. Len(items) : rows[n] \in Seq(D)
  BY <1>4, <1>5, FlattenType, Zenon
<1>7. rows = [n \in 1 .. Len(items) |-> rows[n]]
  BY <1>4
<1> HIDE DEF rows
<1>8. rows \in Seq(Seq(D))
  BY <1>4, <1>6, <1>7, MapType, Zenon
<1>9. _ordered_columns(rows) \in Seq(Labels)
  BY <1>8, ColumnsType, Zenon
<1>10. IsData(_ordered_columns(rows), rows)
  <2>1. \A e \in D : e.cell \in Shown
    OBVIOUS
  <2> HIDE DEF D
  <2> QED
    BY <1>8, <1>9, <2>1 DEF IsData
<1> QED
  BY <1>1, <1>10, BuildType, NothingType, Zenon

\* A cell of a table, and of a row that is read.
Heads    == [th : BOOLEAN, cell : Cells]
Under(columns) == [col : {columns[i] : i \in Nat}, cell : Shown]

(* Headers are padded to a sequence of labels.                             *)
LEMMA PadType ==
  ASSUME NEW headers \in Seq(Heads), NEW width \in Nat
  PROVE  \E L : _pad_headers(headers, width) \in Seq(L)
<1> DEFINE wide == IF Len(headers) < width THEN width ELSE Len(headers)
           columns == _pad_headers(headers, width)
           L == {columns[i] : i \in 1 .. wide}
<1>1. wide \in Nat
  BY LenProperties
<1>2. columns = [i \in 1 .. wide |-> columns[i]]
  BY DEF _pad_headers
<1>3. \A i \in 1 .. wide : columns[i] \in L
  OBVIOUS
<1> HIDE DEF columns, L, wide
<1>4. columns \in Seq(L)
  BY <1>1, <1>2, <1>3, MapType, Zenon
<1> QED
  BY <1>4 DEF columns

(* A row is a sequence of cells, each under one of the labels.             *)
LEMMA RowOfType ==
  ASSUME NEW cells \in Seq(Heads), NEW columns
  PROVE  RowOf(cells, columns) \in Seq(Under(columns))
<1> DEFINE pairs == [i \in DOMAIN cells |-> [col |-> columns[i], cell |-> cells[i].cell]]
<1>1. Len(cells) \in Nat /\ DOMAIN cells = 1 .. Len(cells) /\ \A i \in 1 .. Len(cells) : cells[i] \in Heads
  BY Elements, Zenon
<1>2. ASSUME NEW i \in 1 .. Len(cells) PROVE pairs[i] \in Under(columns)
  <2>1. cells[i].cell \in Shown
    BY <1>1, CellsShown DEF Heads
  <2>2. pairs[i] = [col |-> columns[i], cell |-> cells[i].cell]
    BY <1>1
  <2> HIDE DEF pairs
  <2> QED
    BY <1>1, <2>1, <2>2 DEF Under
<1>3. pairs = [i \in 1 .. Len(cells) |-> pairs[i]]
  BY <1>1
<1>4. RowOf(cells, columns) = AsDict(pairs)
  BY DEF RowOf
<1> HIDE DEF pairs
<1>5. pairs \in Seq(Under(columns))
  BY <1>1, <1>2, <1>3, MapType, Zenon
<1> QED
  BY <1>4, <1>5, DictType, Zenon

(* Rows under a header are data, whatever their width.                     *)
LEMMA DatasetType ==
  ASSUME NEW headers \in Seq(Heads), NEW width \in Nat, NEW kept \in Seq(Seq(Heads)), NEW columns,
         columns = _pad_headers(headers, width)
  PROVE  IsData(columns, [n \in DOMAIN kept |-> RowOf(kept[n], columns)])
<1> DEFINE rows == [n \in DOMAIN kept |-> RowOf(kept[n], columns)]
<1>1. Len(kept) \in Nat /\ DOMAIN kept = 1 .. Len(kept) /\ \A n \in 1 .. Len(kept) : kept[n] \in Seq(Heads)
  BY Elements, Zenon
<1>2. \A n \in 1 .. Len(kept) : rows[n] \in Seq(Under(columns))
  BY <1>1, RowOfType, Zenon
<1>3. rows = [n \in 1 .. Len(kept) |-> rows[n]]
  BY <1>1
<1> HIDE DEF rows
<1>4. rows \in Seq(Seq(Under(columns)))
  BY <1>1, <1>2, <1>3, MapType, Zenon
<1>5. \A e \in Under(columns) : e.cell \in Shown
  BY DEF Under
<1>6. \E L : columns \in Seq(L)
  BY PadType
<1> QED
  BY <1>4, <1>5, <1>6 DEF IsData, rows

(* No dataset is a dataset without rows.                                   *)
LEMMA NoDatasetType == IsData(NoDataset.columns, NoDataset.rows)
<1>1. <<>> \in Seq({}) /\ <<>> \in Seq(Seq({}))
  OBVIOUS
<1>2. NoDataset.columns = <<>> /\ NoDataset.rows = <<>>
  BY DEF NoDataset
<1> QED
  BY SMTT(20), <1>1, <1>2 DEF IsData

(* A table is read as data,                                                *)
LEMMA TableType ==
  ASSUME NEW table \in Tables
  PROVE  IsData(_read_table(table).columns, _read_table(table).rows)
<1> DEFINE heads   == {i \in DOMAIN table : /\ table[i] # <<>>
                                            /\ \/ \A c \in DOMAIN table[i] : table[i][c].th
                                               \/ i = 1 /\ _looks_like_header(table[i])}
           headers == IF heads = {} THEN <<>> ELSE table[First(heads)]
           body    == {i \in DOMAIN table : table[i] # <<>> /\ (heads = {} \/ i # First(heads))}
           width   == Widest(Keep(table, body))
           columns == _pad_headers(headers, width)
           longer  == {i \in body : Len(table[i]) > 1}
           kept    == Keep(table, longer)
           rows    == [n \in DOMAIN kept |-> RowOf(kept[n], columns)]
<1>1. _read_table(table) =
        IF width < MIN_DATASET_COLUMNS THEN NoDataset ELSE [rows |-> rows, columns |-> columns]
  BY DEF _read_table
<1>2. table \in Seq(Seq(Heads))
  BY DEF Tables, Heads
<1>3. /\ Len(table) \in Nat /\ DOMAIN table = 1 .. Len(table)
      /\ \A i \in 1 .. Len(table) : table[i] \in Seq(Heads)
  BY <1>2, Elements, Zenon
<1>4. heads \in SUBSET (1 .. Len(table)) /\ heads \in SUBSET Nat
  BY <1>3
<1> HIDE DEF heads
<1>5. headers \in Seq(Heads)
  <2>1. CASE heads = {}
    <3>1. <<>> \in Seq(Heads)
      OBVIOUS
    <3> QED
      BY <2>1, <3>1, Zenon
  <2>2. CASE heads # {}
    <3>1. First(heads) \in 1 .. Len(table)
      BY <1>4, <2>2, FirstIs
    <3> QED
      BY <1>3, <2>2, <3>1, Zenon
  <2> QED
    BY <2>1, <2>2
<1>6. body \in SUBSET (1 .. Len(table)) /\ longer \in SUBSET (1 .. Len(table))
  BY <1>3
<1> HIDE DEF body, longer, headers
<1>7. Keep(table, body) \in Seq(Seq(Heads)) /\ kept \in Seq(Seq(Heads))
  BY <1>3, <1>6, KeepType, Zenon
<1> HIDE DEF kept
<1>8. width \in Nat
  BY <1>7, LongestIs, Zenon
<1> HIDE DEF width
<1>9. IsData(columns, rows)
  BY <1>5, <1>7, <1>8, DatasetType, Zenon
<1> HIDE DEF columns, rows
<1> QED
  BY <1>1, <1>9, NoDatasetType

(* so is a grid,                                                           *)
LEMMA GridType ==
  ASSUME NEW grid \in Tables
  PROVE  IsData(_read_aria_grid(grid).columns, _read_aria_grid(grid).rows)
<1> DEFINE heads   == {i \in DOMAIN grid : \E c \in DOMAIN grid[i] : grid[i][c].th}
           part(i, th) == Keep(grid[i], {c \in DOMAIN grid[i] : grid[i][c].th = th})
           headers == IF heads = {} THEN <<>> ELSE part(First(heads), TRUE)
           cells   == [i \in DOMAIN grid |-> part(i, FALSE)]
           places  == {i \in DOMAIN grid : cells[i] # <<>> /\ (heads = {} \/ i # First(heads))}
           body    == Keep(cells, places)
           width   == Widest(body)
           columns == _pad_headers(headers, width)
           rows    == [n \in DOMAIN body |-> RowOf(body[n], columns)]
<1>1. _read_aria_grid(grid) =
        IF width < MIN_DATASET_COLUMNS THEN NoDataset ELSE [rows |-> rows, columns |-> columns]
  BY DEF _read_aria_grid
<1>2. grid \in Seq(Seq(Heads))
  BY DEF Tables, Heads
<1>3. /\ Len(grid) \in Nat /\ DOMAIN grid = 1 .. Len(grid)
      /\ \A i \in 1 .. Len(grid) : grid[i] \in Seq(Heads)
  BY <1>2, Elements, Zenon
<1>4. heads \in SUBSET (1 .. Len(grid)) /\ heads \in SUBSET Nat
  BY <1>3
<1> HIDE DEF heads
<1>5. ASSUME NEW i \in 1 .. Len(grid), NEW th PROVE part(i, th) \in Seq(Heads)
  <2> DEFINE row == grid[i]
             those == {c \in DOMAIN row : row[c].th = th}
  <2>1. row \in Seq(Heads)
    BY <1>3
  <2> HIDE DEF row
  <2>2. Len(row) \in Nat /\ DOMAIN row = 1 .. Len(row) /\ \A c \in 1 .. Len(row) : row[c] \in Heads
    BY <2>1, Elements, Zenon
  <2>3. those \in SUBSET (1 .. Len(row)) /\ \A c \in those : row[c] \in Heads
    BY <2>2
  <2> HIDE DEF those
  <2>4. Keep(row, those) \in Seq(Heads)
    BY <2>2, <2>3, KeepType, Zenon
  <2> QED
    BY <2>4 DEF row, those
<1> HIDE DEF part
<1>6. headers \in Seq(Heads)
  <2>1. CASE heads = {}
    <3>1. <<>> \in Seq(Heads)
      OBVIOUS
    <3> QED
      BY <2>1, <3>1, Zenon
  <2>2. CASE heads # {}
    <3>1. First(heads) \in 1 .. Len(grid)
      BY <1>4, <2>2, FirstIs
    <3> QED
      BY <1>5, <2>2, <3>1, Zenon
  <2> QED
    BY <2>1, <2>2
<1>7. places \in SUBSET (1 .. Len(grid)) /\ \A i \in places : cells[i] \in Seq(Heads)
  BY <1>3, <1>5
<1> HIDE DEF headers, places, cells
<1>8. body \in Seq(Seq(Heads))
  BY <1>3, <1>7, KeepType, Zenon
<1> HIDE DEF body
<1>9. width \in Nat
  BY <1>8, LongestIs, Zenon
<1> HIDE DEF width
<1>10. IsData(columns, rows)
  BY <1>6, <1>8, <1>9, DatasetType, Zenon
<1> HIDE DEF columns, rows
<1> QED
  BY <1>1, <1>10, NoDatasetType

(* and so are cards.                                                       *)
LEMMA CardsType ==
  ASSUME NEW cards \in Seq(Seq([col : Labels, cell : Cells]))
  PROVE  IsData(_read_label_value_blocks(cards).columns, _read_label_value_blocks(cards).rows)
<1> DEFINE D      == [col : Labels, cell : Cells]
           dicts  == [n \in DOMAIN cards |-> AsDict(cards[n])]
           places == {n \in DOMAIN cards : Len(dicts[n]) >= 4}
           rows   == Keep(dicts, places)
<1>1. _read_label_value_blocks(cards) =
        IF Len(rows) < 2 THEN NoDataset ELSE [rows |-> rows, columns |-> _ordered_columns(rows)]
  BY DEF _read_label_value_blocks
<1>2. \A e \in D : e.cell \in Shown
  BY CellsShown
<1>3. /\ Len(cards) \in Nat /\ DOMAIN cards = 1 .. Len(cards)
      /\ \A n \in 1 .. Len(cards) : cards[n] \in Seq(D)
  BY Elements, Zenon
<1>4. \A n \in 1 .. Len(cards) : dicts[n] \in Seq(D)
  BY <1>3, DictType, Zenon
<1>5. places \in SUBSET (1 .. Len(cards)) /\ \A n \in places : dicts[n] \in Seq(D)
  BY <1>3, <1>4
<1> HIDE DEF places, dicts
<1>6. rows \in Seq(Seq(D))
  BY <1>3, <1>5, KeepType, Zenon
<1> HIDE DEF rows
<1>7. _ordered_columns(rows) \in Seq(Labels)
  BY <1>6, ColumnsType, Zenon
<1> HIDE DEF D
<1>8. IsData(_ordered_columns(rows), rows)
  BY <1>2, <1>6, <1>7 DEF IsData
<1> QED
  BY <1>1, <1>8, NoDatasetType

(* Every dataset of a page is one.                                         *)
LEMMA DatasetsType ==
  ASSUME NEW payload \in Payloads
  PROVE  \E S : /\ _candidate_datasets(payload) \in Seq(S)
                /\ \A d \in S : IsData(d.columns, d.rows)
<1> DEFINE tables == [n \in DOMAIN payload.tables |-> _read_table(payload.tables[n])]
           grids  == [n \in DOMAIN payload.grids |-> _read_aria_grid(payload.grids[n])]
           cards  == _read_label_value_blocks(payload.cards)
           data   == tables \o grids \o <<cards>>
           filled == {n \in DOMAIN data : data[n].rows # <<>>}
           S      == {tables[n] : n \in DOMAIN tables} \cup {grids[n] : n \in DOMAIN grids} \cup {cards}
<1>1. _candidate_datasets(payload) = Keep(data, filled)
  BY DEF _candidate_datasets
<1>2. /\ payload.tables \in Seq(Tables) /\ payload.grids \in Seq(Tables)
      /\ payload.cards \in Seq(Seq([col : Labels, cell : Cells]))
  BY DEF Payloads
<1>3. /\ Len(payload.tables) \in Nat /\ DOMAIN payload.tables = 1 .. Len(payload.tables)
      /\ \A n \in 1 .. Len(payload.tables) : payload.tables[n] \in Tables
  BY <1>2, Elements, Zenon
<1>4. /\ Len(payload.grids) \in Nat /\ DOMAIN payload.grids = 1 .. Len(payload.grids)
      /\ \A n \in 1 .. Len(payload.grids) : payload.grids[n] \in Tables
  BY <1>2, Elements, Zenon
<1>5. /\ \A n \in 1 .. Len(payload.tables) : tables[n] \in S /\ IsData(tables[n].columns, tables[n].rows)
      /\ tables = [n \in 1 .. Len(payload.tables) |-> tables[n]]
  BY <1>3, TableType
<1>6. /\ \A n \in 1 .. Len(payload.grids) : grids[n] \in S /\ IsData(grids[n].columns, grids[n].rows)
      /\ grids = [n \in 1 .. Len(payload.grids) |-> grids[n]]
  BY <1>4, GridType
<1>7. cards \in S /\ IsData(cards.columns, cards.rows)
  BY <1>2, CardsType
<1>8. \A d \in S : IsData(d.columns, d.rows)
  <2>1. DOMAIN tables = 1 .. Len(payload.tables) /\ DOMAIN grids = 1 .. Len(payload.grids)
    BY <1>3, <1>4
  <2> HIDE DEF tables, grids, cards
  <2> QED
    BY <1>5, <1>6, <1>7, <2>1
<1> HIDE DEF tables, grids, cards, S
<1>9. tables \in Seq(S) /\ grids \in Seq(S)
  BY <1>3, <1>4, <1>5, <1>6, MapType, Zenon
<1>10. data \in Seq(S)
  BY <1>7, <1>9
<1> HIDE DEF data
<1>11. /\ Len(data) \in Nat /\ DOMAIN data = 1 .. Len(data)
       /\ \A n \in 1 .. Len(data) : data[n] \in S
  BY <1>10, Elements, Zenon
<1>12. filled \in SUBSET (1 .. Len(data)) /\ \A n \in filled : data[n] \in S
  BY <1>11
<1> HIDE DEF filled
<1>13. Keep(data, filled) \in Seq(S)
  BY <1>11, <1>12, KeepType, Zenon
<1> QED
  BY <1>1, <1>8, <1>13

(* The best of some results is one of them.                                *)
LEMMA BestType ==
  ASSUME NEW n \in Nat \ {0}, NEW results, results = [i \in 1 .. n |-> results[i]],
         \A i \in 1 .. n : IsResult(results[i])
  PROVE  IsResult(Best(results))
<1> DEFINE score == [i \in 1 .. n |-> results[i].confidence]
           Beats(i, j) == \/ results[i].confidence > results[j].confidence
                          \/ results[i].confidence = results[j].confidence /\ i <= j
<1>1. score \in [1 .. n -> Int] /\ \A i \in 1 .. n : score[i] = results[i].confidence
  BY DEF IsResult
<1> HIDE DEF score
<1>2. \E i \in 1 .. n : \A j \in 1 .. n : score[i] > score[j] \/ (score[i] = score[j] /\ i <= j)
  BY <1>1, TopOne
<1>3. DOMAIN results = 1 .. n
  OBVIOUS
<1>4. \E i \in DOMAIN results : \A j \in DOMAIN results : Beats(i, j)
  BY <1>1, <1>2, <1>3
<1> DEFINE best == CHOOSE i \in DOMAIN results : \A j \in DOMAIN results : Beats(i, j)
<1>5. best \in DOMAIN results
  BY <1>4, Zenon
<1>6. Best(results) = results[best]
  BY DEF Best
<1> HIDE DEF best
<1> QED
  BY <1>3, <1>5, <1>6

(* A page gives a result.                                                  *)
LEMMA ExtractHtmlType ==
  ASSUME NEW payload \in Payloads
  PROVE  IsResult(ExtractHtml(payload))
<1> DEFINE data    == _candidate_datasets(payload)
           results == [n \in DOMAIN data |-> _build_result("HTML_TABLE", data[n].rows, data[n].columns)]
<1>1. ExtractHtml(payload) = IF data = <<>> THEN Nothing("HTML_TABLE") ELSE Best(results)
  BY DEF ExtractHtml
<1>2. PICK S : data \in Seq(S) /\ \A d \in S : IsData(d.columns, d.rows)
  BY DatasetsType
<1> HIDE DEF data
<1>3. Len(data) \in Nat /\ DOMAIN data = 1 .. Len(data) /\ \A n \in 1 .. Len(data) : data[n] \in S
  BY <1>2, Elements, Zenon
<1>4. \A n \in 1 .. Len(data) : IsResult(results[n])
  BY <1>2, <1>3, BuildType
<1>5. results = [n \in 1 .. Len(data) |-> results[n]]
  BY <1>3
<1> HIDE DEF results
<1>6. CASE data = <<>>
  BY <1>1, <1>6, NothingType, Zenon
<1>7. CASE data # <<>>
  <2>1. Len(data) \in Nat \ {0}
    BY <1>2, <1>3, <1>7, EmptySeq
  <2> QED
    BY <1>1, <1>4, <1>5, <1>7, <2>1, BestType, Zenon
<1> QED
  BY <1>6, <1>7

(* So is the closest of the attempts, or nothing.                          *)
LEMMA ClosestType ==
  ASSUME NEW S, NEW tried \in Seq(S), \A i \in DOMAIN tried : IsResult(tried[i])
  PROVE  IsResult(Closest(tried))
<1> DEFINE n     == Len(tried)
           score == [i \in 1 .. n |-> tried[i].confidence]
           size  == [i \in 1 .. n |-> Len(tried[i].records)]
           Beats(i, j) ==
             \/ tried[i].confidence > tried[j].confidence
             \/ /\ tried[i].confidence = tried[j].confidence
                /\ \/ Len(tried[i].records) > Len(tried[j].records)
                   \/ Len(tried[i].records) = Len(tried[j].records) /\ i <= j
<1>1. n \in Nat /\ DOMAIN tried = 1 .. n
  BY LenProperties
<1>2. CASE tried = <<>>
  BY <1>2, NothingType, Zenon DEF Closest
<1>3. CASE tried # <<>>
  <2>1. n \in Nat \ {0}
    BY <1>1, <1>3, EmptySeq
  <2>2. /\ score \in [1 .. n -> Int] /\ \A i \in 1 .. n : score[i] = tried[i].confidence
        /\ size \in [1 .. n -> Int] /\ \A i \in 1 .. n : size[i] = Len(tried[i].records)
    <3>1. ASSUME NEW i \in 1 .. n PROVE tried[i].confidence \in Int /\ Len(tried[i].records) \in Int
      <4>1. IsResult(tried[i])
        BY <1>1
      <4> QED
        BY <4>1 DEF IsResult
    <3> HIDE DEF n
    <3> QED
      BY <3>1
  <2> HIDE DEF n, score, size
  <2>3. \E i \in 1 .. n : \A j \in 1 .. n :
           \/ score[i] > score[j]
           \/ /\ score[i] = score[j]
              /\ size[i] > size[j] \/ (size[i] = size[j] /\ i <= j)
    BY <2>1, <2>2, TopScore
  <2>4. \E i \in DOMAIN tried : \A j \in DOMAIN tried : Beats(i, j)
    <3>1. PICK i \in 1 .. n : \A j \in 1 .. n :
             \/ score[i] > score[j]
             \/ /\ score[i] = score[j]
                /\ size[i] > size[j] \/ (size[i] = size[j] /\ i <= j)
      BY <2>3
    <3>2. ASSUME NEW j \in 1 .. n PROVE Beats(i, j)
      <4>1. /\ score[i] = tried[i].confidence /\ score[j] = tried[j].confidence
            /\ size[i] = Len(tried[i].records) /\ size[j] = Len(tried[j].records)
        BY <2>2
      <4> QED
        BY <3>1, <4>1
    <3> HIDE DEF Beats
    <3> QED
      BY <1>1, <3>2
  <2> DEFINE best == CHOOSE i \in DOMAIN tried : \A j \in DOMAIN tried : Beats(i, j)
  <2>5. best \in DOMAIN tried
    BY <2>4, Zenon
  <2>6. Closest(tried) = tried[best]
    BY <1>3, Zenon DEF Closest
  <2> HIDE DEF best
  <2> QED
    BY <2>5, <2>6
<1> QED
  BY <1>2, <1>3

(***************************************************************************)
(* The run.                                                                *)
(***************************************************************************)

\* What every strategy has returned is a result, and so is what is used.
Results ==
  /\ source \in Sources
  /\ \E S : attempts \in Seq(S)
  /\ \A i \in DOMAIN attempts : IsResult(attempts[i])
  /\ IsResult(result)

(* No result at the start,                                                 *)
LEMMA InitResults == Init => Results
<1> SUFFICES ASSUME Init PROVE Results
  OBVIOUS
<1>1. <<>> \in Seq({}) /\ DOMAIN <<>> = {}
  OBVIOUS
<1> QED
  BY <1>1, NothingType DEF Init, Results

(* and each one that is added has a stable assignment.                     *)
LEMMA NextResults == Results /\ [Next]_vars => Results'
<1> SUFFICES ASSUME Results, [Next]_vars PROVE Results'
  OBVIOUS
<1>1. source.payload \in Payloads
  BY SourceAssumption DEF Results
<1>2. ASSUME NEW s \in Strategies, CannotHandle(s) PROVE Results'
  BY <1>2 DEF CannotHandle, Results
<1>3. ASSUME NEW s \in Strategies, Attempt(s) PROVE Results'
  <2> DEFINE r == IF s = "JSON_API" THEN ExtractJson(source.payload) ELSE ExtractHtml(source.payload)
  <2>1. IsResult(r)
    BY <1>1, <1>3, ExtractJsonType, ExtractHtmlType DEF Attempt
  <2>2. /\ attempts' = Append(attempts, r) /\ source' = source
        /\ result' = r \/ result' = result
    BY <1>3 DEF Attempt
  <2> HIDE DEF r
  <2>3. PICK S : attempts \in Seq(S)
    BY DEF Results
  <2>4. attempts \in Seq(S \cup {r})
    BY <2>3
  <2>5. /\ Append(attempts, r) \in Seq(S \cup {r})
        /\ DOMAIN Append(attempts, r) = 1 .. Len(attempts) + 1
        /\ \A i \in 1 .. Len(attempts) : Append(attempts, r)[i] = attempts[i]
        /\ Append(attempts, r)[Len(attempts) + 1] = r
    BY <2>4
  <2>6. DOMAIN attempts = 1 .. Len(attempts) /\ Len(attempts) \in Nat
    BY <2>3, LenProperties
  <2>7. \A i \in DOMAIN attempts' : IsResult(attempts'[i])
    <3> SUFFICES ASSUME NEW i \in 1 .. Len(attempts) + 1 PROVE IsResult(Append(attempts, r)[i])
      BY <2>2, <2>5
    <3>1. i \in 1 .. Len(attempts) \/ i = Len(attempts) + 1
      BY <2>6
    <3> QED
      BY <2>1, <2>5, <2>6, <3>1 DEF Results
  <2>8. IsResult(result')
    BY <2>1, <2>2 DEF Results
  <2> QED
    BY <2>2, <2>5, <2>7, <2>8 DEF Results
<1>4. CASE AttemptRaises
  BY <1>4 DEF AttemptRaises, Results
<1>5. CASE Choose
  <2>1. IsResult(Closest(attempts))
    BY ClosestType DEF Results
  <2> QED
    BY <1>5, <2>1 DEF Choose, Results
<1>6. CASE Normalize
  BY <1>6 DEF Normalize, Results
<1>7. CASE Validate
  BY <1>7 DEF Validate, Results
<1>8. CASE UNCHANGED vars
  BY <1>8 DEF vars, Results
<1> QED
  BY <1>2, <1>3, <1>4, <1>5, <1>6, <1>7, <1>8 DEF Next

(* A result whose assignment is stable is all that MappingStable asks.     *)
LEMMA ResultStable ==
  ASSUME IsResult(result)
  PROVE  MappingStable
<1> DEFINE pairs == candidates(result.columns, result.rows)
<1>1. Assigned(pairs, result.matches) /\ free(pairs, result.matches) = {}
  BY DEF IsResult
<1> HIDE DEF pairs
<1>2. \A m, n \in result.matches : m # n => m.field # n.field /\ m.col # n.col
  BY <1>1 DEF Assigned
<1>3. \A c \in pairs : \E m \in result.matches : (m.field = c.field \/ m.col = c.col) /\ m.score >= c.score
  BY <1>1 DEF Assigned
<1> QED
  BY <1>2, <1>3 DEF MappingStable, pairs

(* The mapping never depends on luck.                                      *)
THEOREM AlwaysMappingStable == Spec => []MappingStable
<1>1. Results => MappingStable
  BY ResultStable DEF Results
<1> QED
  BY <1>1, InitResults, NextResults, PTL DEF Spec

(***************************************************************************)
(* The order of the columns.                                               *)
(***************************************************************************)

\* Two pairs ask for one field or one column.
Rivals(c, d) == c.field = d.field \/ c.col = d.col

\* No field and no column is used twice.
Matching(M) == \A m, n \in M : m # n => ~Rivals(m, n)

(* Of a set of pairs one is the best.                                      *)
LEMMA BestExists ==
  ASSUME NEW pairs, Candidates(pairs), NEW S \in SUBSET pairs, S # {}
  PROVE  \E c \in S : \A d \in S : d # c => Better(c, d)
<1>1. Candidates(S)
  BY DEF Candidates
<1>2. free(S, {}) = S
  BY DEF free
<1>3. \E c \in free(S, {}) :
        Round(S, {}) = {} \cup {c} /\ \A d \in free(S, {}) : d # c => Better(c, d)
  BY <1>1, <1>2, RoundTakesBest
<1> QED
  BY <1>2, <1>3

(* Two assignments are one, if what each leaves out loses to a rival that  *)
(* the other one takes.                                                    *)
LEMMA StableUnique ==
  ASSUME NEW pairs, Candidates(pairs), NEW M \in SUBSET pairs, NEW N \in SUBSET pairs,
         Matching(M), Matching(N),
         \A c \in N \ M : \E m \in M : Rivals(m, c) /\ Better(m, c),
         \A c \in M \ N : \E m \in N : Rivals(m, c) /\ Better(m, c)
  PROVE  M = N
<1> DEFINE S == (M \ N) \cup (N \ M)
<1> SUFFICES ASSUME S # {} PROVE FALSE
  OBVIOUS
<1>1. S \in SUBSET pairs
  OBVIOUS
<1>2. PICK c \in S : \A d \in S : d # c => Better(c, d)
  <2> HIDE DEF S
  <2> QED
    BY <1>1, BestExists
<1>3. ASSUME NEW m \in S, Better(m, c) PROVE FALSE
  <2>1. m \in pairs /\ c \in pairs
    BY <1>1
  <2>2. m.score \in Nat /\ m.pos \in Nat /\ c.score \in Nat /\ c.pos \in Nat
    BY <2>1 DEF Candidates
  <2>3. ~Better(c, m) /\ m # c
    BY <1>3, <2>2 DEF Better
  <2> QED
    BY <1>2, <2>3
<1>4. CASE c \in M \ N
  <2>1. PICK m \in N : Rivals(m, c) /\ Better(m, c)
    BY <1>4
  <2>2. m \notin M
    BY <1>4, <2>1 DEF Matching
  <2> QED
    BY <1>3, <2>1, <2>2
<1>5. CASE c \in N \ M
  <2>1. PICK m \in M : Rivals(m, c) /\ Better(m, c)
    BY <1>5
  <2>2. m \notin N
    BY <1>5, <2>1 DEF Matching
  <2> QED
    BY <1>3, <2>1, <2>2
<1> QED
  BY <1>4, <1>5

(* The assignment is a matching, and what it leaves out loses to a rival.  *)
LEMMA GreedyMatches ==
  ASSUME NEW pairs, Candidates(pairs)
  PROVE  /\ Greedy(pairs) \in SUBSET pairs /\ Matching(Greedy(pairs))
         /\ \A c \in pairs \ Greedy(pairs) : \E m \in Greedy(pairs) : Rivals(m, c) /\ Better(m, c)
<1>1. Assigned(pairs, Greedy(pairs)) /\ free(pairs, Greedy(pairs)) = {}
  BY GreedyStable
<1>2. ASSUME NEW c \in pairs \ Greedy(pairs)
      PROVE  \E m \in Greedy(pairs) : Rivals(m, c) /\ Better(m, c)
  <2>1. c \notin free(pairs, Greedy(pairs)) /\ c \in pairs
    BY <1>1
  <2>2. PICK m \in Greedy(pairs) : (m.field = c.field \/ m.col = c.col) /\ (m = c \/ Better(m, c))
    BY <1>1, <2>1 DEF Assigned
  <2> QED
    BY <2>2 DEF Rivals
<1>3. Matching(Greedy(pairs))
  BY <1>1 DEF Assigned, Matching, Rivals
<1> QED
  BY <1>1, <1>2, <1>3 DEF Assigned

\* Rows that say the same of some columns, in whatever order.
SameCells(a, b, cols) ==
  \A col \in cols : Has(a, col) = Has(b, col) /\ (Has(a, col) => Cell(a, col) = Cell(b, col))

SameRows(rows, same, cols) ==
  DOMAIN rows = DOMAIN same /\ \A n \in DOMAIN rows : SameCells(rows[n], same[n], cols)

(* Values score by what the rows say, and not by where they say it.        *)
LEMMA ValuesInAnyOrder ==
  ASSUME NEW rows, NEW same, NEW col, NEW field, SameRows(rows, same, {col})
  PROVE  score_values(field, col, rows) = score_values(field, col, same)
<1> DEFINE samples(R) == {n \in DOMAIN R : /\ n <= 25 /\ Has(R[n], col)
                                           /\ ~is_null_token(Cell(R[n], col).text)}
           hits(R)    == {n \in samples(R) : looks_like(field.shape, Cell(R[n], col).text)}
<1>1. /\ DOMAIN rows = DOMAIN same
      /\ \A n \in DOMAIN rows : /\ Has(rows[n], col) = Has(same[n], col)
                                /\ Has(rows[n], col) => Cell(rows[n], col) = Cell(same[n], col)
  BY DEF SameRows, SameCells
<1>2. samples(rows) = samples(same)
  BY <1>1
<1>3. hits(rows) = hits(same)
  BY <1>1, <1>2
<1>4. \A R : score_values(field, col, R) =
               IF Cardinality(samples(R)) < 2 \/ 10 * Cardinality(hits(R)) < 6 * Cardinality(samples(R))
               THEN 0 ELSE (SCORE_VALUE_SHAPE * Cardinality(hits(R))) \div Cardinality(samples(R))
  BY DEF score_values
<1> HIDE DEF samples, hits
<1> QED
  BY <1>2, <1>3, <1>4

\* The same labels and the same rows, in another order.
Reordered(columns, rows, others, same) ==
  /\ {columns[n] : n \in DOMAIN columns} = {others[n] : n \in DOMAIN others}
  /\ \A n, k \in DOMAIN columns : columns[n] = columns[k] => n = k
  /\ \A n, k \in DOMAIN others : others[n] = others[k] => n = k
  /\ SameRows(rows, same, {columns[n] : n \in DOMAIN columns})

\* No match owes its field to the place of its column in the page.
NoMatchTied(columns, rows) ==
  \A m \in map_columns(columns, rows), c \in candidates(columns, rows) :
    m.field = c.field /\ m.score = c.score => m.col = c.col

\* A match, but for its place.
Told(m)     == <<m.field, m.col, m.by_label, m.score>>
Matches(ms) == {Told(m) : m \in ms}

(* Equal matches are matches of one another.                               *)
LEMMA MatchesMeet ==
  ASSUME NEW M, NEW T, Matches(M) = Matches(T)
  PROVE  /\ \A m \in M : \E t \in T : t.field = m.field /\ t.col = m.col
         /\ \A t \in T : \E m \in M : m.field = t.field /\ m.col = t.col
<1>1. ASSUME NEW m \in M PROVE \E t \in T : t.field = m.field /\ t.col = m.col
  <2>1. Told(m) \in Matches(T)
    BY DEF Matches
  <2> QED
    BY <2>1 DEF Matches, Told
<1>2. ASSUME NEW t \in T PROVE \E m \in M : m.field = t.field /\ m.col = t.col
  <2>1. Told(t) \in Matches(M)
    BY DEF Matches
  <2> QED
    BY <2>1 DEF Matches, Told
<1> QED
  BY <1>1, <1>2

(* Two places are one only if they are of one column and one field.        *)
LEMMA PlacesDiffer ==
  ASSUME NEW a \in Nat, NEW b \in Nat, NEW f \in 1 .. 19, NEW e \in 1 .. 19,
         19 * a + f = 19 * b + e
  PROVE  a = b /\ f = e
OBVIOUS

(* A match of one order is a match of the other.                           *)
LEMMA SameMatches ==
  ASSUME NEW L, NEW columns \in Seq(L), NEW others \in Seq(L),
         NEW R, NEW rows \in Seq(R), NEW same \in Seq(R),
         Reordered(columns, rows, others, same), NoMatchTied(columns, rows)
  PROVE  Matches(map_columns(columns, rows)) = Matches(map_columns(others, same))
<1> DEFINE C == DOMAIN columns
           F == DOMAIN CANONICAL_FIELDS
           twin(n) == CHOOSE k \in DOMAIN others : others[k] = columns[n]
           P(n, f) == Pair(columns, rows, n, f)
           Q(n, f) == Pair(others, same, twin(n), f)
           pairs == candidates(columns, rows)
           swapped == candidates(others, same)
           M == Greedy(pairs)
           T == Greedy(swapped)
           N == {c \in pairs : \E n \in C, f \in F : c = P(n, f) /\ Q(n, f) \in T}
<1>1. ASSUME NEW n \in C PROVE twin(n) \in DOMAIN others /\ others[twin(n)] = columns[n]
  <2>1. \E k \in DOMAIN others : others[k] = columns[n]
    BY DEF Reordered
  <2> QED
    BY <2>1, Zenon
<1> HIDE DEF twin
<1>2. \A n, m \in C : twin(n) = twin(m) => n = m
  BY <1>1 DEF Reordered
<1>3. ASSUME NEW k \in DOMAIN others PROVE \E n \in C : k = twin(n)
  <2>1. PICK n \in C : others[k] = columns[n]
    BY DEF Reordered
  <2>2. k = twin(n)
    BY <1>1, <2>1 DEF Reordered
  <2> QED
    BY <2>2
<1>4. C \subseteq Nat /\ DOMAIN others \subseteq Nat /\ F = 1 .. 19 /\ Len(CANONICAL_FIELDS) = 19
  BY LenProperties, FieldCount
<1>5. ASSUME NEW n \in C, NEW f \in F
      PROVE  /\ Told(P(n, f)) = Told(Q(n, f))
             /\ P(n, f).field = Q(n, f).field /\ P(n, f).score = Q(n, f).score
             /\ P(n, f).col = columns[n] /\ Q(n, f).col = columns[n]
             /\ P(n, f).pos = 19 * n + f /\ Q(n, f).pos = 19 * twin(n) + f
  <2> DEFINE field == CANONICAL_FIELDS[f]
  <2> HIDE DEF field
  <2>1. score_values(field, columns[n], rows) = score_values(field, columns[n], same)
    <3> DEFINE col == columns[n]
    <3>1. SameRows(rows, same, {col})
      BY DEF Reordered, SameRows, SameCells
    <3> HIDE DEF P, Q, pairs, swapped, M, T, N, F, C, col
    <3>2. score_values(field, col, rows) = score_values(field, col, same)
      BY <3>1, ValuesInAnyOrder
    <3> QED
      BY <3>2 DEF col
  <2>2. others[twin(n)] = columns[n]
    BY <1>1
  <2>3. /\ P(n, f).field = field.name /\ P(n, f).col = columns[n] /\ P(n, f).pos = 19 * n + f
        /\ P(n, f).by_label = (score_label(field, columns[n]) > 0)
        /\ P(n, f).score = IF score_label(field, columns[n]) > 0 THEN score_label(field, columns[n])
                           ELSE score_values(field, columns[n], rows)
    BY <1>4 DEF Pair, field
  <2>4. /\ Q(n, f).field = field.name /\ Q(n, f).col = columns[n] /\ Q(n, f).pos = 19 * twin(n) + f
        /\ Q(n, f).by_label = (score_label(field, columns[n]) > 0)
        /\ Q(n, f).score = IF score_label(field, columns[n]) > 0 THEN score_label(field, columns[n])
                           ELSE score_values(field, columns[n], same)
    <3> DEFINE k == twin(n)
    <3>1. others[k] = columns[n]
      BY <2>2
    <3> HIDE DEF k
    <3>2. Pair(others, same, k, f) =
            [field |-> field.name, col |-> columns[n], pos |-> k * 19 + f,
             by_label |-> score_label(field, columns[n]) > 0,
             score |-> IF score_label(field, columns[n]) > 0 THEN score_label(field, columns[n])
                       ELSE score_values(field, columns[n], same)]
      BY <1>4, <3>1 DEF Pair, field
    <3>3. k * 19 + f = 19 * k + f
      BY <1>1, <1>4 DEF k
    <3> QED
      BY <3>2, <3>3 DEF k
  <2> HIDE DEF P, Q
  <2> QED
    BY <2>1, <2>3, <2>4 DEF Told
<1>6. /\ \A c \in pairs : \E n \in C, f \in F : c = P(n, f)
      /\ \A n \in C, f \in F : P(n, f) \in pairs <=> P(n, f).score > 0
  BY DEF candidates
<1>7. /\ \A c \in swapped : \E n \in C, f \in F : c = Q(n, f)
      /\ \A n \in C, f \in F : Q(n, f) \in swapped <=> Q(n, f).score > 0
  <2>1. \A c \in swapped : \E k \in DOMAIN others, f \in F : c = Pair(others, same, k, f)
    BY DEF candidates
  <2>2. \A k \in DOMAIN others, f \in F :
          Pair(others, same, k, f) \in swapped <=> Pair(others, same, k, f).score > 0
    BY DEF candidates
  <2> HIDE DEF swapped
  <2> QED
    BY <1>1, <1>3, <2>1, <2>2
<1>8. Candidates(pairs) /\ Candidates(swapped)
  BY CandidatesType
<1>9. /\ M \in SUBSET pairs /\ Matching(M)
      /\ \A c \in pairs \ M : \E m \in M : Rivals(m, c) /\ Better(m, c)
  BY <1>8, GreedyMatches
<1>10. /\ T \in SUBSET swapped /\ Matching(T)
       /\ \A c \in swapped \ T : \E m \in T : Rivals(m, c) /\ Better(m, c)
  BY <1>8, GreedyMatches
<1>11. NoMatchTied(columns, rows) <=>
         \A m \in M, c \in pairs : m.field = c.field /\ m.score = c.score => m.col = c.col
  BY DEF NoMatchTied, map_columns
<1>12. map_columns(columns, rows) = M /\ map_columns(others, same) = T
  BY DEF map_columns
<1> HIDE DEF C, F, P, Q, pairs, swapped, M, T
<1>13. ASSUME NEW n \in C, NEW f \in F, NEW m \in C, NEW e \in F
       PROVE  /\ P(n, f) = P(m, e) => n = m /\ f = e
              /\ Q(n, f) = Q(m, e) => n = m /\ f = e
              /\ Rivals(P(n, f), P(m, e)) <=> Rivals(Q(n, f), Q(m, e))
  <2>1. n \in Nat /\ m \in Nat /\ f \in 1 .. 19 /\ e \in 1 .. 19 /\ twin(n) \in Nat /\ twin(m) \in Nat
    BY <1>1, <1>4
  <2>2. 19 * n + f = 19 * m + e => n = m /\ f = e
    BY <2>1
  <2>3. 19 * twin(n) + f = 19 * twin(m) + e => n = m /\ f = e
    <3>1. 19 * twin(n) + f = 19 * twin(m) + e => twin(n) = twin(m) /\ f = e
      BY <2>1, PlacesDiffer
    <3> QED
      BY <1>2, <3>1
  <2> QED
    BY <1>5, <2>2, <2>3 DEF Rivals
<1>14. \A n \in C, f \in F : P(n, f) \in N <=> Q(n, f) \in T
  <2>1. \A n \in C, f \in F : Q(n, f) \in T => P(n, f) \in pairs
    BY <1>5, <1>6, <1>7, <1>10
  <2> QED
    BY <1>13, <2>1
<1>15. N \in SUBSET pairs /\ \A c \in N : \E n \in C, f \in F : c = P(n, f) /\ Q(n, f) \in T
  OBVIOUS
<1> HIDE DEF N
<1>16. Matching(N)
  <2> SUFFICES ASSUME NEW c \in N, NEW d \in N, c # d PROVE ~Rivals(c, d)
    BY DEF Matching
  <2>1. PICK n \in C, f \in F : c = P(n, f) /\ Q(n, f) \in T
    BY <1>15
  <2>2. PICK m \in C, e \in F : d = P(m, e) /\ Q(m, e) \in T
    BY <1>15
  <2>3. Q(n, f) # Q(m, e)
    BY <1>13, <2>1, <2>2
  <2> QED
    BY <1>10, <1>13, <2>1, <2>2, <2>3 DEF Matching
<1>17. ASSUME NEW c \in N \ M PROVE \E m \in M : Rivals(m, c) /\ Better(m, c)
  BY <1>9, <1>15
<1>18. ASSUME NEW c \in M \ N PROVE \E m \in N : Rivals(m, c) /\ Better(m, c)
  <2>1. c \in pairs
    BY <1>9
  <2>2. PICK n \in C, f \in F : c = P(n, f)
    BY <1>6, <2>1
  <2>3. Q(n, f) \in swapped /\ Q(n, f) \notin T
    BY <1>5, <1>6, <1>7, <1>14, <2>1, <2>2
  <2>4. PICK t \in T : Rivals(t, Q(n, f)) /\ Better(t, Q(n, f))
    BY <1>10, <2>3
  <2>5. PICK m \in C, e \in F : t = Q(m, e)
    BY <1>7, <1>10
  <2>6. P(m, e) \in N /\ P(m, e) \in pairs
    BY <1>14, <1>15, <2>5
  <2>7. Rivals(P(m, e), c)
    BY <1>13, <2>2, <2>4, <2>5
  <2>8. Better(P(m, e), c)
    <3>1. /\ P(m, e).score = Q(m, e).score /\ P(n, f).score = Q(n, f).score
          /\ P(m, e).pos = 19 * m + e /\ Q(m, e).pos = 19 * twin(m) + e
          /\ P(n, f).pos = 19 * n + f /\ Q(n, f).pos = 19 * twin(n) + f
          /\ P(m, e).col = columns[m] /\ P(n, f).col = columns[n]
      BY <1>5
    <3>2. \/ Q(m, e).score > Q(n, f).score
          \/ Q(m, e).score = Q(n, f).score /\ 19 * twin(m) + e < 19 * twin(n) + f
      BY <2>4, <2>5, <3>1 DEF Better
    <3>3. CASE Q(m, e).score > Q(n, f).score
      BY <2>2, <3>1, <3>3 DEF Better
    <3>4. CASE Q(m, e).score = Q(n, f).score /\ 19 * twin(m) + e < 19 * twin(n) + f
      <4>1. columns[m] = columns[n]
        BY <1>11, <2>2, <2>6, <2>7, <3>1, <3>4 DEF Rivals
      <4>2. m = n
        BY <4>1 DEF Reordered, C
      <4>3. n \in Nat /\ twin(n) \in Nat /\ e \in 1 .. 19 /\ f \in 1 .. 19
        BY <1>1, <1>4
      <4>4. 19 * m + e < 19 * n + f
        BY <3>4, <4>2, <4>3
      <4> QED
        BY <2>2, <3>1, <3>4, <4>4 DEF Better
    <3> QED
      BY <3>2, <3>3, <3>4
  <2> QED
    BY <2>6, <2>7, <2>8
<1>19. M = N
  BY <1>8, <1>9, <1>15, <1>16, <1>17, <1>18, StableUnique
<1>20. ASSUME NEW m \in M PROVE \E t \in T : Told(t) = Told(m)
  <2>1. PICK n \in C, f \in F : m = P(n, f) /\ Q(n, f) \in T
    BY <1>15, <1>19
  <2> QED
    BY <1>5, <2>1
<1>21. ASSUME NEW t \in T PROVE \E m \in M : Told(m) = Told(t)
  <2>1. PICK n \in C, f \in F : t = Q(n, f)
    BY <1>7, <1>10
  <2>2. P(n, f) \in M
    BY <1>14, <1>19, <2>1
  <2> QED
    BY <1>5, <2>1, <2>2
<1>22. Matches(M) = Matches(T)
  BY <1>20, <1>21 DEF Matches
<1> QED
  BY <1>12, <1>22

(* The order of the columns carries no meaning: if no match is tied with   *)
(* another column for its field, the same labels and cells in any other    *)
(* order are matched to the same fields with the same scores, and every    *)
(* row becomes the same fields (test_scraper_resilience.py:153).           *)
THEOREM OrderMeansNothing ==
  ASSUME NEW L, NEW columns \in Seq(L), NEW others \in Seq(L),
         NEW R, NEW rows \in Seq(R), NEW same \in Seq(R),
         Reordered(columns, rows, others, same), NoMatchTied(columns, rows)
  PROVE  /\ Matches(map_columns(columns, rows)) = Matches(map_columns(others, same))
         /\ \A n \in DOMAIN rows : Project(rows[n], map_columns(columns, rows)).fields
                                     = Project(same[n], map_columns(others, same)).fields
<1> DEFINE M == map_columns(columns, rows)
           T == map_columns(others, same)
<1>1. Matches(M) = Matches(T)
  BY SameMatches
<1>2. Matching(M) /\ Matching(T) /\ \A m \in M : m.col \in {columns[n] : n \in DOMAIN columns}
  <2>1. Candidates(candidates(columns, rows)) /\ Candidates(candidates(others, same))
    BY CandidatesType
  <2>2. Matching(M) /\ Matching(T) /\ M \subseteq candidates(columns, rows)
    BY <2>1, GreedyMatches DEF map_columns
  <2>3. \A c \in candidates(columns, rows) : c.col \in {columns[n] : n \in DOMAIN columns}
    BY DEF candidates, Pair
  <2> QED
    BY <2>2, <2>3
<1> HIDE DEF M, T
<1>3. /\ \A m \in M : \E t \in T : t.field = m.field /\ t.col = m.col
      /\ \A t \in T : \E m \in M : m.field = t.field /\ m.col = t.col
  BY <1>1, MatchesMeet
<1>4. ASSUME NEW n \in DOMAIN rows PROVE Project(rows[n], M).fields = Project(same[n], T).fields
  <2> DEFINE row == rows[n]
             turned == same[n]
             ours   == {m \in M : Has(row, m.col)}
             theirs == {m \in T : Has(turned, m.col)}
  <2>1. SameCells(row, turned, {columns[k] : k \in DOMAIN columns})
    BY DEF Reordered, SameRows
  <2> HIDE DEF row, turned
  <2>2. ASSUME NEW m \in M
        PROVE  /\ \E t \in T : t.field = m.field /\ t.col = m.col
               /\ Has(row, m.col) = Has(turned, m.col)
               /\ Has(row, m.col) => Cell(row, m.col) = Cell(turned, m.col)
    BY <1>2, <1>3, <2>1 DEF SameCells
  <2>4. \A m \in ours : \E t \in theirs : t.field = m.field /\ t.col = m.col
    BY <2>2
  <2>5. \A t \in theirs : \E m \in ours : m.field = t.field /\ m.col = t.col
    BY <1>3, <2>2
  <2>6. \A m \in ours : m \in M /\ Has(row, m.col)
    OBVIOUS
  <2>7. \A t \in theirs : t \in T
    OBVIOUS
  <2> HIDE DEF ours, theirs
  <2>8. {m.field : m \in ours} = {t.field : t \in theirs}
    BY SMTT(20), <2>4, <2>5
  <2>9. ASSUME NEW f \in {m.field : m \in ours}
        PROVE  Cell(row, (CHOOSE m \in ours : m.field = f).col)
                 = Cell(turned, (CHOOSE t \in theirs : t.field = f).col)
    <3> DEFINE a == CHOOSE m \in ours : m.field = f
               b == CHOOSE t \in theirs : t.field = f
    <3>1. a \in ours /\ a.field = f
      BY Zenon
    <3>2. b \in theirs /\ b.field = f
      BY <2>8, Zenon
    <3> HIDE DEF a, b
    <3>3. PICK t \in theirs : t.field = a.field /\ t.col = a.col
      BY <2>4, <3>1
    <3>4. t = b
      BY <1>2, <2>7, <3>1, <3>2, <3>3 DEF Matching, Rivals
    <3>5. Cell(row, a.col) = Cell(turned, b.col)
      BY <2>2, <2>6, <3>1, <3>3, <3>4
    <3> QED
      BY <3>5 DEF a, b
  <2> DEFINE mine(f)  == Cell(row, (CHOOSE m \in ours : m.field = f).col)
             yours(f) == Cell(turned, (CHOOSE t \in theirs : t.field = f).col)
             named    == {m.field : m \in ours}
             known    == {t.field : t \in theirs}
  <2>10. Project(row, M).fields = [f \in named |-> mine(f)]
    BY DEF Project, ours
  <2>11. Project(turned, T).fields = [f \in known |-> yours(f)]
    BY DEF Project, theirs
  <2>12. named = known /\ \A f \in named : mine(f) = yours(f)
    BY <2>8, <2>9
  <2> HIDE DEF mine, yours, named, known
  <2>13. Project(row, M).fields = Project(turned, T).fields
    BY <2>10, <2>11, <2>12
  <2> QED
    BY <2>13 DEF row, turned
<1> QED
  BY <1>1, <1>4 DEF M, T

(***************************************************************************)
(* What the parsers return.                                                *)
(***************************************************************************)

Number == Int \cup {Null}

(* The places of a text, and those of its numbers.                         *)
LEMMA TextIs ==
  ASSUME NEW t \in Readable
  PROVE  /\ Len(t) \in Nat /\ DOMAIN t = 1 .. Len(t)
         /\ \A i \in DOMAIN t : t[i].n \in Nat
         /\ numbers(t) \in SUBSET Nat /\ numbers(t) \subseteq DOMAIN t
<1> DEFINE L == [n : Nat, w : Words]
<1>1. t \in Seq(L)
  BY DEF Readable
<1>2. Len(t) \in Nat /\ DOMAIN t = 1 .. Len(t) /\ \A i \in 1 .. Len(t) : t[i] \in L
  BY <1>1, Elements, Zenon
<1>3. \A l \in L : l.n \in Nat
  OBVIOUS
<1> HIDE DEF L
<1> QED
  BY <1>2, <1>3 DEF numbers

(* A number with its sign is an integer.                                   *)
LEMMA SignedType ==
  ASSUME NEW t \in Readable, NEW i \in DOMAIN t
  PROVE  signed(t, i) \in Int
<1>1. t[i].n \in Nat
  BY TextIs
<1> QED
  BY <1>1 DEF signed

(* A cell is read as a number or as nothing,                               *)
LEMMA DecimalType ==
  ASSUME NEW t \in Readable
  PROVE  parse_decimal(t) \in Number
<1>1. CASE numbers(t) = {}
  BY <1>1 DEF parse_decimal, Number
<1>2. CASE numbers(t) # {}
  <2>1. First(numbers(t)) \in DOMAIN t
    BY <1>2, TextIs, FirstIs
  <2>2. signed(t, First(numbers(t))) \in Int
    BY <2>1, SignedType
  <2> QED
    BY <1>2, <2>2 DEF parse_decimal, Number
<1> QED
  BY <1>1, <1>2

(* a price band as two of them.                                            *)
LEMMA BandType ==
  ASSUME NEW t \in Readable
  PROVE  parse_price_band(t)[1] \in Number /\ parse_price_band(t)[2] \in Number
<1>1. CASE Ranges(t) = {}
  <2>1. parse_price_band(t) = <<parse_decimal(t), parse_decimal(t)>>
    BY <1>1 DEF parse_price_band
  <2> QED
    BY <2>1, DecimalType
<1>2. CASE Ranges(t) # {}
  <2> DEFINE f == First(Ranges(t))
             a == t[f].n
             b == t[f + 2].n
  <2>1. \A i \in Ranges(t) : i \in numbers(t) /\ i + 2 \in numbers(t)
    BY DEF Ranges, before
  <2>2. Ranges(t) \in SUBSET Nat
    BY <2>1, TextIs
  <2>3. f \in Ranges(t)
    BY <1>2, <2>2, FirstIs
  <2>4. parse_price_band(t) = IF a <= b THEN <<a, b>> ELSE <<b, a>>
    BY <1>2 DEF parse_price_band
  <2>5. a \in Nat /\ b \in Nat
    BY <2>1, <2>3, TextIs
  <2> HIDE DEF a, b, f
  <2> QED
    BY <2>4, <2>5 DEF Number
<1> QED
  BY <1>1, <1>2

(* The lower end of a band is no more than its upper end, and both are     *)
(* known or none.                                                          *)
LEMMA BandOrder ==
  ASSUME NEW t \in Readable
  PROVE  LET band == parse_price_band(t)
         IN  /\ band[1] = Null <=> band[2] = Null
             /\ band[1] # Null => band[1] <= band[2]
<1>1. CASE Ranges(t) = {}
  <2>1. parse_price_band(t) = <<parse_decimal(t), parse_decimal(t)>>
    BY <1>1 DEF parse_price_band
  <2>2. parse_decimal(t) \in Int \cup {Null}
    BY DecimalType DEF Number
  <2> QED
    BY <2>1, <2>2
<1>2. CASE Ranges(t) # {}
  <2> DEFINE f == First(Ranges(t))
             a == t[f].n
             b == t[f + 2].n
  <2>1. \A i \in Ranges(t) : i \in numbers(t) /\ i + 2 \in numbers(t)
    BY DEF Ranges, before
  <2>2. Ranges(t) \in SUBSET Nat
    BY <2>1, TextIs
  <2>3. f \in Ranges(t)
    BY <1>2, <2>2, FirstIs
  <2>4. parse_price_band(t) = IF a <= b THEN <<a, b>> ELSE <<b, a>>
    BY <1>2 DEF parse_price_band
  <2>5. a \in Nat /\ b \in Nat
    BY <2>1, <2>3, TextIs
  <2> HIDE DEF a, b, f
  <2> QED
    BY <2>4, <2>5, NullAssumption
<1> QED
  BY <1>1, <1>2

(***************************************************************************)
(* Dates.                                                                  *)
(***************************************************************************)

(* The ordinal of a date is an integer,                                    *)
LEMMA OrdinalType ==
  ASSUME NEW y \in Int, NEW m \in Int, NEW d \in Int
  PROVE  Ordinal(y, m, d) \in Int
BY DEF Ordinal

(* and a date that there is not is nothing.                                *)
LEMMA SafeDateType ==
  ASSUME NEW y \in Int, NEW m \in Int, NEW d \in Int
  PROVE  _safe_date(y, m, d) \in Number
BY OrdinalType DEF _safe_date, Number

(* Each day is of a year, and the year is in the range that is searched.   *)
LEMMA NewYear ==
  ASSUME NEW y \in Nat \ {0}
  PROVE  /\ Ordinal(y, 1, 1) \in Int
         /\ 365 * (y - 1) + 1 <= Ordinal(y, 1, 1) /\ Ordinal(y, 1, 1) <= 366 * (y - 1) + 1
<1> DEFINE a == y - 1
<1>1. a \in Nat
  OBVIOUS
<1>2. Ordinal(y, 1, 1) = 365 * a + a \div 4 - a \div 100 + a \div 400 + 5 \div 12 + 1
  BY DEF Ordinal
<1>3. 5 \div 12 = 0
  OBVIOUS
<1> HIDE DEF a
<1>4. /\ a \div 4 \in Int /\ a \div 100 \in Int /\ a \div 400 \in Int
      /\ 0 <= a \div 4 - a \div 100 + a \div 400 /\ a \div 4 - a \div 100 + a \div 400 <= a
  BY <1>1
<1> QED
  BY <1>1, <1>2, <1>3, <1>4 DEF a

(* Every day is in a year.                                                 *)
LEMMA YearExists ==
  ASSUME NEW day \in Nat \ {0}
  PROVE  \E y \in Nat \ {0} : Ordinal(y, 1, 1) <= day /\ day < Ordinal(y + 1, 1, 1)
<1> DEFINE S == {y \in 1 .. day : Ordinal(y, 1, 1) <= day}
<1>1. S \in SUBSET (1 .. day) /\ S # {}
  <2>1. Ordinal(1, 1, 1) <= 1
    BY NewYear
  <2>2. Ordinal(1, 1, 1) \in Int
    BY NewYear
  <2> QED
    BY <2>1, <2>2
<1>2. PICK y \in S : \A z \in S : z <= y
  <2> HIDE DEF S
  <2> QED
    BY <1>1, LastExists
<1>3. y \in Nat \ {0} /\ y + 1 \in Nat \ {0} /\ y <= day /\ Ordinal(y, 1, 1) <= day
  BY <1>2
<1>4. /\ 365 * (y - 1) + 1 <= Ordinal(y, 1, 1) /\ Ordinal(y, 1, 1) \in Int
      /\ 365 * y + 1 <= Ordinal(y + 1, 1, 1) /\ Ordinal(y + 1, 1, 1) <= 366 * y + 1
      /\ Ordinal(y + 1, 1, 1) \in Int
  <2>1. (y + 1) - 1 = y
    BY <1>3
  <2> QED
    BY <1>3, <2>1, NewYear
<1>5. day < Ordinal(y + 1, 1, 1)
  <2> SUFFICES ASSUME Ordinal(y + 1, 1, 1) <= day PROVE FALSE
    BY <1>4
  <2>1. y + 1 \in 1 .. day
    BY <1>3, <1>4
  <2>2. y + 1 \in S
    BY <2>1
  <2> QED
    BY <1>2, <1>3, <2>2
<1> QED
  BY <1>3, <1>5

\* The leap days of the years up to a.
LeapDays(a) == a \div 4 - a \div 100 + a \div 400

(* Leap days only add up.                                                  *)
LEMMA LeapDaysGrow ==
  ASSUME NEW a \in Int, NEW b \in Int, a <= b
  PROVE  LeapDays(a) \in Int /\ LeapDays(b) \in Int /\ LeapDays(a) <= LeapDays(b)
<1> DEFINE p == a \div 100
           r == a % 100
           q == b \div 100
           s == b % 100
<1>1. /\ p \in Int /\ q \in Int /\ r \in 0 .. 99 /\ s \in 0 .. 99
      /\ a = 100 * p + r /\ b = 100 * q + s
  OBVIOUS
<1>2. a \div 4 = 25 * p + r \div 4 /\ b \div 4 = 25 * q + s \div 4
  BY <1>1
<1>3. a \div 400 = p \div 4 /\ b \div 400 = q \div 4
  BY <1>1
<1>4. LeapDays(a) = 24 * p + r \div 4 + p \div 4 /\ LeapDays(b) = 24 * q + s \div 4 + q \div 4
  BY <1>2, <1>3, <1>1 DEF LeapDays
<1> HIDE DEF p, q, r, s
<1>5. p < q \/ (p = q /\ r <= s)
  BY <1>1
<1> QED
  BY <1>1, <1>4, <1>5

(* A leap year has one.                                                    *)
LEMMA LeapDay ==
  ASSUME NEW y \in Int
  PROVE  LeapDays(y) = LeapDays(y - 1) + (IF Leap(y) THEN 1 ELSE 0)
<1> DEFINE p == y \div 400
           r == y % 400
<1>1. p \in Int /\ r \in 0 .. 399 /\ y = 400 * p + r
  OBVIOUS
<1> HIDE DEF p, r
<1>2. /\ y \div 4 = 100 * p + r \div 4 /\ y \div 100 = 4 * p + r \div 100 /\ y \div 400 = p
      /\ y % 4 = r % 4 /\ y % 100 = r % 100 /\ y % 400 = r
  BY <1>1
<1>3. CASE r = 0
  <2>1. /\ (y - 1) \div 4 = 100 * p - 1 /\ (y - 1) \div 100 = 4 * p - 1 /\ (y - 1) \div 400 = p - 1
    BY <1>1, <1>3
  <2> QED
    BY <1>1, <1>2, <1>3, <2>1 DEF LeapDays, Leap
<1>4. CASE r # 0
  <2>1. r - 1 \in 0 .. 398
    BY <1>1, <1>4
  <2>2. /\ (y - 1) \div 4 = 100 * p + (r - 1) \div 4 /\ (y - 1) \div 100 = 4 * p + (r - 1) \div 100
        /\ (y - 1) \div 400 = p
    BY <1>1, <2>1
  <2>3. r \div 4 = (r - 1) \div 4 + (IF r % 4 = 0 THEN 1 ELSE 0)
    BY <2>1
  <2>4. r \div 100 = (r - 1) \div 100 + (IF r % 100 = 0 THEN 1 ELSE 0)
    BY <2>1
  <2>5. r % 100 = 0 => r % 4 = 0
    BY <1>1
  <2> QED
    BY <1>1, <1>2, <1>4, <2>2, <2>3, <2>4, <2>5 DEF LeapDays, Leap
<1> QED
  BY <1>3, <1>4

\* The days before a month, were February to have thirty.
Before(m) == (367 * m - 362) \div 12

\* A date by the leap days before it.
Counted(y, m, d) ==
  IF m <= 2 THEN 365 * (y - 1) + LeapDays(y - 1) + Before(m) + d
  ELSE 365 * (y - 1) + LeapDays(y) + Before(m) + d - 2

(* It is the ordinal of the date.                                          *)
LEMMA OrdinalIs ==
  ASSUME NEW y \in Int, NEW m \in 1 .. 12, NEW d \in Int
  PROVE  Before(m) \in Int /\ Ordinal(y, m, d) = Counted(y, m, d)
<1>1. Before(m) \in Int /\ LeapDays(y - 1) \in Int
  BY DEF Before, LeapDays
<1>2. Ordinal(y, m, d) = 365 * (y - 1) + LeapDays(y - 1) + Before(m) + d
                           + (IF m <= 2 THEN 0 ELSE IF Leap(y) THEN -1 ELSE -2)
  BY DEF Ordinal, LeapDays, Before
<1> QED
  BY <1>1, <1>2, LeapDay DEF Counted

(* The same day of a later year is at least as many times 365 days later.  *)
LEMMA YearsApart ==
  ASSUME NEW y \in Int, NEW z \in Int, y <= z, NEW m \in 1 .. 12, NEW d \in Int
  PROVE  Ordinal(z, m, d) - Ordinal(y, m, d) >= 365 * (z - y)
<1>1. LeapDays(y - 1) <= LeapDays(z - 1) /\ LeapDays(y) <= LeapDays(z)
  BY LeapDaysGrow
<1>2. LeapDays(y - 1) \in Int /\ LeapDays(z - 1) \in Int /\ LeapDays(y) \in Int /\ LeapDays(z) \in Int
  BY DEF LeapDays
<1>3. Before(m) \in Int /\ Ordinal(y, m, d) = Counted(y, m, d)
  BY OrdinalIs
<1>4. Before(m) \in Int /\ Ordinal(z, m, d) = Counted(z, m, d)
  BY OrdinalIs
<1> DEFINE j == LeapDays(y - 1)
           k == LeapDays(z - 1)
           u == LeapDays(y)
           v == LeapDays(z)
           b == Before(m)
<1>5. CASE m <= 2
  <2>1. /\ Ordinal(y, m, d) = 365 * (y - 1) + j + b + d
        /\ Ordinal(z, m, d) = 365 * (z - 1) + k + b + d
    BY <1>3, <1>4, <1>5 DEF Counted
  <2>2. j \in Int /\ k \in Int /\ b \in Int /\ j <= k
    BY <1>1, <1>2, <1>3
  <2> HIDE DEF j, k, b
  <2> QED
    BY <2>1, <2>2
<1>6. CASE ~(m <= 2)
  <2>1. /\ Ordinal(y, m, d) = 365 * (y - 1) + u + b + d - 2
        /\ Ordinal(z, m, d) = 365 * (z - 1) + v + b + d - 2
    BY <1>3, <1>4, <1>6 DEF Counted
  <2>2. u \in Int /\ v \in Int /\ b \in Int /\ u <= v
    BY <1>1, <1>2, <1>3
  <2> HIDE DEF u, v, b
  <2> QED
    BY <2>1, <2>2
<1> QED
  BY <1>5, <1>6

(* Every day of a year is in it.                                           *)
LEMMA DayInYear ==
  ASSUME NEW y \in Int, NEW m \in 1 .. 12, NEW d \in Int, 1 <= d, d <= MonthLength(y, m)
  PROVE  Ordinal(y, 1, 1) <= Ordinal(y, m, d) /\ Ordinal(y, m, d) < Ordinal(y + 1, 1, 1)
<1>0. Before(m) \in Int /\ Ordinal(y, m, d) = Counted(y, m, d)
  BY OrdinalIs
<1> DEFINE leap == IF Leap(y) THEN 1 ELSE 0
<1>1. leap \in {0, 1} /\ LeapDays(y - 1) \in Int /\ LeapDays(y) = LeapDays(y - 1) + leap
  <2>1. y - 1 \in Int /\ y - 1 <= y - 1 /\ leap \in {0, 1}
    OBVIOUS
  <2>2. LeapDays(y - 1) \in Int
    BY <2>1, LeapDaysGrow
  <2> QED
    BY <2>1, <2>2, LeapDay
<1>2. /\ Before(1) = 0 /\ Before(2) = 31 /\ Before(3) = 61 /\ Before(4) = 92 /\ Before(5) = 122
      /\ Before(6) = 153 /\ Before(7) = 183 /\ Before(8) = 214 /\ Before(9) = 245
      /\ Before(10) = 275 /\ Before(11) = 306 /\ Before(12) = 336
  BY DEF Before
<1>3. MonthLength(y, m) = IF m = 2 THEN 28 + leap ELSE IF m \in {4, 6, 9, 11} THEN 30 ELSE 31
  BY DEF MonthLength
<1>4. d \in Int /\ 1 <= d /\ d <= MonthLength(y, m)
  OBVIOUS
<1> DEFINE start == 365 * (y - 1) + LeapDays(y - 1)
<1>5. /\ Ordinal(y, 1, 1) = start + 1 /\ Ordinal(y + 1, 1, 1) = start + 366 + leap /\ start \in Int
  <2>1. (y + 1) - 1 = y
    OBVIOUS
  <2>2. /\ Ordinal(y, 1, 1) = 365 * (y - 1) + LeapDays(y - 1) + Before(1) + 1
        /\ Ordinal(y + 1, 1, 1) = 365 * ((y + 1) - 1) + LeapDays((y + 1) - 1) + Before(1) + 1
    <3>1. 1 \in 1 .. 12 /\ 1 \in Int /\ y + 1 \in Int /\ 1 <= 2
      OBVIOUS
    <3> QED
      BY <3>1, OrdinalIs DEF Counted
  <2> QED
    BY <1>1, <1>2, <2>1, <2>2
<1>7. CASE m <= 2
  <2>1. m = 1 \/ m = 2
    BY <1>7
  <2>2. Before(m) >= 0 /\ Before(m) + MonthLength(y, m) <= 60 + leap
    BY <1>1, <1>2, <1>3, <2>1
  <2>3. Ordinal(y, m, d) = start + Before(m) + d
    BY <1>0, <1>7 DEF Counted
  <2>4. 0 <= leap /\ leap <= 1 /\ leap \in Int /\ MonthLength(y, m) \in Int
    BY <1>1, <1>3
  <2> HIDE DEF start, leap
  <2> QED
    BY <1>4, <1>5, <1>0, <2>2, <2>3, <2>4
<1>8. CASE m > 2
  <2>1. \/ m = 3 \/ m = 4 \/ m = 5 \/ m = 6 \/ m = 7 \/ m = 8 \/ m = 9 \/ m = 10 \/ m = 11 \/ m = 12
    BY <1>8
  <2>2. Before(m) >= 61 /\ Before(m) + MonthLength(y, m) <= 367
    BY <1>2, <1>3, <2>1
  <2>3. Ordinal(y, m, d) = start + leap + Before(m) + d - 2
    BY <1>1, <1>4, <1>0, <1>8 DEF Counted
  <2>4. 0 <= leap /\ leap <= 1 /\ leap \in Int /\ MonthLength(y, m) \in Int
    BY <1>1, <1>3
  <2> HIDE DEF start, leap
  <2> QED
    BY <1>4, <1>5, <1>0, <2>2, <2>3, <2>4
<1> QED
  BY <1>7, <1>8

(* YearOf finds the year of a day.                                         *)
LEMMA YearOfDay ==
  ASSUME NEW y \in Nat \ {0}, NEW day \in Nat \ {0},
         Ordinal(y, 1, 1) <= day, day < Ordinal(y + 1, 1, 1)
  PROVE  YearOf(day) = y
<1> DEFINE In(z) == Ordinal(z, 1, 1) <= day /\ day < Ordinal(z + 1, 1, 1)
           range == (day \div 366) .. (day \div 365 + 1)
<1>1. y \in range
  <2>1. /\ 365 * (y - 1) + 1 <= Ordinal(y, 1, 1) /\ Ordinal(y, 1, 1) \in Int
        /\ Ordinal(y + 1, 1, 1) <= 366 * y + 1 /\ Ordinal(y + 1, 1, 1) \in Int
    <3>1. (y + 1) - 1 = y /\ y + 1 \in Nat \ {0}
      OBVIOUS
    <3> QED
      BY <3>1, NewYear
  <2>2. 365 * (y - 1) + 1 <= day /\ day <= 366 * y
    BY <2>1
  <2> QED
    BY <2>2
<1>2. ASSUME NEW z \in range, In(z) PROVE z = y
  <2>1. z \in Int /\ z + 1 \in Int /\ y \in Int /\ y + 1 \in Int /\ 1 \in Int /\ 1 \in 1 .. 12
    OBVIOUS
  <2>2. /\ Ordinal(z, 1, 1) \in Int /\ Ordinal(z + 1, 1, 1) \in Int
        /\ Ordinal(y, 1, 1) \in Int /\ Ordinal(y + 1, 1, 1) \in Int
    BY <2>1, OrdinalType
  <2>3. CASE z < y
    <3>1. z + 1 <= y
      BY <2>1, <2>3
    <3>2. Ordinal(y, 1, 1) - Ordinal(z + 1, 1, 1) >= 365 * (y - (z + 1))
      BY <2>1, <3>1, YearsApart
    <3> QED
      BY <1>2, <2>1, <2>2, <3>1, <3>2
  <2>4. CASE y < z
    <3>1. y + 1 <= z
      BY <2>1, <2>4
    <3>2. Ordinal(z, 1, 1) - Ordinal(y + 1, 1, 1) >= 365 * (z - (y + 1))
      BY <2>1, <3>1, YearsApart
    <3> QED
      BY <1>2, <2>1, <2>2, <3>1, <3>2
  <2> QED
    BY <2>1, <2>3, <2>4
<1>3. In(y)
  OBVIOUS
<1>4. YearOf(day) = CHOOSE z \in range : In(z)
  BY DEF YearOf
<1> HIDE DEF In, range
<1> QED
  BY <1>1, <1>2, <1>3, <1>4, Zenon

(* YearOf finds the year of any day.                                       *)
LEMMA YearBounds ==
  ASSUME NEW day \in Nat \ {0}
  PROVE  /\ YearOf(day) \in Nat \ {0}
         /\ Ordinal(YearOf(day), 1, 1) <= day /\ day < Ordinal(YearOf(day) + 1, 1, 1)
<1>1. PICK y \in Nat \ {0} : Ordinal(y, 1, 1) <= day /\ day < Ordinal(y + 1, 1, 1)
  BY YearExists
<1>2. YearOf(day) = y
  BY <1>1, YearOfDay
<1> QED
  BY <1>1, <1>2

(* So YearOf chooses something.                                            *)
LEMMA YearIs ==
  ASSUME NEW day \in Nat \ {0}
  PROVE  YearOf(day) \in Int
BY YearBounds

(* The distance of two numbers is a natural number.                        *)
LEMMA DistanceType ==
  ASSUME NEW a \in Int, NEW b \in Int
  PROVE  Distance(a, b) \in Nat
BY DEF Distance

(* Of three years one is the nearest.                                      *)
LEMMA NearestExists ==
  ASSUME NEW y \in Int, NEW S \in SUBSET (y - 1 .. y + 1), S # {},
         NEW far, \A z \in S : far[z] \in Int
  PROVE  \E x \in S : \A z \in S : far[x] < far[z] \/ (far[x] = far[z] /\ x <= z)
<1> DEFINE Beats(x, z) == far[x] < far[z] \/ (far[x] = far[z] /\ x <= z)
           a == y - 1
           c == y + 1
<1>1. S \subseteq {a, y, c} /\ a \in Int /\ c \in Int
  OBVIOUS
<1> HIDE DEF a, c
<1>2. ASSUME NEW x \in S, NEW z \in S PROVE Beats(x, z) \/ Beats(z, x)
  <2>1. x \in Int /\ z \in Int /\ far[x] \in Int /\ far[z] \in Int
    BY <1>1
  <2> QED
    BY <2>1
<1>3. ASSUME NEW x \in S, NEW z \in S, NEW w \in S, Beats(x, z), Beats(z, w) PROVE Beats(x, w)
  <2>1. /\ x \in Int /\ z \in Int /\ w \in Int
        /\ far[x] \in Int /\ far[z] \in Int /\ far[w] \in Int
    BY <1>1
  <2> QED
    BY <1>3, <2>1
<1> HIDE DEF Beats
<1>4. ASSUME NEW u \in S, NEW v \in S, NEW w \in S
      PROVE  \E x \in S : Beats(x, u) /\ Beats(x, v) /\ Beats(x, w)
  <2>1. PICK x \in S : Beats(x, u) /\ Beats(x, v)
    BY <1>2
  <2>2. CASE Beats(x, w)
    BY <2>1, <2>2
  <2>3. CASE Beats(w, x)
    <3>1. Beats(w, u) /\ Beats(w, v) /\ Beats(w, w)
      BY <1>2, <1>3, <2>1, <2>3
    <3> QED
      BY <3>1
  <2> QED
    BY <1>2, <2>2, <2>3
<1>5. PICK o \in S : TRUE
  OBVIOUS
<1> DEFINE In(x) == IF x \in S THEN x ELSE o
<1>6. In(a) \in S /\ In(y) \in S /\ In(c) \in S /\ S \subseteq {In(a), In(y), In(c)}
  BY <1>1
<1> HIDE DEF In
<1>7. PICK x \in S : Beats(x, In(a)) /\ Beats(x, In(y)) /\ Beats(x, In(c))
  BY <1>4, <1>6
<1>8. \A z \in S : Beats(x, z)
  BY <1>6, <1>7
<1> QED
  BY <1>8 DEF Beats

(* A date without a year gets one, or is none.                             *)
LEMMA InferType ==
  ASSUME NEW m \in Int, NEW d \in Int, NEW reference \in Nat \ {0}
  PROVE  _infer_year(m, d, reference) \in Number
<1> DEFINE now   == YearOf(reference)
           years == {y \in now - 1 .. now + 1 : _safe_date(y, m, d) # Null}
           far(y) == Distance(Ordinal(y, m, d), reference)
           best  == CHOOSE y \in years : \A z \in years : far(y) < far(z) \/ (far(y) = far(z) /\ y <= z)
<1>1. _infer_year(m, d, reference) = IF years = {} THEN Null ELSE Ordinal(best, m, d)
  BY DEF _infer_year
<1>2. now \in Int
  BY YearIs
<1> HIDE DEF now
<1>3. CASE years = {}
  BY <1>1, <1>3 DEF Number
<1>4. CASE years # {}
  <2>1. years \in SUBSET (now - 1 .. now + 1) /\ years \subseteq Int
    BY <1>2
  <2> DEFINE f == [y \in years |-> far(y)]
  <2> HIDE DEF years
  <2>2. ASSUME NEW z \in years PROVE f[z] = far(z) /\ f[z] \in Int
    <3>1. Ordinal(z, m, d) \in Int /\ reference \in Int
      BY <2>1, OrdinalType
    <3>2. far(z) \in Nat
      BY <3>1, DistanceType
    <3>3. f[z] = far(z)
      OBVIOUS
    <3> HIDE DEF f, far
    <3> QED
      BY <3>2, <3>3
  <2> HIDE DEF f, far
  <2>3. \E y \in years : \A z \in years : f[y] < f[z] \/ (f[y] = f[z] /\ y <= z)
    BY <1>2, <1>4, <2>1, <2>2, NearestExists
  <2>4. \E y \in years : \A z \in years : far(y) < far(z) \/ (far(y) = far(z) /\ y <= z)
    BY <2>2, <2>3
  <2>5. best \in years
    BY <2>4, Zenon
  <2> HIDE DEF best
  <2>6. Ordinal(best, m, d) \in Int
    BY <2>1, <2>5, OrdinalType
  <2> QED
    BY <1>1, <1>4, <2>6 DEF Number
<1> QED
  BY <1>3, <1>4

(* A day within half a year of the reference is found without its year.    *)
LEMMA NearestYear ==
  ASSUME NEW y \in Nat \ {0}, NEW m \in 1 .. 12, NEW d \in Int, 1 <= d, d <= MonthLength(y, m),
         NEW reference \in Nat \ {0}, Distance(Ordinal(y, m, d), reference) <= 182
  PROVE  _infer_year(m, d, reference) = Ordinal(y, m, d)
<1> DEFINE now   == YearOf(reference)
           day   == Ordinal(y, m, d)
           years == {z \in now - 1 .. now + 1 : _safe_date(z, m, d) # Null}
           far(z) == Distance(Ordinal(z, m, d), reference)
           Nearest(z) == \A w \in years : far(z) < far(w) \/ (far(z) = far(w) /\ z <= w)
           best  == CHOOSE z \in years : Nearest(z)
<1>1. _infer_year(m, d, reference) = IF years = {} THEN Null ELSE Ordinal(best, m, d)
  BY DEF _infer_year
<1>2. y \in Int /\ y + 1 \in Int /\ day \in Int /\ reference \in Int /\ m \in Int
  BY OrdinalType
<1>3. now \in Nat \ {0} /\ Ordinal(now, 1, 1) <= reference /\ reference < Ordinal(now + 1, 1, 1)
  BY YearBounds
<1>4. Ordinal(y, 1, 1) <= day /\ day < Ordinal(y + 1, 1, 1)
  BY <1>2, DayInYear
<1>5. day - 182 <= reference /\ reference <= day + 182
  BY <1>2 DEF Distance
<1> HIDE DEF now, day
<1>6. y \in now - 1 .. now + 1
  <2>1. now \in Int /\ now + 1 \in Int /\ 1 \in Int /\ 1 \in 1 .. 12
    BY <1>3
  <2>2. /\ Ordinal(now, 1, 1) \in Int /\ Ordinal(now + 1, 1, 1) \in Int
        /\ Ordinal(y, 1, 1) \in Int /\ Ordinal(y + 1, 1, 1) \in Int
    BY <1>2, <2>1, OrdinalType
  <2>3. ~(y >= now + 2)
    <3> SUFFICES ASSUME now + 2 <= y PROVE FALSE
      BY <1>2, <2>1
    <3>1. now + 1 <= y /\ y - (now + 1) >= 1
      BY <1>2, <2>1
    <3>2. Ordinal(y, 1, 1) - Ordinal(now + 1, 1, 1) >= 365 * (y - (now + 1))
      BY <1>2, <2>1, <3>1, YearsApart
    <3> QED
      BY <1>2, <1>3, <1>4, <1>5, <2>1, <2>2, <3>1, <3>2
  <2>4. ~(y <= now - 2)
    <3> SUFFICES ASSUME y <= now - 2 PROVE FALSE
      BY <1>2, <2>1
    <3>1. y + 1 <= now /\ now - (y + 1) >= 1
      BY <1>2, <2>1
    <3>2. Ordinal(now, 1, 1) - Ordinal(y + 1, 1, 1) >= 365 * (now - (y + 1))
      BY <1>2, <2>1, <3>1, YearsApart
    <3> QED
      BY <1>2, <1>3, <1>4, <1>5, <2>1, <2>2, <3>1, <3>2
  <2> QED
    BY <1>2, <2>1, <2>3, <2>4
<1>7. y \in years
  <2>1. _safe_date(y, m, d) = day
    BY <1>2 DEF _safe_date, day
  <2>2. day # Null
    BY <1>2, NullAssumption
  <2> QED
    BY <1>6, <2>1, <2>2
<1>8. ASSUME NEW z \in years, z # y PROVE far(y) < far(z) /\ far(y) \in Int /\ far(z) \in Int
  <2>1. z \in Int /\ Ordinal(z, m, d) \in Int
    <3>1. z \in Int
      BY <1>3
    <3> QED
      BY <3>1, OrdinalType
  <2>2. CASE z < y
    <3>1. z <= y /\ y - z >= 1
      BY <1>2, <2>1, <2>2
    <3>2. Ordinal(y, m, d) - Ordinal(z, m, d) >= 365 * (y - z)
      BY <1>2, <2>1, <3>1, YearsApart
    <3>3. day - Ordinal(z, m, d) >= 365
      BY <1>2, <2>1, <3>1, <3>2 DEF day
    <3> QED
      BY <1>2, <1>5, <2>1, <3>3 DEF Distance, day
  <2>3. CASE y < z
    <3>1. y <= z /\ z - y >= 1
      BY <1>2, <2>1, <2>3
    <3>2. Ordinal(z, m, d) - Ordinal(y, m, d) >= 365 * (z - y)
      BY <1>2, <2>1, <3>1, YearsApart
    <3>3. Ordinal(z, m, d) - day >= 365
      BY <1>2, <2>1, <3>1, <3>2 DEF day
    <3> QED
      BY <1>2, <1>5, <2>1, <3>3 DEF Distance, day
  <2> QED
    BY <1>2, <1>8, <2>1, <2>2, <2>3
<1> HIDE DEF years, far
<1>9. Nearest(y)
  BY <1>2, <1>8
<1>10. ASSUME NEW z \in years, Nearest(z) PROVE z = y
  BY <1>2, <1>7, <1>8, <1>10
<1> HIDE DEF Nearest
<1>11. best = y
  BY <1>7, <1>9, <1>10, Zenon
<1> QED
  BY <1>1, <1>7, <1>11 DEF day

(* The names of the months are those of numbers.                           *)
LEMMA MonthType == \A w \in MONTH_NAMES : _MONTHS[w] \in Int
BY DEF MONTH_NAMES, _MONTHS

(* A year of two figures becomes one of four.                              *)
LEMMA YearType ==
  ASSUME NEW y \in Int
  PROVE  _expand_year(y) \in Int
BY DEF _expand_year

(* A day and the name of a month are a date or nothing,                    *)
LEMMA NamedType ==
  ASSUME NEW t \in Readable, NEW word, word.w \in MONTH_NAMES, NEW day, day.n \in Int, NEW i,
         NEW reference \in Nat \ {0}
  PROVE  Named(t, word, day, i, reference) \in Number
<1> DEFINE m == _MONTHS[word.w]
           y == Skip(t, i, Comma)
<1>1. m \in Int
  BY MonthType
<1>2. Named(t, word, day, i, reference) =
        IF y \in numbers(t) /\ t[y].n <= 9999 THEN _safe_date(_expand_year(t[y].n), m, day.n)
        ELSE _infer_year(m, day.n, reference)
  BY DEF Named
<1> HIDE DEF m, y
<1>3. CASE y \in numbers(t) /\ t[y].n <= 9999
  <2>1. t[y].n \in Int
    BY <1>3, TextIs
  <2>2. _expand_year(t[y].n) \in Int
    BY <2>1, YearType
  <2>3. _safe_date(_expand_year(t[y].n), m, day.n) \in Number
    BY <1>1, <2>2, SafeDateType
  <2> QED
    BY <1>2, <1>3, <2>3
<1>4. CASE ~(y \in numbers(t) /\ t[y].n <= 9999)
  <2>1. _infer_year(m, day.n, reference) \in Number
    BY <1>1, InferType
  <2> QED
    BY <1>2, <1>4, <2>1
<1> QED
  BY <1>3, <1>4

(* and so is every text, whichever of its forms it has.                    *)
LEMMA DateType ==
  ASSUME NEW t \in Readable, NEW reference \in Nat \ {0}
  PROVE  parse_date(t, reference) \in Number
<1> DEFINE iso == First(IsoAt(t))
           df  == First(DayFirst(t))
           dfw == Skip(t, df + 1, Slash)
           mf  == First(MonthFirst(t))
           num == First(NumericAt(t))
           whole == _safe_date(t[iso].n, t[iso + 2].n, t[iso + 4].n)
           short == _safe_date(_expand_year(t[num + 4].n), t[num + 2].n, t[num].n)
           dayed == Named(t, t[dfw], t[df], dfw + 1, reference)
           named == Named(t, t[mf], t[mf + 1], mf + 2, reference)
<1>1. \/ parse_date(t, reference) = Null
      \/ IsoAt(t) # {} /\ parse_date(t, reference) = whole
      \/ DayFirst(t) # {} /\ t[dfw].w \in MONTH_NAMES /\ parse_date(t, reference) = dayed
      \/ MonthFirst(t) # {} /\ t[mf].w \in MONTH_NAMES /\ parse_date(t, reference) = named
      \/ NumericAt(t) # {} /\ parse_date(t, reference) = short
  BY DEF parse_date
<1>2. \A i \in numbers(t) : i \in Nat /\ t[i].n \in Int
  BY TextIs
<1>3. ASSUME IsoAt(t) # {} PROVE whole \in Number
  <2>1. \A i \in IsoAt(t) : i \in numbers(t) /\ i + 2 \in numbers(t) /\ i + 4 \in numbers(t)
    BY DEF IsoAt, before, Small
  <2>2. IsoAt(t) \in SUBSET Nat
    BY <1>2, <2>1
  <2>3. iso \in IsoAt(t)
    BY <1>3, <2>2, FirstIs
  <2> HIDE DEF iso
  <2>4. t[iso].n \in Int /\ t[iso + 2].n \in Int /\ t[iso + 4].n \in Int
    BY <1>2, <2>1, <2>3
  <2> QED
    BY <2>4, SafeDateType
<1>4. ASSUME NumericAt(t) # {} PROVE short \in Number
  <2>1. \A i \in NumericAt(t) : i \in numbers(t) /\ i + 2 \in numbers(t) /\ i + 4 \in numbers(t)
    BY DEF NumericAt, before, Small
  <2>2. NumericAt(t) \in SUBSET Nat
    BY <1>2, <2>1
  <2>3. num \in NumericAt(t)
    BY <1>4, <2>2, FirstIs
  <2> HIDE DEF num
  <2>4. t[num].n \in Int /\ t[num + 2].n \in Int /\ t[num + 4].n \in Int
    BY <1>2, <2>1, <2>3
  <2>5. _expand_year(t[num + 4].n) \in Int
    BY <2>4, YearType
  <2> QED
    BY <2>4, <2>5, SafeDateType
<1>5. ASSUME DayFirst(t) # {}, t[dfw].w \in MONTH_NAMES PROVE dayed \in Number
  <2>1. \A i \in DayFirst(t) : i \in numbers(t)
    BY DEF DayFirst, Small
  <2>2. DayFirst(t) \in SUBSET Nat
    BY <1>2, <2>1
  <2>3. df \in DayFirst(t)
    BY <1>5, <2>2, FirstIs
  <2>4. t[df].n \in Int
    BY <1>2, <2>1, <2>3
  <2> HIDE DEF df, dfw
  <2> QED
    BY <1>5, <2>4, NamedType
<1>6. ASSUME MonthFirst(t) # {}, t[mf].w \in MONTH_NAMES PROVE named \in Number
  <2>1. \A i \in MonthFirst(t) : i \in DOMAIN t /\ i + 1 \in numbers(t)
    BY DEF MonthFirst, LongWord, Small
  <2>2. MonthFirst(t) \in SUBSET Nat
    BY <2>1, TextIs
  <2>3. mf \in MonthFirst(t)
    BY <1>6, <2>2, FirstIs
  <2>4. t[mf + 1].n \in Int
    BY <1>2, <2>1, <2>3
  <2> HIDE DEF mf
  <2> QED
    BY <1>6, <2>4, NamedType
<1>7. Null \in Number
  BY DEF Number
<1> HIDE DEF whole, short, dayed, named
<1> QED
  BY <1>1, <1>3, <1>4, <1>5, <1>6, <1>7

(***************************************************************************)
(* Dates, written and read back.                                           *)
(***************************************************************************)

(* The names of a month, and the ways to write a year.                     *)
MonthWords(m) == {w \in MONTH_NAMES : _MONTHS[w] = m}
Years(y)      == {y} \cup {n \in 10 .. 99 : 2000 + n = y}

(* A day in the forms the source is known to use, with its year            *)
Dated(y, m, d) ==
  {<<Num(y), Word("-"), Num(m), Word("-"), Num(d)>>}
  \cup {<<Num(d), Word(s), Word(w), Word(r), Num(n)>> :
          s \in Slash, w \in MonthWords(m), r \in Comma, n \in Years(y)}
  \cup {<<Num(d), Word(w), Num(n)>> : w \in MonthWords(m), n \in Years(y)}
  \cup {<<Word(w), Num(d), Word(r), Num(n)>> : w \in MonthWords(m), r \in Comma, n \in Years(y)}
  \cup {<<Num(d), Word(s), Num(m), Word(r), Num(n)>> : s \in Slash, r \in Slash, n \in Years(y)}

(* and without it.                                                         *)
Yearless(m, d) ==
  {<<Num(d), Word(s), Word(w)>> : s \in Slash, w \in MonthWords(m)}
  \cup {<<Num(d), Word(w)>> : w \in MonthWords(m)}
  \cup {<<Word(w), Num(d)>> : w \in MonthWords(m)}

(* How a number is read,                                                   *)
LEMMA NumIs ==
  ASSUME NEW n
  PROVE  /\ Num(n).n = n /\ IsNum(Num(n)) /\ ~IsAlpha(Num(n))
         /\ Num(n).w \notin Dash /\ Num(n).w \notin Slash /\ Num(n).w \notin Comma
<1>1. Num(n).n = n /\ Num(n).w = ""
  BY DEF Num
<1> HIDE DEF Num
<1>2. IsNum(Num(n)) /\ ~IsAlpha(Num(n))
  BY <1>1, Zenon DEF IsNum, IsAlpha
<1>3. "" \notin Dash /\ "" \notin Slash /\ "" \notin Comma
  BY Zenon DEF Dash, Slash, Comma
<1> QED
  BY <1>1, <1>2, <1>3

(* the name of a month                                                     *)
LEMMA MonthIs ==
  ASSUME NEW w \in MONTH_NAMES
  PROVE  /\ Word(w).w = w /\ ~IsNum(Word(w)) /\ IsAlpha(Word(w)) /\ w \notin Letters \cup Pairs
         /\ w \notin Dash /\ w \notin Slash /\ w \notin Comma /\ _MONTHS[w] \in 1 .. 12
<1>1. Word(w).w = w
  BY DEF Word
<1>2. w # "" /\ w \notin Symbols
  BY Zenon DEF MONTH_NAMES, _MONTHS, Symbols
<1>3. w \notin Letters
  BY DEF MONTH_NAMES, _MONTHS, Letters
<1>4. w \notin Pairs
  BY DEF MONTH_NAMES, _MONTHS, Pairs
<1>5. _MONTHS[w] \in 1 .. 12
  BY DEF MONTH_NAMES, _MONTHS
<1>6. w \notin Dash /\ w \notin Slash /\ w \notin Comma
  BY Zenon DEF MONTH_NAMES, _MONTHS, Dash, Slash, Comma
<1>7. ~IsNum(Word(w)) /\ IsAlpha(Word(w))
  BY <1>1, <1>2, Zenon DEF IsNum, IsAlpha
<1> QED
  BY <1>1, <1>3, <1>4, <1>5, <1>6, <1>7

(* and what stands between them.                                           *)
LEMMA MarkIs ==
  ASSUME NEW s \in Comma
  PROVE  Word(s).w = s /\ ~IsNum(Word(s)) /\ ~IsAlpha(Word(s))
<1>1. Word(s).w = s
  BY DEF Word
<1>2. s # "" /\ s \in Symbols
  BY Zenon DEF Comma, Symbols
<1> QED
  BY <1>1, <1>2, Zenon DEF IsNum, IsAlpha

(* A dash is a slash and a slash a comma, as far as a date goes.           *)
LEMMA Marks == Dash \subseteq Slash /\ Slash \subseteq Comma
BY Zenon DEF Dash, Slash, Comma

(* A text of more than one lexeme says something.                          *)
LEMMA NotNull ==
  ASSUME NEW t, t # <<>>, Len(t) # 1
  PROVE  ~is_null_token(t)
BY DEF is_null_token

(* Where there is one place it is the first.                               *)
LEMMA FirstOfOne ==
  ASSUME NEW i \in Nat
  PROVE  First({i}) = i
<1>1. First({i}) \in {i}
  BY FirstIs
<1> QED
  BY <1>1

(* A year is written in full or by its last two figures.                   *)
LEMMA YearWritten ==
  ASSUME NEW y \in Nat, 1000 <= y, y <= 9999, NEW n \in Years(y)
  PROVE  n \in Nat /\ n <= 9999 /\ _expand_year(n) = y
<1>1. n = y \/ (n \in 10 .. 99 /\ 2000 + n = y)
  BY DEF Years
<1> QED
  BY <1>1 DEF _expand_year

(* A month and a day with the number of a year are a date.                 *)
LEMMA NamedYear ==
  ASSUME NEW t, NEW word, NEW day, NEW i, NEW reference, NEW k,
         NEW y \in Nat, 1000 <= y, y <= 9999,
         word.w \in MONTH_NAMES, day.n \in Int, 1 <= day.n,
         day.n <= MonthLength(y, _MONTHS[word.w]),
         Skip(t, i, Comma) = k, k \in numbers(t), t[k].n \in Years(y)
  PROVE  Named(t, word, day, i, reference) = Ordinal(y, _MONTHS[word.w], day.n)
<1>1. t[k].n <= 9999 /\ _expand_year(t[k].n) = y
  BY YearWritten
<1>2. _safe_date(y, _MONTHS[word.w], day.n) = Ordinal(y, _MONTHS[word.w], day.n)
  <2>1. _MONTHS[word.w] \in 1 .. 12 /\ y >= 1
    BY MonthIs
  <2> QED
    BY <2>1 DEF _safe_date
<1> QED
  BY <1>1, <1>2 DEF Named

(* A month and a day that no number follows are the nearest such day.      *)
LEMMA NamedAlone ==
  ASSUME NEW t, NEW word, NEW day, NEW i, NEW reference, Skip(t, i, Comma) \notin DOMAIN t
  PROVE  Named(t, word, day, i, reference) = _infer_year(_MONTHS[word.w], day.n, reference)
<1>1. Skip(t, i, Comma) \notin numbers(t)
  BY DEF numbers
<1> QED
  BY <1>1 DEF Named

(* The numbers of five lexemes, every other one a number.                  *)
LEMMA EveryOther ==
  ASSUME NEW t, DOMAIN t = 1 .. 5, IsNum(t[1]), ~IsNum(t[2]), IsNum(t[3]), ~IsNum(t[4]), IsNum(t[5])
  PROVE  numbers(t) = {1, 3, 5}
BY DEF numbers

(* A date that begins with a year of four figures.                         *)
LEMMA IsoLeads ==
  ASSUME NEW t, NEW reference, ~is_null_token(t), DOMAIN t = 1 .. 5, numbers(t) = {1, 3, 5},
         t[1].n \in Nat, 1000 <= t[1].n, t[1].n <= 9999,
         t[3].n \in Nat, t[3].n < 100, t[5].n \in Nat, t[5].n < 100,
         t[2].w \in Dash, t[4].w \in Dash
  PROVE  parse_date(t, reference) = _safe_date(t[1].n, t[3].n, t[5].n)
<1>1. 1 \in IsoAt(t)
  BY DEF IsoAt, before, At, Small
<1>2. ASSUME NEW i \in IsoAt(t) PROVE i = 1
  <2>1. i \in {1, 3, 5} /\ t[i].n >= 1000
    BY DEF IsoAt, before
  <2> QED
    BY <2>1
<1>3. IsoAt(t) = {1}
  BY <1>1, <1>2
<1>4. First(IsoAt(t)) = 1 /\ 1 + 2 = 3 /\ 1 + 4 = 5
  BY <1>3, FirstOfOne
<1> QED
  BY <1>3, <1>4 DEF parse_date

(* No other form has a year that something follows.                        *)
YearLast(t, k) ==
  k + 1 \notin DOMAIN t /\ \A i \in numbers(t) : t[i].n \in Int /\ (i = k \/ t[i].n < 1000)

(* Where only the last number may be a year, nothing is an ISO date.       *)
LEMMA NotIso ==
  ASSUME NEW t, NEW k, YearLast(t, k)
  PROVE  IsoAt(t) = {}
<1> SUFFICES ASSUME NEW i \in IsoAt(t) PROVE FALSE
  OBVIOUS
<1> USE DEF YearLast
<1>1. i \in numbers(t) /\ t[i].n >= 1000 /\ i + 1 \in DOMAIN t
  BY DEF IsoAt, before, At
<1> QED
  BY <1>1

(* Where no name of a month follows no date begins.                        *)
LEMMA LastOfAll ==
  ASSUME NEW t, NEW k, k + 1 \notin DOMAIN t, NEW W
  PROVE  ~LongWord(t, Skip(t, k + 1, W)) /\ ~Small(t, k + 1)
BY DEF LongWord, Skip, At, Small, numbers

(* A date that begins with its day and the name of its month,              *)
LEMMA DayLeads ==
  ASSUME NEW t, NEW reference, NEW k, ~is_null_token(t), k + 1 \notin DOMAIN t, IsoAt(t) = {},
         1 \in numbers(t), numbers(t) \subseteq {1, k}, t[1].n < 100,
         NEW j, Skip(t, 2, Slash) = j, LongWord(t, j), t[j].w \in MONTH_NAMES
  PROVE  parse_date(t, reference) = Named(t, t[j], t[1], j + 1, reference)
<1>1. 1 \in DayFirst(t)
  <2>1. 1 \in DOMAIN t /\ 1 + 1 = 2
    BY DEF numbers
  <2> QED
    BY <2>1 DEF DayFirst, Small
<1>2. ASSUME NEW i \in DayFirst(t), i # 1 PROVE FALSE
  <2>1. i \in numbers(t) /\ LongWord(t, Skip(t, i + 1, Slash))
    BY <1>2 DEF DayFirst, Small
  <2>2. i = k
    BY <1>2, <2>1
  <2> QED
    BY <2>1, <2>2, LastOfAll
<1>3. DayFirst(t) = {1}
  BY <1>1, <1>2
<1>4. First(DayFirst(t)) = 1 /\ 1 + 1 = 2
  BY <1>3, FirstOfOne
<1> QED
  BY <1>3, <1>4 DEF parse_date

(* one that begins with the name of its month,                             *)
LEMMA MonthLeads ==
  ASSUME NEW t, NEW reference, ~is_null_token(t), IsoAt(t) = {}, DayFirst(t) = {},
         LongWord(t, 1), Small(t, 2), \A i \in DOMAIN t : LongWord(t, i) => i = 1,
         t[1].w \in MONTH_NAMES
  PROVE  parse_date(t, reference) = Named(t, t[1], t[2], 3, reference)
<1>1. MonthFirst(t) = {1}
  <2>1. 1 \in DOMAIN t /\ 1 + 1 = 2
    BY DEF LongWord
  <2> QED
    BY <2>1 DEF MonthFirst
<1>2. First(MonthFirst(t)) = 1 /\ 1 + 1 = 2 /\ 1 + 2 = 3
  BY <1>1, FirstOfOne
<1> QED
  BY <1>1, <1>2 DEF parse_date

(* and one of numbers only.                                                *)
LEMMA NumberLeads ==
  ASSUME NEW t, NEW reference, ~is_null_token(t), DOMAIN t = 1 .. 5, IsoAt(t) = {},
         numbers(t) = {1, 3, 5}, t[1].n < 100, t[3].n < 100, t[2].w \in Slash, t[4].w \in Slash,
         \A i \in DOMAIN t : ~IsAlpha(t[i])
  PROVE  parse_date(t, reference) = _safe_date(_expand_year(t[5].n), t[3].n, t[1].n)
<1>1. \A i : ~LongWord(t, i)
  BY DEF LongWord
<1>2. DayFirst(t) = {} /\ MonthFirst(t) = {}
  BY <1>1 DEF DayFirst, MonthFirst
<1>3. 1 \in NumericAt(t)
  BY DEF NumericAt, before, At, Small
<1>4. ASSUME NEW i \in NumericAt(t) PROVE i = 1
  <2>1. i \in {1, 3, 5} /\ i + 4 \in {1, 3, 5}
    BY DEF NumericAt, before
  <2> QED
    BY <2>1
<1>5. NumericAt(t) = {1}
  BY <1>3, <1>4
<1>6. First(NumericAt(t)) = 1 /\ 1 + 2 = 3 /\ 1 + 4 = 5
  BY <1>5, FirstOfOne
<1> QED
  BY <1>2, <1>5, <1>6 DEF parse_date

(* The five kinds of lexemes, each form of a date.                         *)
LEMMA FormIso ==
  ASSUME NEW y \in Nat, 1000 <= y, y <= 9999, NEW m \in 1 .. 12,
         NEW d \in Nat, 1 <= d, d <= MonthLength(y, m), NEW reference,
         NEW t, ~is_null_token(t), DOMAIN t = 1 .. 5,
         t[1] = Num(y), t[2] = Word("-"), t[3] = Num(m), t[4] = Word("-"), t[5] = Num(d)
  PROVE  parse_date(t, reference) = Ordinal(y, m, d)
<1>1. d < 100 /\ m < 100 /\ m \in Nat
  BY DEF MonthLength
<1>2. t[1].n = y /\ t[3].n = m /\ t[5].n = d /\ IsNum(t[1]) /\ IsNum(t[3]) /\ IsNum(t[5])
  BY NumIs
<1>3. t[2].w \in Dash /\ t[4].w \in Dash /\ ~IsNum(t[2]) /\ ~IsNum(t[4])
  <2>1. "-" \in Dash /\ "-" \in Comma
    BY Marks DEF Dash
  <2> QED
    BY <2>1, MarkIs
<1>4. numbers(t) = {1, 3, 5}
  BY <1>2, <1>3, EveryOther
<1>5. parse_date(t, reference) = _safe_date(t[1].n, t[3].n, t[5].n)
  BY <1>1, <1>2, <1>3, <1>4, IsoLeads
<1>6. _safe_date(y, m, d) = Ordinal(y, m, d)
  BY DEF _safe_date
<1> QED
  BY <1>2, <1>5, <1>6

(* Day, month and year as numbers,                                         *)
LEMMA FormNumeric ==
  ASSUME NEW y \in Nat, 1000 <= y, y <= 9999, NEW m \in 1 .. 12, NEW n \in Years(y),
         NEW d \in Nat, 1 <= d, d <= MonthLength(y, m), NEW reference, NEW s \in Slash, NEW r \in Slash,
         NEW t, ~is_null_token(t), DOMAIN t = 1 .. 5,
         t[1] = Num(d), t[2] = Word(s), t[3] = Num(m), t[4] = Word(r), t[5] = Num(n)
  PROVE  parse_date(t, reference) = Ordinal(y, m, d)
<1>1. d < 100 /\ m < 100 /\ m \in Nat
  BY DEF MonthLength
<1>2. t[1].n = d /\ t[3].n = m /\ t[5].n = n /\ IsNum(t[1]) /\ IsNum(t[3]) /\ IsNum(t[5])
  BY NumIs
<1>3. t[2].w \in Slash /\ t[4].w \in Slash /\ ~IsNum(t[2]) /\ ~IsNum(t[4])
  BY Marks, MarkIs
<1>4. numbers(t) = {1, 3, 5}
  BY <1>2, <1>3, EveryOther
<1>5. n \in Nat /\ _expand_year(n) = y
  BY YearWritten
<1>6. IsoAt(t) = {}
  <2>1. YearLast(t, 5)
    BY <1>1, <1>2, <1>4, <1>5 DEF YearLast
  <2> QED
    BY <2>1, NotIso
<1>7. \A i \in DOMAIN t : ~IsAlpha(t[i])
  <2>1. /\ ~IsAlpha(Num(d)) /\ ~IsAlpha(Num(m)) /\ ~IsAlpha(Num(n)) /\ ~IsAlpha(Word(s))
        /\ ~IsAlpha(Word(r))
    BY NumIs, MarkIs, Marks
  <2>2. ~IsAlpha(t[1]) /\ ~IsAlpha(t[2]) /\ ~IsAlpha(t[3]) /\ ~IsAlpha(t[4]) /\ ~IsAlpha(t[5])
    BY <2>1
  <2> QED
    BY <2>2
<1>8. parse_date(t, reference) = _safe_date(_expand_year(t[5].n), t[3].n, t[1].n)
  BY <1>1, <1>2, <1>3, <1>4, <1>6, <1>7, NumberLeads
<1>9. _safe_date(y, m, d) = Ordinal(y, m, d)
  BY DEF _safe_date
<1> QED
  BY <1>2, <1>5, <1>8, <1>9

(* The name of a month in its place.                                       *)
LEMMA MonthAt ==
  ASSUME NEW t, NEW w \in MONTH_NAMES, NEW j \in DOMAIN t, t[j] = Word(w)
  PROVE  /\ LongWord(t, j) /\ ~IsNum(t[j]) /\ t[j].w = w
         /\ \A i : i + 1 = j => Skip(t, j, Slash) = j
         /\ Skip(t, j, Slash) = j /\ Skip(t, j, Comma) = j
<1>1. t[j].w = w /\ IsAlpha(t[j]) /\ ~IsNum(t[j]) /\ w \notin Letters \cup Pairs
  BY MonthIs
<1>2. ~At(t, j, Slash) /\ ~At(t, j, Comma)
  BY <1>1, MonthIs DEF At
<1> QED
  BY <1>1, <1>2 DEF LongWord, Skip

(* A number in its place,                                                  *)
LEMMA NumAt ==
  ASSUME NEW t, NEW n, NEW j \in DOMAIN t, t[j] = Num(n)
  PROVE  /\ j \in numbers(t) /\ t[j].n = n /\ ~LongWord(t, j)
         /\ Skip(t, j, Slash) = j /\ Skip(t, j, Comma) = j
<1>1. t[j].n = n /\ IsNum(t[j]) /\ ~IsAlpha(t[j])
  BY NumIs
<1>2. ~At(t, j, Slash) /\ ~At(t, j, Comma)
  BY NumIs DEF At
<1> QED
  BY <1>1, <1>2 DEF LongWord, Skip, numbers

(* and what stands between.                                                *)
LEMMA MarkAt ==
  ASSUME NEW t, NEW s \in Comma, NEW j \in DOMAIN t, t[j] = Word(s)
  PROVE  /\ ~IsNum(t[j]) /\ ~LongWord(t, j)
         /\ Skip(t, j, Comma) = j + 1 /\ (s \in Slash => Skip(t, j, Slash) = j + 1)
         /\ (s \notin Slash => Skip(t, j, Slash) = j)
<1>1. t[j].w = s /\ ~IsNum(t[j]) /\ ~IsAlpha(t[j])
  BY MarkIs
<1> QED
  BY <1>1 DEF LongWord, Skip, At

(* the month as a word between marks,                                      *)
LEMMA FormDashed ==
  ASSUME NEW y \in Nat, 1000 <= y, y <= 9999, NEW w \in MONTH_NAMES, NEW n \in Years(y),
         NEW d \in Nat, 1 <= d, d <= MonthLength(y, _MONTHS[w]), NEW reference,
         NEW s \in Slash, NEW r \in Comma, NEW t, ~is_null_token(t), DOMAIN t = 1 .. 5,
         t[1] = Num(d), t[2] = Word(s), t[3] = Word(w), t[4] = Word(r), t[5] = Num(n)
  PROVE  parse_date(t, reference) = Ordinal(y, _MONTHS[w], d)
<1>0. 1 \in DOMAIN t /\ 2 \in DOMAIN t /\ 3 \in DOMAIN t /\ 4 \in DOMAIN t /\ 5 \in DOMAIN t
  OBVIOUS
<1>1. d < 100
  BY DEF MonthLength
<1>2. 1 \in numbers(t) /\ t[1].n = d /\ 5 \in numbers(t) /\ t[5].n = n
  BY <1>0, NumAt
<1>3. s \in Comma
  BY Marks
<1>4. ~IsNum(t[2]) /\ ~IsNum(t[4]) /\ Skip(t, 2, Slash) = 3 /\ Skip(t, 4, Comma) = 5
  <2>1. 2 + 1 = 3 /\ 4 + 1 = 5
    OBVIOUS
  <2> QED
    BY <1>0, <1>3, <2>1, MarkAt
<1>5. LongWord(t, 3) /\ ~IsNum(t[3]) /\ t[3].w = w
  BY <1>0, MonthAt
<1>6. numbers(t) \subseteq {1, 5}
  BY <1>4, <1>5 DEF numbers
<1>7. n \in Nat
  BY YearWritten
<1>8. IsoAt(t) = {}
  <2>1. YearLast(t, 5)
    BY <1>1, <1>2, <1>6, <1>7 DEF YearLast
  <2> QED
    BY <2>1, NotIso
<1>9. 3 + 1 = 4 /\ 5 + 1 \notin DOMAIN t
  OBVIOUS
<1>10. parse_date(t, reference) = Named(t, t[3], t[1], 4, reference)
  BY <1>1, <1>2, <1>4, <1>5, <1>6, <1>8, <1>9, DayLeads
<1>11. Named(t, t[3], t[1], 4, reference) = Ordinal(y, _MONTHS[t[3].w], t[1].n)
  BY <1>2, <1>4, <1>5, NamedYear
<1> QED
  BY <1>2, <1>5, <1>10, <1>11

(* or between spaces,                                                      *)
LEMMA FormSpaced ==
  ASSUME NEW y \in Nat, 1000 <= y, y <= 9999, NEW w \in MONTH_NAMES, NEW n \in Years(y),
         NEW d \in Nat, 1 <= d, d <= MonthLength(y, _MONTHS[w]), NEW reference,
         NEW t, ~is_null_token(t), DOMAIN t = 1 .. 3, t[1] = Num(d), t[2] = Word(w), t[3] = Num(n)
  PROVE  parse_date(t, reference) = Ordinal(y, _MONTHS[w], d)
<1>0. 1 \in DOMAIN t /\ 2 \in DOMAIN t /\ 3 \in DOMAIN t
  OBVIOUS
<1>1. d < 100
  BY DEF MonthLength
<1>2. 1 \in numbers(t) /\ t[1].n = d /\ 3 \in numbers(t) /\ t[3].n = n /\ Skip(t, 3, Comma) = 3
  BY <1>0, NumAt
<1>3. LongWord(t, 2) /\ ~IsNum(t[2]) /\ t[2].w = w /\ Skip(t, 2, Slash) = 2
  BY <1>0, MonthAt
<1>4. numbers(t) \subseteq {1, 3}
  BY <1>3 DEF numbers
<1>5. n \in Nat
  BY YearWritten
<1>6. YearLast(t, 3)
  BY <1>1, <1>2, <1>4, <1>5 DEF YearLast
<1>7. 2 + 1 = 3 /\ 3 + 1 \notin DOMAIN t
  OBVIOUS
<1>8. parse_date(t, reference) = Named(t, t[2], t[1], 3, reference)
  BY <1>1, <1>2, <1>3, <1>4, <1>6, <1>7, NotIso, DayLeads
<1>9. Named(t, t[2], t[1], 3, reference) = Ordinal(y, _MONTHS[t[2].w], t[1].n)
  BY <1>2, <1>3, NamedYear
<1> QED
  BY <1>2, <1>3, <1>8, <1>9

(* A day that no name of a month follows.                                  *)
LEMMA NotDayFirst ==
  ASSUME NEW t, \A i \in numbers(t) : ~LongWord(t, Skip(t, i + 1, Slash))
  PROVE  DayFirst(t) = {}
BY DEF DayFirst, Small

(* or in front.                                                            *)
LEMMA FormNamed ==
  ASSUME NEW y \in Nat, 1000 <= y, y <= 9999, NEW w \in MONTH_NAMES, NEW n \in Years(y),
         NEW d \in Nat, 1 <= d, d <= MonthLength(y, _MONTHS[w]), NEW reference,
         NEW r \in Comma, NEW t, ~is_null_token(t), DOMAIN t = 1 .. 4,
         t[1] = Word(w), t[2] = Num(d), t[3] = Word(r), t[4] = Num(n)
  PROVE  parse_date(t, reference) = Ordinal(y, _MONTHS[w], d)
<1>0. 1 \in DOMAIN t /\ 2 \in DOMAIN t /\ 3 \in DOMAIN t /\ 4 \in DOMAIN t
  OBVIOUS
<1>1. d < 100
  BY DEF MonthLength
<1>2. /\ 2 \in numbers(t) /\ t[2].n = d /\ ~LongWord(t, 2)
      /\ 4 \in numbers(t) /\ t[4].n = n /\ ~LongWord(t, 4)
  BY <1>0, NumAt
<1>3. LongWord(t, 1) /\ ~IsNum(t[1]) /\ t[1].w = w
  BY <1>0, MonthAt
<1>4. /\ ~IsNum(t[3]) /\ ~LongWord(t, 3) /\ Skip(t, 3, Comma) = 4
      /\ Skip(t, 3, Slash) = 3 \/ Skip(t, 3, Slash) = 4
  <2>1. 3 + 1 = 4
    OBVIOUS
  <2> QED
    BY <1>0, <2>1, MarkAt
<1>5. numbers(t) \subseteq {2, 4}
  BY <1>3, <1>4 DEF numbers
<1>6. n \in Nat
  BY YearWritten
<1>7. YearLast(t, 4)
  BY <1>1, <1>2, <1>5, <1>6 DEF YearLast
<1>8. DayFirst(t) = {}
  <2>1. 2 + 1 = 3 /\ 4 + 1 \notin DOMAIN t
    OBVIOUS
  <2>2. ~LongWord(t, Skip(t, 2 + 1, Slash))
    BY <1>2, <1>4, <2>1
  <2>3. ~LongWord(t, Skip(t, 4 + 1, Slash))
    BY <2>1, LastOfAll
  <2> QED
    BY <1>5, <2>2, <2>3, NotDayFirst
<1>9. Small(t, 2)
  BY <1>1, <1>2 DEF Small
<1>10. \A i \in DOMAIN t : LongWord(t, i) => i = 1
  BY <1>2, <1>4
<1>11. parse_date(t, reference) = Named(t, t[1], t[2], 3, reference)
  BY <1>3, <1>7, <1>8, <1>9, <1>10, NotIso, MonthLeads
<1>12. Named(t, t[1], t[2], 3, reference) = Ordinal(y, _MONTHS[t[1].w], t[2].n)
  BY <1>2, <1>3, <1>4, NamedYear
<1> QED
  BY <1>2, <1>3, <1>11, <1>12

(* Without a year: the day in front, and a mark or none between,           *)
LEMMA FormDay ==
  ASSUME NEW w \in MONTH_NAMES, NEW d \in Nat, d < 100, NEW reference,
         NEW t, ~is_null_token(t), NEW j \in {2, 3}, 1 \in DOMAIN t,
         2 \in DOMAIN t, j \in DOMAIN t, j + 1 \notin DOMAIN t, DOMAIN t \subseteq {1, 2, j},
         NEW s \in Slash, t[1] = Num(d), j = 3 => t[2] = Word(s), t[j] = Word(w)
  PROVE  parse_date(t, reference) = _infer_year(_MONTHS[w], d, reference)
<1>1. 1 \in numbers(t) /\ t[1].n = d
  BY NumAt
<1>2. LongWord(t, j) /\ ~IsNum(t[j]) /\ t[j].w = w /\ Skip(t, j, Slash) = j
  BY MonthAt
<1>3. ~IsNum(t[2]) /\ Skip(t, 2, Slash) = j
  <2>1. CASE j = 2
    BY <1>2, <2>1
  <2>2. CASE j = 3
    <3>1. s \in Comma
      BY Marks
    <3>2. 2 + 1 = 3
      OBVIOUS
    <3> QED
      BY <2>2, <3>1, <3>2, MarkAt
  <2> QED
    BY <2>1, <2>2
<1>4. numbers(t) \subseteq {1, j}
  BY <1>2, <1>3 DEF numbers
<1>5. numbers(t) \subseteq {1}
  BY <1>2, <1>4 DEF numbers
<1>6. YearLast(t, j)
  BY <1>1, <1>5 DEF YearLast
<1>7. parse_date(t, reference) = Named(t, t[j], t[1], j + 1, reference)
  BY <1>1, <1>2, <1>3, <1>4, <1>6, NotIso, DayLeads
<1>8. Skip(t, j + 1, Comma) \notin DOMAIN t
  BY DEF Skip, At
<1>9. Named(t, t[j], t[1], j + 1, reference) = _infer_year(_MONTHS[t[j].w], t[1].n, reference)
  BY <1>8, NamedAlone
<1> QED
  BY <1>1, <1>2, <1>7, <1>9

(* and the month in front.                                                 *)
LEMMA FormMonth ==
  ASSUME NEW w \in MONTH_NAMES, NEW d \in Nat, d < 100, NEW reference,
         NEW t, ~is_null_token(t), DOMAIN t = 1 .. 2, t[1] = Word(w), t[2] = Num(d)
  PROVE  parse_date(t, reference) = _infer_year(_MONTHS[w], d, reference)
<1>0. 1 \in DOMAIN t /\ 2 \in DOMAIN t /\ 2 + 1 \notin DOMAIN t /\ 3 \notin DOMAIN t
  OBVIOUS
<1>1. 2 \in numbers(t) /\ t[2].n = d /\ ~LongWord(t, 2)
  BY <1>0, NumAt
<1>2. LongWord(t, 1) /\ ~IsNum(t[1]) /\ t[1].w = w
  BY <1>0, MonthAt
<1>3. numbers(t) \subseteq {2}
  BY <1>2 DEF numbers
<1>4. YearLast(t, 2)
  BY <1>0, <1>1, <1>3 DEF YearLast
<1>5. DayFirst(t) = {}
  <2>1. ~LongWord(t, Skip(t, 2 + 1, Slash))
    BY <1>0, LastOfAll
  <2> QED
    BY <1>3, <2>1, NotDayFirst
<1>6. Small(t, 2)
  BY <1>1 DEF Small
<1>7. \A i \in DOMAIN t : LongWord(t, i) => i = 1
  BY <1>1
<1>8. parse_date(t, reference) = Named(t, t[1], t[2], 3, reference)
  BY <1>2, <1>4, <1>5, <1>6, <1>7, NotIso, MonthLeads
<1>9. Skip(t, 3, Comma) \notin DOMAIN t
  BY <1>0 DEF Skip, At
<1>10. Named(t, t[1], t[2], 3, reference) = _infer_year(_MONTHS[t[1].w], t[2].n, reference)
  BY <1>9, NamedAlone
<1> QED
  BY <1>1, <1>2, <1>8, <1>10

(* Texts of five, four, three and two lexemes say something.               *)
LEMMA OfFive ==
  ASSUME NEW a, NEW b, NEW c, NEW e, NEW f, NEW t, t = <<a, b, c, e, f>>
  PROVE  /\ ~is_null_token(t) /\ DOMAIN t = 1 .. 5
         /\ t[1] = a /\ t[2] = b /\ t[3] = c /\ t[4] = e /\ t[5] = f
<1>1. t # <<>> /\ Len(t) # 1
  OBVIOUS
<1> QED
  BY <1>1, NotNull

LEMMA OfFour ==
  ASSUME NEW a, NEW b, NEW c, NEW e, NEW t, t = <<a, b, c, e>>
  PROVE  /\ ~is_null_token(t) /\ DOMAIN t = 1 .. 4
         /\ t[1] = a /\ t[2] = b /\ t[3] = c /\ t[4] = e
<1>1. t # <<>> /\ Len(t) # 1
  OBVIOUS
<1> QED
  BY <1>1, NotNull

LEMMA OfThree ==
  ASSUME NEW a, NEW b, NEW c, NEW t, t = <<a, b, c>>
  PROVE  /\ ~is_null_token(t) /\ DOMAIN t = 1 .. 3 /\ t[1] = a /\ t[2] = b /\ t[3] = c
<1>1. t # <<>> /\ Len(t) # 1
  OBVIOUS
<1> QED
  BY <1>1, NotNull

LEMMA OfTwo ==
  ASSUME NEW a, NEW b, NEW t, t = <<a, b>>
  PROVE  ~is_null_token(t) /\ DOMAIN t = 1 .. 2 /\ t[1] = a /\ t[2] = b
<1>1. t # <<>> /\ Len(t) # 1
  OBVIOUS
<1> QED
  BY <1>1, NotNull

(* A date that is written with its year is that day, in each of the forms  *)
(* of parse_date's docstring and whatever the day of the scrape: a day and *)
(* month are never swapped, and two figures are a year of this century.    *)
THEOREM DatesReadBack ==
  ASSUME NEW y \in Nat, 1000 <= y, y <= 9999, NEW m \in 1 .. 12,
         NEW d \in Nat, 1 <= d, d <= MonthLength(y, m), NEW reference,
         NEW text \in Dated(y, m, d)
  PROVE  parse_date(text, reference) = Ordinal(y, m, d)
<1>1. CASE text = <<Num(y), Word("-"), Num(m), Word("-"), Num(d)>>
  <2>1. /\ ~is_null_token(text) /\ DOMAIN text = 1 .. 5
        /\ text[1] = Num(y) /\ text[2] = Word("-") /\ text[3] = Num(m)
        /\ text[4] = Word("-") /\ text[5] = Num(d)
    BY <1>1, OfFive
  <2> QED
    BY <2>1, FormIso
<1>2. ASSUME NEW s \in Slash, NEW w \in MonthWords(m), NEW r \in Comma, NEW n \in Years(y),
             text = <<Num(d), Word(s), Word(w), Word(r), Num(n)>>
      PROVE  parse_date(text, reference) = Ordinal(y, m, d)
  <2>1. /\ ~is_null_token(text) /\ DOMAIN text = 1 .. 5
        /\ text[1] = Num(d) /\ text[2] = Word(s) /\ text[3] = Word(w)
        /\ text[4] = Word(r) /\ text[5] = Num(n)
    BY <1>2, OfFive
  <2>2. w \in MONTH_NAMES /\ _MONTHS[w] = m
    BY DEF MonthWords
  <2> QED
    BY <2>1, <2>2, FormDashed
<1>3. ASSUME NEW w \in MonthWords(m), NEW n \in Years(y), text = <<Num(d), Word(w), Num(n)>>
      PROVE  parse_date(text, reference) = Ordinal(y, m, d)
  <2>1. /\ ~is_null_token(text) /\ DOMAIN text = 1 .. 3
        /\ text[1] = Num(d) /\ text[2] = Word(w) /\ text[3] = Num(n)
    BY <1>3, OfThree
  <2>2. w \in MONTH_NAMES /\ _MONTHS[w] = m
    BY DEF MonthWords
  <2> QED
    BY <2>1, <2>2, FormSpaced
<1>4. ASSUME NEW w \in MonthWords(m), NEW r \in Comma, NEW n \in Years(y),
             text = <<Word(w), Num(d), Word(r), Num(n)>>
      PROVE  parse_date(text, reference) = Ordinal(y, m, d)
  <2>1. /\ ~is_null_token(text) /\ DOMAIN text = 1 .. 4
        /\ text[1] = Word(w) /\ text[2] = Num(d) /\ text[3] = Word(r) /\ text[4] = Num(n)
    BY <1>4, OfFour
  <2>2. w \in MONTH_NAMES /\ _MONTHS[w] = m
    BY DEF MonthWords
  <2> QED
    BY <2>1, <2>2, FormNamed
<1>5. ASSUME NEW s \in Slash, NEW r \in Slash, NEW n \in Years(y),
             text = <<Num(d), Word(s), Num(m), Word(r), Num(n)>>
      PROVE  parse_date(text, reference) = Ordinal(y, m, d)
  <2>1. /\ ~is_null_token(text) /\ DOMAIN text = 1 .. 5
        /\ text[1] = Num(d) /\ text[2] = Word(s) /\ text[3] = Num(m)
        /\ text[4] = Word(r) /\ text[5] = Num(n)
    BY <1>5, OfFive
  <2> QED
    BY <2>1, FormNumeric
<1>6. \/ text = <<Num(y), Word("-"), Num(m), Word("-"), Num(d)>>
      \/ \E s \in Slash, w \in MonthWords(m), r \in Comma, n \in Years(y) :
           text = <<Num(d), Word(s), Word(w), Word(r), Num(n)>>
      \/ \E w \in MonthWords(m), n \in Years(y) : text = <<Num(d), Word(w), Num(n)>>
      \/ \E w \in MonthWords(m), r \in Comma, n \in Years(y) :
           text = <<Word(w), Num(d), Word(r), Num(n)>>
      \/ \E s \in Slash, r \in Slash, n \in Years(y) :
           text = <<Num(d), Word(s), Num(m), Word(r), Num(n)>>
  BY DEF Dated
<1> QED
  BY <1>1, <1>2, <1>3, <1>4, <1>5, <1>6

(* A date that is written without its year is read across the end of the   *)
(* year: the day within half a year of the reference that has this name.   *)
THEOREM YearlessReadBack ==
  ASSUME NEW y \in Nat \ {0}, NEW m \in 1 .. 12,
         NEW d \in Nat, 1 <= d, d <= MonthLength(y, m), NEW reference \in Nat \ {0},
         Distance(Ordinal(y, m, d), reference) <= 182, NEW text \in Yearless(m, d)
  PROVE  parse_date(text, reference) = Ordinal(y, m, d)
<1>1. d < 100
  BY DEF MonthLength
<1>2. _infer_year(m, d, reference) = Ordinal(y, m, d)
  BY NearestYear
<1>3. ASSUME NEW s \in Slash, NEW w \in MonthWords(m), text = <<Num(d), Word(s), Word(w)>>
      PROVE  parse_date(text, reference) = Ordinal(y, m, d)
  <2>1. /\ ~is_null_token(text) /\ DOMAIN text = 1 .. 3
        /\ text[1] = Num(d) /\ text[2] = Word(s) /\ text[3] = Word(w)
    BY <1>3, OfThree
  <2>2. /\ 3 \in {2, 3} /\ 1 \in DOMAIN text /\ 2 \in DOMAIN text /\ 3 \in DOMAIN text
        /\ 3 + 1 \notin DOMAIN text /\ DOMAIN text \subseteq {1, 2, 3}
    BY <2>1
  <2>3. w \in MONTH_NAMES /\ _MONTHS[w] = m
    BY DEF MonthWords
  <2>4. parse_date(text, reference) = _infer_year(_MONTHS[w], d, reference)
    BY <1>1, <2>1, <2>2, <2>3, FormDay
  <2> QED
    BY <1>2, <2>3, <2>4
<1>4. ASSUME NEW w \in MonthWords(m), text = <<Num(d), Word(w)>>
      PROVE  parse_date(text, reference) = Ordinal(y, m, d)
  <2>1. ~is_null_token(text) /\ DOMAIN text = 1 .. 2 /\ text[1] = Num(d) /\ text[2] = Word(w)
    BY <1>4, OfTwo
  <2>2. /\ 2 \in {2, 3} /\ 1 \in DOMAIN text /\ 2 \in DOMAIN text
        /\ 2 + 1 \notin DOMAIN text /\ DOMAIN text \subseteq {1, 2}
    BY <2>1
  <2>3. w \in MONTH_NAMES /\ _MONTHS[w] = m /\ "-" \in Slash
    BY Marks DEF MonthWords, Dash
  <2>4. parse_date(text, reference) = _infer_year(_MONTHS[w], d, reference)
    BY <1>1, <2>1, <2>2, <2>3, FormDay
  <2> QED
    BY <1>2, <2>3, <2>4
<1>5. ASSUME NEW w \in MonthWords(m), text = <<Word(w), Num(d)>>
      PROVE  parse_date(text, reference) = Ordinal(y, m, d)
  <2>1. ~is_null_token(text) /\ DOMAIN text = 1 .. 2 /\ text[1] = Word(w) /\ text[2] = Num(d)
    BY <1>5, OfTwo
  <2>2. w \in MONTH_NAMES /\ _MONTHS[w] = m
    BY DEF MonthWords
  <2>3. parse_date(text, reference) = _infer_year(_MONTHS[w], d, reference)
    BY <1>1, <2>1, <2>2, FormMonth
  <2> QED
    BY <1>2, <2>2, <2>3
<1>6. \/ \E s \in Slash, w \in MonthWords(m) : text = <<Num(d), Word(s), Word(w)>>
      \/ \E w \in MonthWords(m) : text = <<Num(d), Word(w)>>
      \/ \E w \in MonthWords(m) : text = <<Word(w), Num(d)>>
  BY DEF Yearless
<1> QED
  BY <1>3, <1>4, <1>5, <1>6, Zenon

(* What stands between the ends of a band is neither a number nor a sign.  *)
LEMMA ThroughIs ==
  ASSUME NEW s \in Through
  PROVE  Word(s).w = s /\ ~IsNum(Word(s))
<1>1. Word(s).w = s
  BY DEF Word
<1>2. s # ""
  BY Zenon DEF Through
<1> QED
  BY <1>1, <1>2, Zenon DEF IsNum

(* Two numbers and what stands between them are their range.               *)
LEMMA RangeWritten ==
  ASSUME NEW a \in Nat, NEW b \in Nat, NEW s \in Through
  PROVE  parse_price_band(<<Num(a), Word(s), Num(b)>>) = IF a <= b THEN <<a, b>> ELSE <<b, a>>
<1> DEFINE t == <<Num(a), Word(s), Num(b)>>
<1>1. DOMAIN t = 1 .. 3 /\ t[1] = Num(a) /\ t[2] = Word(s) /\ t[3] = Num(b)
  OBVIOUS
<1>2. /\ Num(a).n = a /\ IsNum(Num(a)) /\ Num(b).n = b /\ IsNum(Num(b))
      /\ Word(s).w = s /\ ~IsNum(Word(s))
  BY NumIs, ThroughIs
<1> HIDE DEF t
<1>3. numbers(t) = {1, 3}
  BY <1>1, <1>2 DEF numbers
<1>4. 2 \in DOMAIN t /\ 4 \notin DOMAIN t /\ t[2].w \in Through
  BY <1>1, <1>2
<1>5. before(t, Through) = {1}
  BY <1>3, <1>4 DEF before, At
<1>6. Ranges(t) = {1}
  BY <1>3, <1>5 DEF Ranges
<1>7. First(Ranges(t)) = 1
  BY <1>6, FirstOfOne
<1>8. t[1].n = a /\ t[1 + 2].n = b
  BY <1>1, <1>2
<1>9. parse_price_band(t) = IF a <= b THEN <<a, b>> ELSE <<b, a>>
  BY <1>6, <1>7, <1>8 DEF parse_price_band
<1> QED
  BY <1>9 DEF t

(* One number alone is both ends.                                          *)
LEMMA PriceWritten ==
  ASSUME NEW a \in Nat
  PROVE  parse_price_band(<<Num(a)>>) = <<a, a>>
<1> DEFINE t == <<Num(a)>>
<1>1. DOMAIN t = {1} /\ t[1] = Num(a) /\ t # <<>> /\ 0 \notin DOMAIN t
  OBVIOUS
<1>2. Num(a).n = a /\ IsNum(Num(a)) /\ Num(a).w = ""
  BY NumIs DEF Num
<1> HIDE DEF t
<1>3. numbers(t) = {1}
  BY <1>1, <1>2 DEF numbers
<1>4. ~is_null_token(t)
  BY <1>1, <1>2, Zenon DEF is_null_token
<1>5. First(numbers(t)) = 1
  BY <1>3, FirstOfOne
<1>6. signed(t, 1) = a
  <2>1. ~At(t, 1 - 1, Dash)
    BY <1>1 DEF At
  <2>2. t[1].n = a
    BY <1>1, <1>2
  <2> QED
    BY <2>1, <2>2 DEF signed
<1>7. parse_decimal(t) = a
  BY <1>3, <1>4, <1>5, <1>6 DEF parse_decimal
<1>8. Ranges(t) = {}
  <2>1. \A i \in before(t, Through) : i = 1 /\ i + 1 \in DOMAIN t
    BY <1>3 DEF before, At
  <2>2. before(t, Through) = {}
    BY <1>1, <2>1
  <2> QED
    BY <2>2 DEF Ranges
<1>9. parse_price_band(t) = <<a, a>>
  BY <1>7, <1>8 DEF parse_price_band
<1> QED
  BY <1>9 DEF t

(* Whatever the text, a price band is never upside down and never half     *)
(* known; written with its ends either way round it is that band, and its  *)
(* hyphen is no sign (parse_price_band's docstring).                       *)
THEOREM BandsReadBack ==
  /\ \A t \in Readable :
       LET band == parse_price_band(t)
       IN  /\ band[1] = Null <=> band[2] = Null
           /\ band[1] # Null => band[1] <= band[2]
  /\ \A a, b \in Nat, s \in Through : a <= b =>
       /\ parse_price_band(<<Num(a), Word(s), Num(b)>>) = <<a, b>>
       /\ parse_price_band(<<Num(b), Word(s), Num(a)>>) = <<a, b>>
  /\ \A a \in Nat : parse_price_band(<<Num(a)>>) = <<a, a>>
<1>1. ASSUME NEW a \in Nat, NEW b \in Nat, NEW s \in Through, a <= b
      PROVE  /\ parse_price_band(<<Num(a), Word(s), Num(b)>>) = <<a, b>>
             /\ parse_price_band(<<Num(b), Word(s), Num(a)>>) = <<a, b>>
  <2>1. parse_price_band(<<Num(a), Word(s), Num(b)>>) = IF a <= b THEN <<a, b>> ELSE <<b, a>>
    BY RangeWritten
  <2>2. parse_price_band(<<Num(b), Word(s), Num(a)>>) = IF b <= a THEN <<b, a>> ELSE <<a, b>>
    BY RangeWritten
  <2>3. b <= a => a = b
    BY <1>1
  <2> HIDE DEF Num
  <2>4. parse_price_band(<<Num(a), Word(s), Num(b)>>) = <<a, b>>
    BY <1>1, <2>1, Zenon
  <2>5. parse_price_band(<<Num(b), Word(s), Num(a)>>) = <<a, b>>
    BY <2>2, <2>3, Zenon
  <2> QED
    BY <2>4, <2>5
<1>2. ASSUME NEW t \in Readable
      PROVE  LET band == parse_price_band(t)
             IN  /\ band[1] = Null <=> band[2] = Null
                 /\ band[1] # Null => band[1] <= band[2]
  BY BandOrder
<1> QED
  BY <1>1, <1>2, PriceWritten

(***************************************************************************)
(* Typed records, and the valid ones.                                      *)
(***************************************************************************)

IsRecord(record) == \A f \in DOMAIN record.fields : record.fields[f] \in Shown

(* A field of a record can be read, also if the record has not got it.     *)
LEMMA GetType ==
  ASSUME NEW record, IsRecord(record), NEW field
  PROVE  Get(record, field).text \in Readable
<1>1. NoText.text \in Readable
  <2>1. NoText.text = <<>> /\ <<>> \in Readable
    BY DEF NoText, Readable
  <2> QED
    BY <2>1
<1>2. \A c \in Shown : c.text \in Readable
  BY DEF Shown
<1> QED
  BY <1>1, <1>2 DEF Get, IsRecord

(* The record of a row has the row's cells.                                *)
LEMMA ProjectType ==
  ASSUME NEW D, NEW row \in Seq(D), \A e \in D : e.cell \in Shown, NEW matches
  PROVE  IsRecord(Project(row, matches))
<1> DEFINE on == {m \in matches : Has(row, m.col)}
           of(f) == CHOOSE m \in on : m.field = f
           fields == [f \in {m.field : m \in on} |-> Cell(row, of(f).col)]
<1>1. Project(row, matches).fields = fields
  BY DEF Project
<1>2. Len(row) \in Nat /\ DOMAIN row = 1 .. Len(row) /\ \A i \in 1 .. Len(row) : row[i] \in D
  BY Elements, Zenon
<1>3. ASSUME NEW col, Has(row, col) PROVE Cell(row, col) \in Shown
  <2> DEFINE i == CHOOSE i \in DOMAIN row : row[i].col = col
  <2>1. \E j \in DOMAIN row : row[j].col = col
    BY <1>3 DEF Has
  <2>2. i \in DOMAIN row
    BY <2>1, Zenon
  <2>3. Cell(row, col) = row[i].cell
    BY DEF Cell
  <2> HIDE DEF i
  <2> QED
    BY <1>2, <2>2, <2>3
<1>4. ASSUME NEW f \in {m.field : m \in on} PROVE fields[f] \in Shown
  <2>1. \E m \in on : m.field = f
    OBVIOUS
  <2> HIDE DEF on
  <2>2. of(f) \in on
    BY <2>1, Zenon
  <2>3. fields[f] = Cell(row, of(f).col)
    OBVIOUS
  <2> HIDE DEF of, fields
  <2>4. Has(row, of(f).col)
    BY <2>2 DEF on
  <2> QED
    BY <1>3, <2>3, <2>4
<1>5. DOMAIN fields = {m.field : m \in on}
  OBVIOUS
<1> HIDE DEF fields
<1> QED
  BY <1>1, <1>4, <1>5 DEF IsRecord

\* What validation compares of a typed IPO.
Compared == {"source_ipo_id", "open_date", "close_date", "price_min", "price_max", "lot_size"}

IsIpo(r) ==
  /\ Compared \subseteq DOMAIN r
  /\ r.open_date \in Number /\ r.close_date \in Number
  /\ r.price_min \in Number /\ r.price_max \in Number
  /\ r.lot_size \in Number

(* A lot is a positive number or nothing.                                  *)
LEMMA LotType ==
  ASSUME NEW t \in Readable
  PROVE  _positive_int(t) \in Number
<1>1. parse_decimal(t) \in Number
  BY DecimalType
<1> QED
  BY <1>1 DEF _positive_int, Number

(* What validation compares of a typed IPO are numbers or nothing.         *)
LEMMA TypedType ==
  ASSUME NEW record, IsRecord(record), NEW path, NEW id, NEW name
  PROVE  IsIpo(Typed(record, path, id, name, Today))
<1> DEFINE r == Typed(record, path, id, name, Today)
           band == parse_price_band(Get(record, "price").text)
<1>1. /\ r.open_date = parse_date(Get(record, "open_date").text, Today)
      /\ r.close_date = parse_date(Get(record, "close_date").text, Today)
      /\ r.price_min = band[1] /\ r.price_max = band[2]
      /\ r.lot_size = _positive_int(Get(record, "lot_size").text)
      /\ Compared \subseteq DOMAIN r
  BY DEF Typed, Compared
<1>2. \A f : Get(record, f).text \in Readable
  BY GetType
<1>3. /\ parse_date(Get(record, "open_date").text, Today) \in Number
      /\ parse_date(Get(record, "close_date").text, Today) \in Number
  BY <1>2, DateType, TodayAssumption
<1>4. band[1] \in Number /\ band[2] \in Number
  BY <1>2, BandType
<1>5. _positive_int(Get(record, "lot_size").text) \in Number
  BY <1>2, LotType
<1> HIDE DEF r, band
<1>6. IsIpo(r)
  BY <1>1, <1>3, <1>4, <1>5 DEF IsIpo
<1> QED
  BY <1>6 DEF r

(* So are those of a record that is not dropped.                           *)
LEMMA NormalizeType ==
  ASSUME NEW record, IsRecord(record), normalize(record, Today) # Null
  PROVE  IsIpo(normalize(record, Today))
<1> DEFINE name == _extract_name(record)
           path == _extract_detail_url(record)
           id   == _extract_source_id(record, path, name)
<1>1. normalize(record, Today) = IF name = Null THEN Null ELSE IF id = Null THEN Null
                                 ELSE Typed(record, path, id, name, Today)
  BY DEF normalize
<1> HIDE DEF name, path, id
<1> QED
  BY <1>1, TypedType

(* Every IPO that is typed is one that validation can compare.             *)
LEMMA ManyType ==
  ASSUME IsResult(result)
  PROVE  \E S : normalize_many(result.records, Today) \in Seq(S) /\ \A r \in S : IsIpo(r)
<1> DEFINE records == result.records
           typed   == [n \in DOMAIN records |-> normalize(records[n], Today)]
           good    == {n \in DOMAIN typed : typed[n] # Null}
           S       == {typed[n] : n \in good}
<1>1. normalize_many(records, Today) = Keep(typed, good)
  BY DEF normalize_many
<1>2. PICK D : result.rows \in Seq(Seq(D)) /\ \A e \in D : e.cell \in Shown
  BY DEF IsResult, IsData
<1>3. /\ Len(result.rows) \in Nat /\ DOMAIN result.rows = 1 .. Len(result.rows)
      /\ \A n \in 1 .. Len(result.rows) : result.rows[n] \in Seq(D)
  BY <1>2, Elements, Zenon
<1>4. records = [n \in DOMAIN result.rows |-> Project(result.rows[n], result.matches)]
  BY DEF IsResult
<1>5. DOMAIN records = 1 .. Len(result.rows) /\ \A n \in DOMAIN records : IsRecord(records[n])
  <2>1. \A n \in 1 .. Len(result.rows) : IsRecord(Project(result.rows[n], result.matches))
    BY <1>2, <1>3, ProjectType, Zenon
  <2>2. \A n \in 1 .. Len(result.rows) : records[n] = Project(result.rows[n], result.matches)
    BY <1>3, <1>4
  <2>3. DOMAIN records = 1 .. Len(result.rows)
    BY <1>3, <1>4
  <2> HIDE DEF records
  <2> QED
    BY <2>1, <2>2, <2>3
<1> HIDE DEF records
<1>6. ASSUME NEW n \in good PROVE IsIpo(typed[n])
  <2>1. n \in DOMAIN records /\ typed[n] = normalize(records[n], Today) /\ typed[n] # Null
    OBVIOUS
  <2> HIDE DEF typed
  <2> QED
    BY <1>5, <2>1, NormalizeType
<1>7. good \in SUBSET (1 .. Len(result.rows)) /\ \A n \in good : typed[n] \in S
  BY <1>5
<1>8. \A r \in S : IsIpo(r)
  BY <1>6
<1> HIDE DEF good, typed, S
<1>9. Keep(typed, good) \in Seq(S)
  BY <1>3, <1>7, KeepType, Zenon
<1> QED
  BY <1>1, <1>8, <1>9 DEF records

(***************************************************************************)
(* Validation.                                                             *)
(***************************************************************************)

\* What the table asks of one row.
Fits(r) ==
  /\ r.open_date = Null \/ r.close_date = Null \/ r.open_date <= r.close_date
  /\ r.price_min = Null \/ r.price_max = Null \/ r.price_min <= r.price_max
  /\ r.lot_size = Null \/ r.lot_size > 0

(* A value that stays in bounds is no less than the lower one.             *)
LEMMA BoundedIs ==
  ASSUME NEW v \in Number, NEW low \in Int, NEW high \in Int
  PROVE  Bounded(v, low, high) = Null \/ (Bounded(v, low, high) \in Int /\ low <= Bounded(v, low, high))
BY DEF Bounded, Number

(* The repairs make a record that is not refused fit.                      *)
LEMMA RepairedFits ==
  ASSUME NEW r, IsIpo(r), ~Fatal(r)
  PROVE  Fits(Repaired(r, Today)) /\ Repaired(r, Today).source_ipo_id = r.source_ipo_id
<1> DEFINE x    == Repaired(r, Today)
           low  == Bounded(r.price_min, 0, MAX_REASONABLE_PRICE)
           high == Bounded(r.price_max, 0, MAX_REASONABLE_PRICE)
           turn == low # Null /\ high # Null /\ low > high
           lot  == Bounded(r.lot_size, 1, MAX_REASONABLE_LOT_SIZE)
<1>1. /\ x.source_ipo_id = r.source_ipo_id
      /\ x.open_date = Near(r.open_date, Today) /\ x.close_date = Near(r.close_date, Today)
      /\ x.price_min = IF turn THEN high ELSE low
      /\ x.price_max = IF turn THEN low ELSE high
      /\ x.lot_size = lot
  BY DEF Repaired, IsIpo, Compared
<1> HIDE DEF x
<1>2. x.open_date = Null \/ x.close_date = Null \/ x.open_date <= x.close_date
  <2>1. r.open_date = Null \/ r.close_date = Null \/ r.open_date <= r.close_date
    BY DEF Fatal, Misordered, IsIpo, Number
  <2>2. /\ x.open_date = Null \/ (r.open_date # Null /\ x.open_date = r.open_date)
        /\ x.close_date = Null \/ (r.close_date # Null /\ x.close_date = r.close_date)
    BY <1>1 DEF Near
  <2> QED
    BY <2>1, <2>2
<1>3. x.price_min = Null \/ x.price_max = Null \/ x.price_min <= x.price_max
  <2>1. r.price_min \in Number /\ r.price_max \in Number /\ 0 \in Int /\ MAX_REASONABLE_PRICE \in Int
    BY DEF IsIpo, MAX_REASONABLE_PRICE
  <2>2. (low = Null \/ low \in Int) /\ (high = Null \/ high \in Int)
    BY <2>1, BoundedIs
  <2> HIDE DEF low, high
  <2> QED
    BY <1>1, <2>2
<1>4. x.lot_size = Null \/ x.lot_size > 0
  <2>1. r.lot_size \in Number /\ MAX_REASONABLE_LOT_SIZE \in Int
    BY DEF IsIpo, MAX_REASONABLE_LOT_SIZE
  <2>2. lot = Null \/ (lot \in Int /\ 1 <= lot)
    BY <2>1, BoundedIs
  <2> HIDE DEF lot
  <2> QED
    BY <1>1, <2>2
<1> QED
  BY <1>1, <1>2, <1>3, <1>4 DEF Fits, x

\* What validation passes on.
Valid(rows) ==
  /\ \A n \in DOMAIN rows : Fits(rows[n])
  /\ \A n, m \in DOMAIN rows : rows[m].source_ipo_id = rows[n].source_ipo_id => m = n

(* Of what validation passes each fits the table, and each id is there once.*)
LEMMA ValidateFits ==
  ASSUME NEW S, NEW typed \in Seq(S), \A r \in S : IsIpo(r)
  PROVE  Valid(validate(typed, Today).valid)
<1> DEFINE again(n) == \E m \in 1 .. n - 1 : typed[m].source_ipo_id = typed[n].source_ipo_id
           good     == {n \in DOMAIN typed : ~Fatal(typed[n]) /\ ~again(n)}
           fixed    == [n \in DOMAIN typed |-> Repaired(typed[n], Today)]
           valid    == Keep(fixed, good)
           C        == Cardinality(good)
           at(k)    == Place(good, k)
<1>1. validate(typed, Today).valid = valid
  BY DEF validate
<1>2. Len(typed) \in Nat /\ DOMAIN typed = 1 .. Len(typed) /\ \A n \in 1 .. Len(typed) : typed[n] \in S
  BY Elements, Zenon
<1>3. ASSUME NEW n \in good PROVE Fits(fixed[n]) /\ fixed[n].source_ipo_id = typed[n].source_ipo_id
  <2>1. n \in DOMAIN typed /\ ~Fatal(typed[n]) /\ fixed[n] = Repaired(typed[n], Today)
    OBVIOUS
  <2> HIDE DEF good, fixed
  <2>2. IsIpo(typed[n])
    BY <1>2, <2>1
  <2> QED
    BY <2>1, <2>2, RepairedFits
<1>4. ASSUME NEW n \in good, NEW m \in good, typed[n].source_ipo_id = typed[m].source_ipo_id
      PROVE  n = m
  <2>1. ~again(n) /\ ~again(m) /\ n \in DOMAIN typed /\ m \in DOMAIN typed
    OBVIOUS
  <2> HIDE DEF good
  <2>2. n \in Nat \ {0} /\ m \in Nat \ {0}
    BY <1>2, <2>1
  <2>3. ~(n < m) /\ ~(m < n)
    BY <1>4, <2>1, <2>2
  <2> QED
    BY <2>2, <2>3
<1>5. good \in SUBSET (1 .. Len(typed)) /\ \A n \in good : fixed[n] \in {fixed[j] : j \in good}
  BY <1>2
<1> HIDE DEF good, fixed
<1>6. /\ DOMAIN valid = 1 .. C
      /\ \A k \in 1 .. C : valid[k] = fixed[at(k)] /\ at(k) \in good
      /\ \A k, l \in 1 .. C : at(k) = at(l) => k = l
  BY <1>2, <1>5, KeepIs, Zenon
<1> HIDE DEF valid, C, at
<1>7. \A k \in 1 .. C : Fits(valid[k])
  BY <1>3, <1>6
<1>8. ASSUME NEW k \in 1 .. C, NEW l \in 1 .. C, valid[l].source_ipo_id = valid[k].source_ipo_id
      PROVE  l = k
  <2>1. typed[at(l)].source_ipo_id = typed[at(k)].source_ipo_id
    BY <1>3, <1>6, <1>8
  <2>2. at(l) = at(k)
    BY <1>4, <1>6, <2>1
  <2> QED
    BY <1>6, <2>2
<1> QED
  BY <1>1, <1>6, <1>7, <1>8 DEF Valid

\* What is typed can be validated, and what is reported is valid.
Fitting ==
  /\ Results
  /\ \E S : ipos \in Seq(S) /\ \A r \in S : IsIpo(r)
  /\ Valid(report.valid)

(* Nothing is valid at the start,                                          *)
LEMMA InitFitting == Init => Fitting
<1> SUFFICES ASSUME Init PROVE Fitting
  OBVIOUS
<1>1. ipos = <<>> /\ report.valid = <<>>
  BY DEF Init
<1>2. <<>> \in Seq({}) /\ DOMAIN <<>> = {}
  OBVIOUS
<1>3. Valid(<<>>)
  BY <1>2 DEF Valid
<1> QED
  BY <1>1, <1>2, <1>3, InitResults DEF Fitting

(* and the step that validates keeps what fits.                            *)
LEMMA NextFitting == Fitting /\ [Next]_vars => Fitting'
<1> SUFFICES ASSUME Fitting, [Next]_vars PROVE Fitting'
  OBVIOUS
<1>1. Results'
  BY NextResults DEF Fitting
<1>2. ASSUME UNCHANGED <<ipos, report>> PROVE Fitting'
  BY <1>1, <1>2 DEF Fitting
<1>3. ASSUME NEW s \in Strategies, CannotHandle(s) \/ Attempt(s) PROVE Fitting'
  BY <1>2, <1>3 DEF CannotHandle, Attempt
<1>4. CASE AttemptRaises \/ Choose
  BY <1>2, <1>4 DEF AttemptRaises, Choose
<1>5. CASE Normalize
  <2>1. ipos' = normalize_many(result.records, Today) /\ report' = report
    BY <1>5 DEF Normalize
  <2>2. \E S : ipos' \in Seq(S) /\ \A r \in S : IsIpo(r)
    BY <2>1, ManyType DEF Fitting, Results
  <2> QED
    BY <1>1, <2>1, <2>2 DEF Fitting
<1>6. CASE Validate
  <2>1. report' = validate(ipos, Today) /\ ipos' = ipos
    BY <1>6 DEF Validate
  <2>2. Valid(report'.valid)
    BY <2>1, ValidateFits DEF Fitting
  <2> QED
    BY <1>1, <2>1, <2>2 DEF Fitting
<1>7. CASE UNCHANGED vars
  BY <1>2, <1>7 DEF vars
<1> QED
  BY <1>3, <1>4, <1>5, <1>6, <1>7 DEF Next

(* What passes validation fits the table, one row for each id.             *)
THEOREM AlwaysValidFits == Spec => []ValidFitsTable
<1>1. Fitting => ValidFitsTable
  BY DEF Fitting, Valid, Fits, ValidFitsTable
<1> QED
  BY <1>1, InitFitting, NextFitting, PTL DEF Spec
=============================================================================

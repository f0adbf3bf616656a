---------------------------- MODULE ReportsProofs ----------------------------
(***************************************************************************)
(* Proofs about Reports: the reported run time has passed, and reports of  *)
(* periods add up.  The sums are folds over sets of rows; the first part   *)
(* shows what such a sum is, by induction over the subsets of a finite set.*)
(***************************************************************************)
EXTENDS Reports, HistorySyncProofs, FiniteSetTheorems

-----------------------------------------------------------------------------
(* Sums over finite sets *)

\* g gives the sum of d over each subset of S, as the fold computes it.
IsSum(g, d, S) ==
    g = [s \in SUBSET S |->
           IF s = {} THEN 0
           ELSE d[CHOOSE x \in s : TRUE] + g[s \ {CHOOSE x \in s : TRUE}]]

\* Induction over the subsets of a finite set, for a set of good ones.
LEMMA SubsetInduction ==
    ASSUME NEW S, IsFiniteSet(S), NEW Good,
           \A T \in SUBSET S : (\A U \in SUBSET T : U # T => U \in Good) => T \in Good
    PROVE  \A T \in SUBSET S : T \in Good
<1>1. IsWellFoundedOn(StrictSubsetOrdering(S), SUBSET S)
  <2>1. FiniteSubsetsOf(S) = SUBSET S
    BY FS_FiniteSubsetsOfFinite
  <2> QED  BY <2>1, FS_StrictSubsetOrderingWellFounded
<1> DEFINE Bad == {T \in SUBSET S : T \notin Good}
<1> SUFFICES ASSUME Bad # {} PROVE FALSE
  OBVIOUS
<1>2. Bad \subseteq SUBSET S
  OBVIOUS
<1> HIDE DEF Bad
<1>3. PICK T \in Bad : \A U \in Bad : ~(<<U, T>> \in StrictSubsetOrdering(S))
  BY <1>1, <1>2, WFMin
<1>4. \A U \in SUBSET T : U # T => U \in Good
  BY <1>2, <1>3 DEF StrictSubsetOrdering, Bad
<1>5. T \in SUBSET S /\ T \notin Good
  BY <1>3 DEF Bad
<1> QED  BY <1>4, <1>5

\* Two sums of one function agree wherever both are defined.
LEMMA SumIsUnique ==
    ASSUME NEW d, NEW S, NEW T, IsFiniteSet(S), NEW g, NEW h, IsSum(g, d, S), IsSum(h, d, T)
    PROVE  \A U \in SUBSET S : U \subseteq T => g[U] = h[U]
<1> DEFINE Good == {U \in SUBSET S : U \subseteq T => g[U] = h[U]}
<1>1. ASSUME NEW U \in SUBSET S, \A V \in SUBSET U : V # U => V \in Good, U \subseteq T
      PROVE  g[U] = h[U]
  <2>1. CASE U = {}
    BY <1>1, <2>1 DEF IsSum
  <2>2. CASE U # {}
    <3> DEFINE x == CHOOSE y \in U : TRUE
    <3>1. x \in U
      BY <2>2
    <3>2. g[U] = d[x] + g[U \ {x}] /\ h[U] = d[x] + h[U \ {x}]
      BY <1>1, <2>2 DEF IsSum
    <3>3. U \ {x} \in Good
      BY <1>1, <3>1
    <3> QED  BY <1>1, <3>2, <3>3
  <2> QED  BY <2>1, <2>2
<1>2. \A U \in SUBSET S : (\A V \in SUBSET U : V # U => V \in Good) => U \in Good
  BY <1>1
<1> HIDE DEF Good
<1>3. \A U \in SUBSET S : U \in Good
  BY <1>2, SubsetInduction
<1> QED  BY <1>3 DEF Good

\* There is such a function for every finite set.
LEMMA SumExists ==
    ASSUME NEW d, NEW S, IsFiniteSet(S)
    PROVE  \E g : IsSum(g, d, S)
<1> DEFINE Good == {T \in SUBSET S : \E g : IsSum(g, d, T)}
           The(T) == CHOOSE g : IsSum(g, d, T)
           Pick(T) == CHOOSE x \in T : TRUE
<1>1. ASSUME NEW T \in SUBSET S, \A U \in SUBSET T : U # T => U \in Good
      PROVE  \E g : IsSum(g, d, T)
  <2>1. \A U \in SUBSET T : U # T => IsSum(The(U), d, U)
    BY <1>1
  <2> DEFINE Value(s) == IF s = {} THEN 0 ELSE d[Pick(s)] + The(s \ {Pick(s)})[s \ {Pick(s)}]
             g == [s \in SUBSET T |-> Value(s)]
  <2>2. ASSUME NEW s \in SUBSET T, s # {}
        PROVE  g[s \ {Pick(s)}] = The(s \ {Pick(s)})[s \ {Pick(s)}]
    <3> DEFINE r == s \ {Pick(s)}
    <3>1. r \in SUBSET T /\ r # T
      <4>1. Pick(s) \in s
        BY <2>2
      <4> QED  BY <4>1
    <3>2. IsSum(The(r), d, r)
      BY <2>1, <3>1
    <3>3. CASE r = {}
      BY <3>1, <3>2, <3>3 DEF IsSum
    <3>4. CASE r # {}
      <4> DEFINE q == r \ {Pick(r)}
      <4>1. Pick(r) \in r
        BY <3>4
      <4>2. q \in SUBSET T /\ q # T /\ q \subseteq r
        BY <3>1, <4>1
      <4>3. IsSum(The(q), d, q)
        BY <2>1, <4>2
      <4> HIDE DEF The
      <4>4. The(r)[r] = d[Pick(r)] + The(r)[q]
        BY <3>2, <3>4 DEF IsSum
      <4>5. The(r)[q] = The(q)[q]
        <5>1. IsFiniteSet(q)
          BY <4>2, FS_Subset
        <5> HIDE DEF q, r, Pick
        <5> QED  BY <3>2, <4>2, <4>3, <5>1, SumIsUnique
      <4>6. g[r] = d[Pick(r)] + The(q)[q]
        BY <3>1, <3>4
      <4> QED  BY <4>4, <4>5, <4>6
    <3> QED  BY <3>3, <3>4
  <2>3. IsSum(g, d, T)
    <3> HIDE DEF The
    <3>1. \A s \in SUBSET T : s # {} => Value(s) = d[Pick(s)] + g[s \ {Pick(s)}]
      BY <2>2
    <3> QED  BY <3>1 DEF IsSum
  <2> QED  BY <2>3
<1>2. \A T \in SUBSET S : (\A U \in SUBSET T : U # T => U \in Good) => T \in Good
  BY <1>1
<1> HIDE DEF Good
<1>3. \A T \in SUBSET S : T \in Good
  BY <1>2, SubsetInduction
<1> QED  BY <1>3 DEF Good

\* A sum is nothing, or one value and the sum of the others.
LEMMA SumStep ==
    ASSUME NEW d, NEW S, IsFiniteSet(S)
    PROVE  /\ SumFunctionOnSet(d, {}) = 0
           /\ S # {} => \E x \in S :
                SumFunctionOnSet(d, S) = d[x] + SumFunctionOnSet(d, S \ {x})
<1> DEFINE The(T) == CHOOSE g : IsSum(g, d, T)
<1>1. \A T : SumFunctionOnSet(d, T) = The(T)[T]
  BY DEF SumFunctionOnSet, FoldFunctionOnSet, MapThenFoldSet, IsSum
<1>2. \A T \in SUBSET S : IsSum(The(T), d, T)
  <2>1. \A T \in SUBSET S : IsFiniteSet(T)
    BY FS_Subset
  <2> QED  BY <2>1, SumExists
<1> HIDE DEF The
<1>3. SumFunctionOnSet(d, {}) = 0
  BY <1>1, <1>2 DEF IsSum
<1>4. ASSUME S # {}
      PROVE  \E x \in S : SumFunctionOnSet(d, S) = d[x] + SumFunctionOnSet(d, S \ {x})
  <2> DEFINE x == CHOOSE y \in S : TRUE
             r == S \ {x}
  <2>1. x \in S
    BY <1>4
  <2>2. The(S)[S] = d[x] + The(S)[r]
    BY <1>2, <1>4 DEF IsSum
  <2>3. IsSum(The(S), d, S) /\ IsSum(The(r), d, r) /\ r \in SUBSET S /\ IsFiniteSet(r)
    BY <1>2, FS_Subset
  <2> HIDE DEF r
  <2>4. The(S)[r] = The(r)[r]
    BY <2>3, SumIsUnique
  <2> QED  BY <1>1, <2>1, <2>2, <2>4 DEF r
<1> QED  BY <1>3, <1>4

\* Sums of natural numbers are natural numbers.
LEMMA SumType ==
    ASSUME NEW d, NEW S, IsFiniteSet(S), \A x \in S : d[x] \in Nat
    PROVE  \A T \in SUBSET S : SumFunctionOnSet(d, T) \in Nat
<1> DEFINE Good == {T \in SUBSET S : SumFunctionOnSet(d, T) \in Nat}
<1>1. ASSUME NEW T \in SUBSET S, \A U \in SUBSET T : U # T => U \in Good
      PROVE  SumFunctionOnSet(d, T) \in Nat
  <2>1. IsFiniteSet(T)
    BY FS_Subset
  <2>2. CASE T = {}
    BY <2>1, <2>2, SumStep
  <2>3. CASE T # {}
    <3>1. PICK x \in T : SumFunctionOnSet(d, T) = d[x] + SumFunctionOnSet(d, T \ {x})
      BY <2>1, <2>3, SumStep
    <3>2. SumFunctionOnSet(d, T \ {x}) \in Nat
      BY <1>1
    <3> QED  BY <3>1, <3>2
  <2> QED  BY <2>2, <2>3
<1>2. \A T \in SUBSET S : (\A U \in SUBSET T : U # T => U \in Good) => T \in Good
  BY <1>1
<1> HIDE DEF Good
<1>3. \A T \in SUBSET S : T \in Good
  BY <1>2, SubsetInduction
<1> QED  BY <1>3 DEF Good

\* Which value is taken out first makes no difference.
LEMMA SumWithout ==
    ASSUME NEW d, NEW S, IsFiniteSet(S), \A x \in S : d[x] \in Nat
    PROVE  \A T \in SUBSET S : \A x \in T :
             SumFunctionOnSet(d, T) = d[x] + SumFunctionOnSet(d, T \ {x})
<1> DEFINE Total(T) == SumFunctionOnSet(d, T)
           Good == {T \in SUBSET S : \A x \in T : Total(T) = d[x] + Total(T \ {x})}
<1>0. \A T \in SUBSET S : Total(T) \in Nat
  BY SumType
<1>1. ASSUME NEW T \in SUBSET S, \A U \in SUBSET T : U # T => U \in Good, NEW x \in T
      PROVE  Total(T) = d[x] + Total(T \ {x})
  <2>1. IsFiniteSet(T)
    BY FS_Subset
  <2>2. PICK y \in T : Total(T) = d[y] + Total(T \ {y})
    BY <2>1, SumStep
  <2>3. CASE x = y
    BY <2>2, <2>3
  <2>4. CASE x # y
    <3> DEFINE rest == T \ {x, y}
    <3>1. T \ {x} \in Good /\ T \ {y} \in Good
      BY <1>1, <2>2
    <3>2. y \in T \ {x} /\ x \in T \ {y} /\ (T \ {x}) \ {y} = rest /\ (T \ {y}) \ {x} = rest
      BY <2>4
    <3>3. Total(T \ {x}) = d[y] + Total(rest) /\ Total(T \ {y}) = d[x] + Total(rest)
      BY <3>1, <3>2
    <3>4. d[x] \in Nat /\ d[y] \in Nat /\ Total(rest) \in Nat
      BY <1>0
    <3> HIDE DEF Total, rest
    <3> QED  BY <2>2, <3>3, <3>4
  <2> QED  BY <2>3, <2>4
<1>2. \A T \in SUBSET S : (\A U \in SUBSET T : U # T => U \in Good) => T \in Good
  BY <1>1
<1> HIDE DEF Good
<1>3. \A T \in SUBSET S : T \in Good
  BY <1>2, SubsetInduction
<1> QED  BY <1>3 DEF Good

\* The sum over two sets with nothing in common is the sum of their sums.
LEMMA SumSplits ==
    ASSUME NEW d, NEW S, NEW R, IsFiniteSet(S), IsFiniteSet(R), S \cap R = {},
           \A x \in S \cup R : d[x] \in Nat
    PROVE  SumFunctionOnSet(d, S \cup R) = SumFunctionOnSet(d, S) + SumFunctionOnSet(d, R)
<1> DEFINE Total(T) == SumFunctionOnSet(d, T)
           Good == {T \in SUBSET S : Total(T \cup R) = Total(T) + Total(R)}
<1>0. IsFiniteSet(S \cup R)
  BY FS_Union
<1>1. \A T \in SUBSET (S \cup R) : Total(T) \in Nat
  BY <1>0, SumType
<1>2. \A T \in SUBSET (S \cup R) : \A x \in T : Total(T) = d[x] + Total(T \ {x})
  <2> HIDE DEF Total
  <2> QED  BY <1>0, SumWithout DEF Total
<1>3. ASSUME NEW T \in SUBSET S, \A U \in SUBSET T : U # T => U \in Good
      PROVE  Total(T \cup R) = Total(T) + Total(R)
  <2>1. CASE T = {}
    <3>1. Total({}) = 0
      BY SumStep
    <3>2. T \cup R = R /\ Total(R) \in Nat
      BY <1>1, <2>1
    <3> HIDE DEF Total
    <3> QED  BY <2>1, <3>1, <3>2
  <2>2. CASE T # {}
    <3>1. PICK x : x \in T
      BY <2>2
    <3> DEFINE U == T \ {x}
    <3>2. (T \cup R) \ {x} = U \cup R
      BY <3>1
    <3>3. Total(U \cup R) = Total(U) + Total(R)
      BY <1>3, <3>1
    <3>4. Total(T \cup R) = d[x] + Total(U \cup R) /\ Total(T) = d[x] + Total(U)
      <4>1. T \cup R \in SUBSET (S \cup R) /\ T \in SUBSET (S \cup R)
        OBVIOUS
      <4> HIDE DEF Total
      <4> QED  BY <1>2, <3>1, <3>2, <4>1
    <3>5. d[x] \in Nat /\ Total(U) \in Nat /\ Total(R) \in Nat
      BY <1>1, <3>1
    <3> HIDE DEF Total, U
    <3> QED  BY <3>3, <3>4, <3>5
  <2> QED  BY <2>1, <2>2
<1>4. \A T \in SUBSET S : (\A U \in SUBSET T : U # T => U \in Good) => T \in Good
  BY <1>3
<1> HIDE DEF Good
<1>5. \A T \in SUBSET S : T \in Good
  BY <1>4, SubsetInduction
<1> QED  BY <1>5 DEF Good

-----------------------------------------------------------------------------
(* Run time *)

\* The rows that count for the run time, among those given.
Timed(rows) == {k \in rows : Starts(k) # NoTime /\ Ends(k) # NoTime}

\* What the invariant says of the times of rows, where a row has them.
LEMMA TimesOfRows ==
    ASSUME IInv
    PROVE  /\ IsFiniteSet(DOMAIN history)
           /\ \A k \in DOMAIN history :
                /\ history[k].entry \in Nat /\ history[k].entry <= Len(entries)
                /\ Starts(k) \in 0 .. MaxTime \cup {NoTime}
                /\ Ends(k) \in 0 .. MaxTime \cup {NoTime}
           /\ \A k \in Timed(DOMAIN history) :
                Starts(k) <= Ends(k) /\ Ends(k) <= now
           /\ \A k, l \in Timed(DOMAIN history) : k # l =>
                  \/ history[k].entry < history[l].entry /\ Ends(k) <= Starts(l)
                  \/ history[l].entry < history[k].entry /\ Ends(l) <= Starts(k)
<1> USE DEF IInv
<1>1. DOMAIN history = 1 .. Len(history) /\ Len(history) \in Nat
  BY DEF TypeOK
<1>2. IsFiniteSet(DOMAIN history)
  BY <1>1, FS_Interval
<1>3. entries \in Seq(Entry) /\ Len(entries) \in Nat /\ DOMAIN entries = 1 .. Len(entries)
  BY DEF TypeOK
<1>4. \A k \in DOMAIN history : history[k].entry \in DOMAIN entries
  BY DEF RecordsAreFinal
<1>5. \A k \in DOMAIN history : /\ Starts(k) \in 0 .. MaxTime \cup {NoTime}
                                /\ Ends(k) \in 0 .. MaxTime \cup {NoTime}
  <2>1. \A r \in Record : /\ r.start \in 0 .. MaxTime \cup {NoTime}
                          /\ r.end \in 0 .. MaxTime \cup {NoTime}
    BY DEF Record
  <2>2. \A k \in DOMAIN history : history[k] \in Record
    BY DEF TypeOK
  <2> QED  BY <2>1, <2>2 DEF Starts, Ends
\* A row that has its times has those of its entry.
<1>6. \A k \in Timed(DOMAIN history) :
        /\ k \in DOMAIN history
        /\ Starts(k) = entries[history[k].entry].start
        /\ Ends(k) = entries[history[k].entry].end
        /\ entries[history[k].entry].end # NoTime
  BY DEF Timed, Starts, Ends, RecordsAreFinal, Answered
<1>7. \A k \in Timed(DOMAIN history) : Starts(k) <= Ends(k) /\ Ends(k) <= now
  BY <1>4, <1>6 DEF PrintsInTurn
<1>8. ASSUME NEW k \in Timed(DOMAIN history), NEW l \in Timed(DOMAIN history), k # l
      PROVE  \/ history[k].entry < history[l].entry /\ Ends(k) <= Starts(l)
             \/ history[l].entry < history[k].entry /\ Ends(l) <= Starts(k)
  <2>1. history[k].entry # history[l].entry
    BY <1>6, <1>8 DEF RecordsAreDistinct
  <2> QED  BY <1>3, <1>4, <1>6, <2>1 DEF PrintsInTurn
<1> QED  BY <1>2, <1>3, <1>4, <1>5, <1>7, <1>8

\* How long a print took whose times are known.
LEMMA DurationOfRow ==
    ASSUME IInv, NEW k \in Timed(DOMAIN history)
    PROVE  /\ Starts(k) \in Nat /\ Ends(k) \in Nat
           /\ Duration[k] = Ends(k) - Starts(k) /\ Duration[k] \in Nat
<1>1. k \in DOMAIN history /\ Starts(k) # NoTime /\ Ends(k) # NoTime
  BY DEF Timed
<1>2. Starts(k) \in 0 .. MaxTime /\ Ends(k) \in 0 .. MaxTime /\ Starts(k) <= Ends(k)
  BY <1>1, TimesOfRows
<1>3. Duration[k] = Ends(k) - Starts(k)
  BY <1>1 DEF Duration
<1> QED  BY <1>2, <1>3, BoundsAssumption

\* Among some rows there is one of the latest print.
LEMMA LatestPrint ==
    ASSUME IInv, NEW rows \in SUBSET DOMAIN history, rows # {}
    PROVE  \E k \in rows : \A l \in rows : history[l].entry <= history[k].entry
<1> DEFINE ago == {Len(entries) - history[k].entry : k \in rows}
<1>1. /\ Len(entries) \in Nat
      /\ \A k \in rows : history[k].entry \in Nat /\ Len(entries) - history[k].entry \in Nat
  BY TimesOfRows DEF IInv, TypeOK
<1>2. ago \in SUBSET Nat /\ ago # {}
  BY <1>1
<1>3. \A k \in rows : Len(entries) - history[k].entry \in ago
  OBVIOUS
<1>4. \A a \in ago : \E k \in rows : a = Len(entries) - history[k].entry
  OBVIOUS
<1> HIDE DEF ago
<1>5. PICK a \in ago : \A b \in ago : ~(<<b, a>> \in OpToRel(<, Nat))
  BY <1>2, NatLessThanWellFounded, WFMin
<1>6. \A b \in ago : a <= b
  <2>1. \A b \in ago : b \in Nat /\ a \in Nat
    BY <1>2
  <2>2. \A b \in ago : ~(b < a)
    BY <1>5, <2>1 DEF OpToRel
  <2> QED  BY <2>1, <2>2
<1>7. PICK k \in rows : a = Len(entries) - history[k].entry
  BY <1>4
<1>8. ASSUME NEW l \in rows PROVE history[l].entry <= history[k].entry
  <2>1. Len(entries) - history[k].entry <= Len(entries) - history[l].entry
    BY <1>3, <1>6, <1>7
  <2> QED  BY <1>1, <2>1
<1> QED  BY <1>8

\* Prints in turn that have ended by t have lasted no longer than t in all.
LEMMA TurnsFitIn ==
    ASSUME IInv
    PROVE  \A rows \in SUBSET Timed(DOMAIN history) : \A t \in Nat :
             (\A k \in rows : Ends(k) <= t) => SumFunctionOnSet(Duration, rows) <= t
<1> DEFINE all == Timed(DOMAIN history)
           Total(rows) == SumFunctionOnSet(Duration, rows)
           Good == {rows \in SUBSET all :
                      \A t \in Nat : (\A k \in rows : Ends(k) <= t) => Total(rows) <= t}
<1>1. IsFiniteSet(all) /\ all \subseteq DOMAIN history
  BY TimesOfRows, FS_Subset DEF Timed
<1>2. \A k \in all : /\ Starts(k) \in Nat /\ Ends(k) \in Nat
                     /\ Duration[k] = Ends(k) - Starts(k) /\ Duration[k] \in Nat
  BY DurationOfRow
<1>3. \A rows \in SUBSET all : Total(rows) \in Nat
  <2> HIDE DEF all
  <2> QED  BY <1>1, <1>2, SumType
<1>4. \A rows \in SUBSET all : \A k \in rows : Total(rows) = Duration[k] + Total(rows \ {k})
  <2> HIDE DEF all
  <2> QED  BY <1>1, <1>2, SumWithout
<1>5. ASSUME NEW rows \in SUBSET all, \A U \in SUBSET rows : U # rows => U \in Good,
             NEW t \in Nat, \A k \in rows : Ends(k) <= t
      PROVE  Total(rows) <= t
  <2>1. CASE rows = {}
    BY <2>1, SumStep, FS_EmptySet
  <2>2. CASE rows # {}
    <3>1. PICK k \in rows : \A l \in rows : history[l].entry <= history[k].entry
      BY <1>1, <2>2, LatestPrint
    <3>2. /\ Starts(k) \in Nat /\ Ends(k) \in Nat
          /\ \A l \in rows \ {k} : Ends(l) <= Starts(k)
      <4>1. \A l \in rows : l \in all /\ history[l].entry \in Nat
        BY <1>1, TimesOfRows
      <4>2. Starts(k) \in Nat /\ Ends(k) \in Nat
        BY <1>2, <4>1
      <4> QED  BY <3>1, <4>1, <4>2, TimesOfRows
    <3>3. Total(rows \ {k}) <= Starts(k)
      <4>1. rows \ {k} \in Good
        BY <1>5
      <4> HIDE DEF Total
      <4> QED  BY <3>2, <4>1
    <3>4. /\ Total(rows) = Duration[k] + Total(rows \ {k})
          /\ Duration[k] = Ends(k) - Starts(k) /\ Total(rows \ {k}) \in Nat /\ Ends(k) <= t
      BY <1>2, <1>3, <1>4, <1>5
    <3> HIDE DEF Total
    <3> QED  BY <3>2, <3>3, <3>4
  <2> QED  BY <2>1, <2>2
<1>6. \A rows \in SUBSET all : (\A U \in SUBSET rows : U # rows => U \in Good) => rows \in Good
  BY <1>5
<1> HIDE DEF Good, all
<1>7. \A rows \in SUBSET all : rows \in Good
  BY <1>1, <1>6, SubsetInduction
<1> QED  BY <1>7 DEF Good, all

\* The run time reported for all time is no longer than the time that has
\* passed: each print is counted once, and prints follow each other.
THEOREM ReportedRunTimeHasPassed == Spec => []RunTimeHasPassed
<1>1. ASSUME IInv PROVE RunTimeHasPassed
  <2>1. Selected(NoTime, NoTime) = DOMAIN history
    BY DEF Selected
  <2>2. \A k \in Timed(DOMAIN history) : Ends(k) <= now
    BY <1>1, TimesOfRows DEF Timed
  <2>3. now \in Nat
    BY <1>1, BoundsAssumption DEF IInv, TypeOK
  <2>4. SumFunctionOnSet(Duration, Timed(DOMAIN history)) <= now
    BY <1>1, <2>2, <2>3, TurnsFitIn
  <2> QED  BY <2>1, <2>4 DEF RunTimeHasPassed, RunTime, Timed
<1> QED  BY <1>1, HistoryInvariant, PTL

-----------------------------------------------------------------------------
(* Reports of periods *)

\* Counting two sets that have nothing in common.
LEMMA CardinalitySplits ==
    ASSUME NEW S, NEW T, IsFiniteSet(S), IsFiniteSet(T), S \cap T = {}
    PROVE  Cardinality(S \cup T) = Cardinality(S) + Cardinality(T)
<1>1. Cardinality(S \cup T) = Cardinality(S) + Cardinality(T) - Cardinality(S \cap T)
  BY FS_Union
<1>2. Cardinality(S \cap T) = 0
  BY FS_EmptySet
<1>3. Cardinality(S) \in Nat /\ Cardinality(T) \in Nat
  BY FS_CardinalityType
<1> QED  BY <1>1, <1>2, <1>3

\* Rows of two kinds are counted together or one kind after the other.
LEMMA CountSplits ==
    ASSUME IInv, NEW P \in SUBSET DOMAIN history, NEW Q \in SUBSET DOMAIN history,
           P \cap Q = {}, NEW status
    PROVE  /\ Count(P \cup Q, status) = Count(P, status) + Count(Q, status)
           /\ Count(P, status) \in Nat
<1> DEFINE Of(rows) == {k \in rows : history[k].status = status}
<1>1. IsFiniteSet(Of(P)) /\ IsFiniteSet(Of(Q))
  BY TimesOfRows, FS_Subset
<1>2. Of(P \cup Q) = Of(P) \cup Of(Q) /\ Of(P) \cap Of(Q) = {}
  OBVIOUS
<1>3. \A rows : Count(rows, status) = Cardinality(Of(rows))
  BY DEF Count
<1> HIDE DEF Of
<1>4. Cardinality(Of(P)) \in Nat
  BY <1>1, FS_CardinalityType
<1>5. Cardinality(Of(P) \cup Of(Q)) = Cardinality(Of(P)) + Cardinality(Of(Q))
  BY <1>1, <1>2, CardinalitySplits
<1> QED  BY <1>2, <1>3, <1>4, <1>5

\* So with the run time.
LEMMA RunTimeSplits ==
    ASSUME IInv, NEW P \in SUBSET DOMAIN history, NEW Q \in SUBSET DOMAIN history,
           P \cap Q = {}
    PROVE  RunTime(P \cup Q) = RunTime(P) + RunTime(Q)
<1>1. Timed(P \cup Q) = Timed(P) \cup Timed(Q) /\ Timed(P) \cap Timed(Q) = {}
  BY DEF Timed
<1>2. IsFiniteSet(Timed(P)) /\ IsFiniteSet(Timed(Q))
  BY TimesOfRows, FS_Subset DEF Timed
<1>3. \A k \in Timed(P) \cup Timed(Q) : Duration[k] \in Nat
  <2>1. Timed(P) \cup Timed(Q) \subseteq Timed(DOMAIN history)
    BY DEF Timed
  <2> QED  BY <2>1, DurationOfRow
<1>4. \A rows : RunTime(rows) = SumFunctionOnSet(Duration, Timed(rows))
  BY DEF RunTime, Timed
<1> QED  BY <1>1, <1>2, <1>3, <1>4, SumSplits

\* Week by week all finished prints are counted but those without a start.
LEMMA WeeksAddUp ==
    ASSUME IInv, NEW rows \in SUBSET DOMAIN history
    PROVE  Count(rows, "finished") = WeeklySum(rows) + Count(Undated(rows), "finished")
<1> DEFINE weekly == [w \in Weeks |-> WeeklyCount(rows, w)]
           dated == rows \ Undated(rows)
           Week(k) == Starts(k) \div SecondsPerWeek
           In(W) == {k \in dated : history[k].status = "finished" /\ Week(k) \in W}
           Good == {W \in SUBSET Weeks : SumFunctionOnSet(weekly, W) = Cardinality(In(W))}
<1>1. IsFiniteSet(Weeks)
  <2> DEFINE week == [t \in 0 .. MaxTime |-> t \div SecondsPerWeek]
  <2>1. week \in Surjection(0 .. MaxTime, Weeks)
    BY DEF Surjection, Weeks
  <2>2. IsFiniteSet(0 .. MaxTime)
    BY BoundsAssumption, FS_Interval
  <2> QED  BY <2>1, <2>2, FS_Surjection
<1>2. \A k \in dated : Starts(k) \in 0 .. MaxTime /\ Week(k) \in Weeks
  BY TimesOfRows DEF Weeks, Undated
<1>3. \A W : IsFiniteSet(In(W))
  BY TimesOfRows, FS_Subset
<1>4. \A w \in Weeks : weekly[w] = Cardinality(In({w}))
  <2>1. ASSUME NEW w \in Weeks
        PROVE  In({w}) = {k \in rows : /\ history[k].status = "finished"
                                       /\ Starts(k) # NoTime
                                       /\ Starts(k) \div SecondsPerWeek = w}
    BY DEF Undated
  <2> QED  BY <2>1 DEF WeeklyCount
<1>5. ASSUME NEW W \in SUBSET Weeks, \A U \in SUBSET W : U # W => U \in Good
      PROVE  SumFunctionOnSet(weekly, W) = Cardinality(In(W))
  <2>1. IsFiniteSet(W)
    BY <1>1, FS_Subset
  <2>2. CASE W = {}
    <3>1. In(W) = {}
      BY <2>2
    <3> HIDE DEF In, weekly
    <3> QED  BY <2>1, <2>2, <3>1, SumStep, FS_EmptySet
  <2>3. CASE W # {}
    <3>1. PICK w \in W : SumFunctionOnSet(weekly, W)
                           = weekly[w] + SumFunctionOnSet(weekly, W \ {w})
      <4> HIDE DEF weekly
      <4> QED  BY <2>1, <2>3, SumStep
    <3>2. SumFunctionOnSet(weekly, W \ {w}) = Cardinality(In(W \ {w}))
      BY <1>5
    <3>3. In(W) = In({w}) \cup In(W \ {w}) /\ In({w}) \cap In(W \ {w}) = {}
      OBVIOUS
    <3> HIDE DEF In, weekly
    <3>4. Cardinality(In({w}) \cup In(W \ {w}))
            = Cardinality(In({w})) + Cardinality(In(W \ {w}))
      BY <1>3, <3>3, CardinalitySplits
    <3> QED  BY <1>4, <3>1, <3>2, <3>3, <3>4
  <2> QED  BY <2>2, <2>3
<1>6. \A W \in SUBSET Weeks : (\A U \in SUBSET W : U # W => U \in Good) => W \in Good
  BY <1>5
<1>7. In(Weeks) = {k \in dated : history[k].status = "finished"}
  BY <1>2
<1>8. WeeklySum(rows) = SumFunctionOnSet(weekly, Weeks)
  BY DEF WeeklySum, SumFunction
<1>9. rows = dated \cup Undated(rows) /\ dated \cap Undated(rows) = {}
  BY DEF Undated
<1> HIDE DEF Good, weekly, In, dated
<1>10. Weeks \in Good
  BY <1>1, <1>6, SubsetInduction
<1>11. WeeklySum(rows) = Count(dated, "finished")
  BY <1>7, <1>8, <1>10 DEF Good, Count
<1>12. Count(rows, "finished") = Count(dated, "finished") + Count(Undated(rows), "finished")
  <2>1. dated \in SUBSET DOMAIN history /\ Undated(rows) \in SUBSET DOMAIN history
    BY <1>9
  <2> QED  BY <1>9, <2>1, CountSplits
<1> QED  BY <1>11, <1>12

\* A print that starts when one period ends and the next begins is in exactly
\* one of their reports; the report of all time has the undated prints besides,
\* in its error rate only; and the weeks hold the finished prints but those.
THEOREM PeriodsAddUp == Spec => []ReportsAddUp
<1>1. ASSUME IInv, NEW t \in 0 .. MaxTime
      PROVE  LET all == Selected(NoTime, NoTime)
                 earlier == Selected(NoTime, t)
                 later == Selected(t, NoTime)
             IN /\ RunTime(all) = RunTime(earlier) + RunTime(later)
                /\ \A i \in 1 .. 2 :
                     ErrorRate(all)[i] = ErrorRate(earlier)[i] + ErrorRate(later)[i]
                                             + ErrorRate(Undated(all))[i]
                /\ \A rows \in {all, earlier, later} :
                     Count(rows, "finished")
                       = WeeklySum(rows) + Count(Undated(rows), "finished")
  <2> DEFINE all == Selected(NoTime, NoTime)
             earlier == Selected(NoTime, t)
             later == Selected(t, NoTime)
             undated == Undated(all)
             dated == earlier \cup later
  <2>1. /\ earlier \subseteq DOMAIN history /\ later \subseteq DOMAIN history
        /\ all \subseteq DOMAIN history
    BY DEF Selected
  <2>2. /\ all = dated \cup undated /\ dated \cap undated = {}
        /\ earlier \cap later = {}
    <3>1. t # NoTime /\ t \in Int
      BY DEF NoTime
    <3>2. \A k \in DOMAIN history : Starts(k) \in Int
      BY <1>1, TimesOfRows DEF NoTime
    <3> QED  BY <3>1, <3>2 DEF Selected, Undated
  <2>3. undated \subseteq DOMAIN history /\ Timed(undated) = {}
    BY <2>1 DEF Undated, Timed
  <2> HIDE DEF all, earlier, later, undated
  <2>4. RunTime(all) = RunTime(earlier) + RunTime(later)
    <3>1. RunTime(all) = RunTime(earlier \cup later)
      <4>1. Timed(all) = Timed(earlier \cup later)
        BY <2>2, <2>3 DEF Timed
      <4> QED  BY <4>1 DEF RunTime, Timed
    <3> QED  BY <1>1, <2>1, <2>2, <3>1, RunTimeSplits
  <2>5. \A status : /\ Count(all, status) = Count(earlier, status) + Count(later, status)
                                                + Count(undated, status)
                    /\ Count(earlier, status) \in Nat /\ Count(later, status) \in Nat
                    /\ Count(undated, status) \in Nat
    <3> TAKE status
    <3>1. Count(all, status) = Count(dated, status) + Count(undated, status)
      BY <1>1, <2>1, <2>2, <2>3, CountSplits
    <3>2. /\ Count(dated, status) = Count(earlier, status) + Count(later, status)
          /\ Count(earlier, status) \in Nat
      BY <1>1, <2>1, <2>2, CountSplits
    <3>3. Count(later, status) \in Nat /\ Count(undated, status) \in Nat
      <4>1. later \cap {} = {} /\ undated \cap {} = {}
        OBVIOUS
      <4> QED  BY <1>1, <2>1, <2>3, <4>1, CountSplits
    <3> QED  BY <3>1, <3>2, <3>3
  <2>6. \A rows : /\ ErrorRate(rows)[1] = Count(rows, "failed")
                  /\ ErrorRate(rows)[2] = Count(rows, "failed") + Count(rows, "finished")
    BY DEF ErrorRate
  <2>7. \A i \in 1 .. 2 : ErrorRate(all)[i] = ErrorRate(earlier)[i] + ErrorRate(later)[i]
                                                  + ErrorRate(undated)[i]
    <3>1. \A i \in 1 .. 2 : i = 1 \/ i = 2
      OBVIOUS
    <3>2. /\ ErrorRate(all)[1] = ErrorRate(earlier)[1] + ErrorRate(later)[1]
                                     + ErrorRate(undated)[1]
          /\ ErrorRate(all)[2] = ErrorRate(earlier)[2] + ErrorRate(later)[2]
                                     + ErrorRate(undated)[2]
      BY <2>5, <2>6
    <3> QED  BY <3>1, <3>2
  <2>8. \A rows \in {all, earlier, later} :
          Count(rows, "finished") = WeeklySum(rows) + Count(Undated(rows), "finished")
    BY <1>1, <2>1, WeeksAddUp
  <2> QED  BY <2>4, <2>7, <2>8 DEF all, earlier, later, undated
<1>2. IInv => ReportsAddUp
  BY <1>1 DEF ReportsAddUp
<1> QED  BY <1>2, HistoryInvariant, PTL
=============================================================================

------------------------ MODULE DriverRegistryProofs ------------------------
(***************************************************************************)
(* Proofs about DriverRegistry, for all versions, ranges and models: the   *)
(* order of versions is one, so that ranges have no gaps; zeros at the end *)
(* of a version do not matter; what a range has decided stays decided.     *)
(***************************************************************************)
EXTENDS DriverRegistry, WellFoundedInduction, TLAPS

-----------------------------------------------------------------------------
(* The order of versions *)

\* Numbers of a version are naturals, the padding included.
LEMMA PartType ==
    ASSUME NEW v \in Seq(Nat), NEW i \in Nat \ {0}
    PROVE  Part(v, i) \in Nat /\ (Part(v, i) # 0 => i <= Len(v))
BY DEF Part

\* How far versions are padded does not matter.
LEMMA BeforeUnbounded ==
    ASSUME NEW v \in Seq(Nat), NEW w \in Seq(Nat)
    PROVE  Before(v, w) <=> \E i \in Nat \ {0} :
                                /\ Part(v, i) < Part(w, i)
                                /\ \A j \in 1 .. i - 1 : Part(v, j) = Part(w, j)
<1>1. Longer(v, w) \in Nat /\ Len(v) <= Longer(v, w) /\ Len(w) <= Longer(v, w)
  BY DEF Longer
<1>2. ASSUME NEW i \in Nat \ {0}, Part(v, i) < Part(w, i)
      PROVE  i \in 1 .. Longer(v, w)
  <2>1. Part(w, i) # 0
    BY <1>2, PartType
  <2> QED  BY <1>1, <2>1, PartType
<1> QED  BY <1>1, <1>2 DEF Before

\* No version is before itself, or before one that is before it.
LEMMA BeforeAsymmetric ==
    ASSUME NEW v \in Seq(Nat), NEW w \in Seq(Nat), Before(v, w)
    PROVE  ~Before(w, v)
<1> SUFFICES ASSUME Before(w, v) PROVE FALSE
  OBVIOUS
<1>1. PICK i \in Nat \ {0} : /\ Part(v, i) < Part(w, i)
                             /\ \A j \in 1 .. i - 1 : Part(v, j) = Part(w, j)
  BY BeforeUnbounded
<1>2. PICK k \in Nat \ {0} : /\ Part(w, k) < Part(v, k)
                             /\ \A j \in 1 .. k - 1 : Part(w, j) = Part(v, j)
  BY BeforeUnbounded
<1>3. CASE i < k
  BY <1>1, <1>2, <1>3, PartType
<1>4. CASE k < i
  BY <1>1, <1>2, <1>4, PartType
<1>5. CASE i = k
  BY <1>1, <1>2, <1>5, PartType
<1> QED  BY <1>3, <1>4, <1>5

\* The order is transitive.
LEMMA BeforeTransitive ==
    ASSUME NEW v \in Seq(Nat), NEW w \in Seq(Nat), NEW x \in Seq(Nat),
           Before(v, w), Before(w, x)
    PROVE  Before(v, x)
<1>1. PICK i \in Nat \ {0} : /\ Part(v, i) < Part(w, i)
                             /\ \A j \in 1 .. i - 1 : Part(v, j) = Part(w, j)
  BY BeforeUnbounded
<1>2. PICK k \in Nat \ {0} : /\ Part(w, k) < Part(x, k)
                             /\ \A j \in 1 .. k - 1 : Part(w, j) = Part(x, j)
  BY BeforeUnbounded
<1> DEFINE m == IF i < k THEN i ELSE k
<1>3. m \in Nat \ {0} /\ m <= i /\ m <= k
  OBVIOUS
<1>4. \A j \in 1 .. m - 1 : Part(v, j) = Part(x, j)
  BY <1>1, <1>2, <1>3
<1>5. Part(v, m) < Part(x, m)
  <2>1. CASE i < k
    BY <1>1, <1>2, <2>1
  <2>2. CASE k < i
    BY <1>1, <1>2, <2>2
  <2>3. CASE i = k
    BY <1>1, <1>2, <2>3, PartType
  <2> QED  BY <2>1, <2>2, <2>3
<1> QED  BY <1>3, <1>4, <1>5, BeforeUnbounded

\* What _compare_versions returns, in terms of the order.
LEMMA CompareMeans ==
    ASSUME NEW v \in Seq(Nat), NEW w \in Seq(Nat)
    PROVE  /\ Compare(v, w) >= 0 <=> ~Before(v, w)
           /\ Compare(v, w) <= 0 <=> ~Before(w, v)
           /\ Compare(v, w) > 0 <=> Before(w, v)
           /\ Compare(v, w) < 0 <=> Before(v, w)
           /\ Compare(v, w) = 0 <=> ~Before(v, w) /\ ~Before(w, v)
BY BeforeAsymmetric DEF Compare

\* Versions that differ by zeros at the end compare alike with every version.
LEMMA SameVersionsCompareAlike ==
    ASSUME NEW v \in Seq(Nat), NEW w \in Seq(Nat), NEW b \in Seq(Nat), SameVersion(v, w)
    PROVE  Compare(v, b) = Compare(w, b)
<1>1. \A i \in Nat \ {0} : Part(v, i) = Part(w, i)
  BY DEF SameVersion, Part
<1>2. Before(v, b) <=> Before(w, b)
  BY <1>1, BeforeUnbounded
<1>3. Before(b, v) <=> Before(b, w)
  BY <1>1, BeforeUnbounded
<1> QED  BY <1>2, <1>3 DEF Compare

-----------------------------------------------------------------------------
(* Ranges *)

\* A constraint that excludes neither of two versions excludes none between.
LEMMA ConstraintsHaveNoGaps ==
    ASSUME NEW c \in Constraint, NEW v \in Versions, NEW w \in Versions, NEW x \in Versions,
           Before(v, w), Before(w, x), ~Excludes(c, v), ~Excludes(c, x)
    PROVE  ~Excludes(c, w)
<1> DEFINE b == c.bound
<1>1. /\ v \in Seq(Nat) /\ w \in Seq(Nat) /\ x \in Seq(Nat) /\ b \in Seq(Nat)
      /\ c.op \in Operators \cup {"malformed"}
  BY DriversAssumption DEF Constraint
<1>2. Before(w, b) => Before(v, b)
  BY <1>1, BeforeTransitive
<1>3. Before(b, w) => Before(b, x)
  BY <1>1, BeforeTransitive
<1>4. Before(b, v) => Before(b, w)
  BY <1>1, BeforeTransitive
<1>5. Before(x, b) => Before(w, b)
  BY <1>1, BeforeTransitive
<1> HIDE DEF b
<1>6. CASE c.op = "malformed"
  BY <1>6 DEF Excludes
<1>7. CASE c.op # "malformed"
  <2>1. \A y \in {v, w, x} : Excludes(c, y) <=> ~Admits(c.op, Compare(y, b))
    BY <1>7 DEF Excludes, b
  <2>2. \A y \in {v, w, x} :
            /\ Compare(y, b) >= 0 <=> ~Before(y, b)
            /\ Compare(y, b) <= 0 <=> ~Before(b, y)
            /\ Compare(y, b) > 0 <=> Before(b, y)
            /\ Compare(y, b) < 0 <=> Before(y, b)
            /\ Compare(y, b) = 0 <=> ~Before(y, b) /\ ~Before(b, y)
    BY <1>1, CompareMeans
  <2>3. Admits(c.op, Compare(v, b)) /\ Admits(c.op, Compare(x, b))
    BY <2>1
  <2>4. Admits(c.op, Compare(w, b))
    BY <1>1, <1>2, <1>3, <1>4, <1>5, <1>7, <2>2, <2>3 DEF Admits, Operators
  <2> QED  BY <2>1, <2>4
<1> QED  BY <1>6, <1>7

\* What "yes" means.
LEMMA InRangeYes ==
    ASSUME NEW v \in Versions, NEW r \in Ranges, r # Any
    PROVE  /\ InRange(v, r) = "yes" => \A i \in DOMAIN r : ~Excludes(r[i], v)
           /\ InRange(v, r) = "yes" => \A i \in DOMAIN r : r[i].op # "malformed"
           /\ (\A i \in DOMAIN r : ~Excludes(r[i], v) /\ r[i].op # "malformed")
                 => InRange(v, r) = "yes"
<1>1. r \in Seq(Constraint) /\ v # Garbled
  BY DriversAssumption
<1>2. InRange(v, r) = IF IsMisread(r, v) THEN ValueError
                      ELSE IF \E i \in DOMAIN r : Excludes(r[i], v) THEN "no" ELSE "yes"
  BY <1>1 DEF InRange
<1>3. "yes" # ValueError /\ "yes" # "no"
  BY DEF ValueError
<1>4. ASSUME InRange(v, r) = "yes"
      PROVE  \A i \in DOMAIN r : ~Excludes(r[i], v) /\ r[i].op # "malformed"
  <2>1. ~IsMisread(r, v) /\ \A i \in DOMAIN r : ~Excludes(r[i], v)
    BY <1>2, <1>3, <1>4
  <2>2. \A i \in DOMAIN r : \A j \in 1 .. i - 1 : j \in DOMAIN r
    BY <1>1
  <2> QED  BY <2>1, <2>2 DEF IsMisread
<1>5. ASSUME \A i \in DOMAIN r : ~Excludes(r[i], v) /\ r[i].op # "malformed"
      PROVE  InRange(v, r) = "yes"
  BY <1>2, <1>5 DEF IsMisread
<1> QED  BY <1>4, <1>5

\* A range that admits two versions admits every one between.
LEMMA NoGaps ==
    ASSUME NEW r \in Ranges, NEW v \in Versions, NEW w \in Versions, NEW x \in Versions,
           Before(v, w), Before(w, x), InRange(v, r) = "yes", InRange(x, r) = "yes"
    PROVE  InRange(w, r) = "yes"
<1>1. CASE r = Any
  BY <1>1 DEF InRange
<1>2. CASE r # Any
  <2>1. \A i \in DOMAIN r : r[i] \in Constraint
    BY <1>2, DriversAssumption
  <2>2. \A i \in DOMAIN r : ~Excludes(r[i], v) /\ ~Excludes(r[i], x) /\ r[i].op # "malformed"
    BY <1>2, InRangeYes
  <2>3. \A i \in DOMAIN r : ~Excludes(r[i], w)
    BY <2>1, <2>2, ConstraintsHaveNoGaps
  <2> QED  BY <1>2, <2>2, <2>3, InRangeYes
<1> QED  BY <1>1, <1>2

\* A range does not tell versions apart that are the same.
LEMMA SameVersionsInRangeAlike ==
    ASSUME NEW r \in Ranges, NEW v \in Versions, NEW w \in Versions, SameVersion(v, w)
    PROVE  InRange(v, r) = InRange(w, r)
<1>1. CASE r = Any
  BY <1>1 DEF InRange
<1>2. CASE r # Any
  <2>1. r \in Seq(Constraint) /\ v # Garbled /\ w # Garbled
    BY <1>2, DriversAssumption
  <2>2. \A i \in DOMAIN r : r[i].bound \in Seq(Nat)
    <3>1. \A i \in DOMAIN r : r[i] \in Constraint
      BY <2>1
    <3>2. \A c \in Constraint : c.bound \in Seq(Nat)
      BY DriversAssumption DEF Constraint
    <3> QED  BY <3>1, <3>2
  <2>3. v \in Seq(Nat) /\ w \in Seq(Nat)
    BY DriversAssumption
  <2>4. \A i \in DOMAIN r : Excludes(r[i], v) <=> Excludes(r[i], w)
    BY <2>2, <2>3, SameVersionsCompareAlike DEF Excludes
  <2>5. \A i \in DOMAIN r : \A j \in 1 .. i - 1 : j \in DOMAIN r
    BY <2>1
  <2>6. IsMisread(r, v) <=> IsMisread(r, w)
    BY <2>4, <2>5 DEF IsMisread
  <2> QED  BY <1>2, <2>1, <2>4, <2>6 DEF InRange
<1> QED  BY <1>1, <1>2

-----------------------------------------------------------------------------
(* Registrations *)

\* The variables keep their types.
THEOREM TypeCorrect == Spec => []TypeOK
<1>1. Init => TypeOK
  BY DEF Init, TypeOK
<1>2. ASSUME TypeOK, [Next]_vars PROVE TypeOK'
  <2>1. ASSUME NEW m \in Models, NEW d \in Drivers, NEW r \in Ranges,
               RegisterForVersionRange(m, r, d)
        PROVE  TypeOK'
    <3>1. [model |-> m, range |-> r, driver |-> d] \in Registration
      BY DEF Registration
    <3> QED  BY <1>2, <2>1, <3>1 DEF TypeOK, RegisterForVersionRange
  <2>2. ASSUME NEW m \in Models, NEW d \in Drivers, RegisterForModel(m, d)
        PROVE  TypeOK'
    BY <1>2, <2>2 DEF TypeOK, RegisterForModel
  <2>3. CASE UNCHANGED vars
    BY <1>2, <2>3 DEF TypeOK, vars
  <2> QED  BY <1>2, <2>1, <2>2, <2>3 DEF Next
<1> QED  BY <1>1, <1>2, PTL DEF Spec

\* What is registered is a range.
LEMMA RegisteredRanges ==
    ASSUME TypeOK
    PROVE  \A i \in DOMAIN ranges : ranges[i].range \in Ranges
<1>1. \A i \in DOMAIN ranges : ranges[i] \in Registration
  BY DEF TypeOK
<1>2. \A reg \in Registration : reg.range \in Ranges
  BY DEF Registration
<1> QED  BY <1>1, <1>2

\* The registrations that end the loop, and the first of them.
Hits(model, version) == {i \in DOMAIN ranges : Concerns(i, model, version)}
FirstOf(hits) == CHOOSE i \in hits : \A j \in hits : i <= j

\* Indices that there are have a first.
LEMMA FirstExists ==
    ASSUME NEW hits \in SUBSET Nat, hits # {}
    PROVE  FirstOf(hits) \in hits /\ \A j \in hits : FirstOf(hits) <= j
<1>1. IsWellFoundedOn(OpToRel(<, Nat), Nat)
  BY NatLessThanWellFounded
<1>2. PICK i \in hits : \A j \in hits : ~(<<j, i>> \in OpToRel(<, Nat))
  BY <1>1, WFMin
<1>3. \A j \in hits : ~(j < i)
  BY <1>2 DEF OpToRel
<1>4. \A j \in hits : i <= j
  BY <1>3
<1> QED  BY <1>4 DEF FirstOf

\* The outcome of tier (a), in these terms.
LEMMA ByRangeIs ==
    ASSUME NEW m, NEW f
    PROVE  ByRange(m, f) = IF m = NoModel \/ f = NoVersion \/ Hits(m, f) = {}
                           THEN NoDriver
                           ELSE IF InRange(f, ranges[FirstOf(Hits(m, f))].range) = ValueError
                                THEN ValueError
                                ELSE ranges[FirstOf(Hits(m, f))].driver
BY DEF ByRange, Hits, FirstOf

\* Trailing zeros of a version: versions that are the same resolve alike.
THEOREM SameVersionsAlways == Spec => []SameVersionsResolveAlike
<1>1. ASSUME TypeOK PROVE SameVersionsResolveAlike
  <2> SUFFICES ASSUME NEW m \in Models, NEW v \in Versions, NEW w \in Versions,
                      SameVersion(v, w)
               PROVE  Resolve(m, v) = Resolve(m, w)
    BY DEF SameVersionsResolveAlike
  <2>1. \A i \in DOMAIN ranges : ranges[i].range \in Ranges
    BY <1>1, RegisteredRanges
  <2>2. \A i \in DOMAIN ranges : InRange(v, ranges[i].range) = InRange(w, ranges[i].range)
    BY <2>1, SameVersionsInRangeAlike
  <2>3. Hits(m, v) = Hits(m, w) /\ Hits(m, v) \in SUBSET Nat
    BY <1>1, <2>2 DEF Hits, Concerns, TypeOK
  <2>4. v # NoVersion /\ w # NoVersion
    BY DriversAssumption
  <2>5. Hits(m, v) # {} => FirstOf(Hits(m, v)) \in DOMAIN ranges
    BY <2>3, FirstExists DEF Hits
  <2>6. ByRange(m, v) = ByRange(m, w)
    BY <2>2, <2>3, <2>4, <2>5, ByRangeIs
  <2> QED  BY <2>6 DEF Resolve
<1> QED  BY <1>1, TypeCorrect, PTL

\* version_in_range: no registered range has a gap.
THEOREM RangesNeverHaveGaps == Spec => []RangesHaveNoGaps
<1>1. ASSUME TypeOK PROVE RangesHaveNoGaps
  <2>1. \A i \in DOMAIN ranges : ranges[i].range \in Ranges
    BY <1>1, RegisteredRanges
  <2> QED  BY <2>1, NoGaps DEF RangesHaveNoGaps
<1> QED  BY <1>1, TypeCorrect, PTL

\* resolve_driver_class: only the registrations of a printer's own model, and
\* what they make of its version, have a part in its driver.
THEOREM OthersNeverMatter == Spec => []OthersDoNotMatter
<1>1. ASSUME TypeOK PROVE OthersDoNotMatter
  <2> SUFFICES ASSUME NEW m \in Models \cup {NoModel}, NEW f \in Firmwares,
                      Resolve(m, f) # Base,
                      ~(m \in Models /\ Resolve(m, f) = byModel[m]),
                      ~\E i \in {i \in DOMAIN ranges : ranges[i].model = m} :
                            Resolve(m, f) = ranges[i].driver
               PROVE  /\ Resolve(m, f) = ValueError /\ f # NoVersion
                      /\ \E i \in {i \in DOMAIN ranges : ranges[i].model = m} :
                            /\ ranges[i].range # Any
                            /\ \/ f = Garbled
                               \/ \E c \in DOMAIN ranges[i].range :
                                    ranges[i].range[c].op = "malformed"
    BY DEF OthersDoNotMatter
  <2>1. ByRange(m, f) # NoDriver /\ Resolve(m, f) = ByRange(m, f)
    BY DEF Resolve
  <2> DEFINE first == FirstOf(Hits(m, f))
  <2>2. f # NoVersion /\ Hits(m, f) # {}
    BY <2>1, ByRangeIs
  <2>3. Hits(m, f) \in SUBSET Nat
    BY <1>1 DEF Hits, TypeOK
  <2>4. first \in DOMAIN ranges /\ ranges[first].model = m
    BY <2>2, <2>3, FirstExists DEF Hits, Concerns
  <2>5. ByRange(m, f) = IF InRange(f, ranges[first].range) = ValueError
                        THEN ValueError ELSE ranges[first].driver
    BY <2>1, <2>2, ByRangeIs
  <2>6. InRange(f, ranges[first].range) = ValueError /\ Resolve(m, f) = ValueError
    BY <2>1, <2>4, <2>5
  <2> HIDE DEF first
  <2>7. ranges[first].range # Any /\ (f = Garbled \/ IsMisread(ranges[first].range, f))
    BY <2>6 DEF InRange, ValueError
  <2> QED  BY <2>2, <2>4, <2>6, <2>7 DEF IsMisread
<1> QED  BY <1>1, TypeCorrect, PTL

\* register_for_version_range: the first match stays the first.
THEOREM DecisionsStay == Spec => DecidedStays
<1>1. ASSUME TypeOK, [Next]_vars, NEW m \in Models, NEW f \in Firmwares,
             ByRange(m, f) # NoDriver
      PROVE  ByRange(m, f)' = ByRange(m, f)
  <2> DEFINE first == FirstOf(Hits(m, f))
  <2>1. f # NoVersion /\ m # NoModel /\ Hits(m, f) # {}
    BY <1>1, ByRangeIs
  <2>2. Hits(m, f) \in SUBSET Nat
    BY <1>1 DEF Hits, TypeOK
  <2>3. first \in Hits(m, f) /\ \A j \in Hits(m, f) : first <= j
    BY <2>1, <2>2, FirstExists
  <2>4. ASSUME NEW n \in Models, NEW d \in Drivers, NEW r \in Ranges,
               RegisterForVersionRange(n, r, d)
        PROVE  ByRange(m, f)' = ByRange(m, f)
    <3>1. /\ ranges' = Append(ranges, [model |-> n, range |-> r, driver |-> d])
          /\ ranges \in Seq(Registration) /\ Len(ranges) \in Nat
      BY <1>1, <2>4 DEF RegisterForVersionRange, TypeOK
    <3>2. /\ DOMAIN ranges = 1 .. Len(ranges)
          /\ DOMAIN ranges' = 1 .. Len(ranges) + 1
          /\ \A i \in DOMAIN ranges : ranges'[i] = ranges[i]
      BY <3>1
    <3> DEFINE later == {i \in DOMAIN ranges' : Concerns(i, m, f)'}
    <3>3. \A i \in DOMAIN ranges : Concerns(i, m, f)' <=> Concerns(i, m, f)
      BY <3>2 DEF Concerns
    <3>4. later \in SUBSET Nat /\ Hits(m, f) \subseteq later
      BY <3>1, <3>2, <3>3 DEF Hits
    <3>5. \A j \in later : j \in Hits(m, f) \/ j = Len(ranges) + 1
      BY <3>1, <3>2, <3>3 DEF Hits
    <3>6. \A j \in later : first <= j
      BY <2>3, <3>1, <3>2, <3>5 DEF Hits
    <3>7. FirstOf(later) \in later /\ \A j \in later : FirstOf(later) <= j
      BY <2>1, <3>4, FirstExists
    <3>8. FirstOf(later) = first
      BY <2>2, <2>3, <3>4, <3>6, <3>7
    <3>9. ranges'[first] = ranges[first]
      BY <2>3, <3>2 DEF Hits
    <3>10. ByRange(m, f)' = IF InRange(f, ranges'[FirstOf(later)].range) = ValueError
                            THEN ValueError ELSE ranges'[FirstOf(later)].driver
      BY <2>1, <3>4 DEF ByRange, FirstOf
    <3>11. ByRange(m, f) = IF InRange(f, ranges[first].range) = ValueError
                           THEN ValueError ELSE ranges[first].driver
      BY <2>1, ByRangeIs
    <3> QED  BY <3>8, <3>9, <3>10, <3>11
  <2>5. ASSUME UNCHANGED ranges PROVE ByRange(m, f)' = ByRange(m, f)
    BY <2>5 DEF ByRange, Concerns
  <2> QED
    BY <1>1, <2>4, <2>5 DEF Next, RegisterForModel, vars
<1>2. ASSUME TypeOK, [Next]_vars
      PROVE  \A m \in Models, f \in Firmwares :
                ByRange(m, f) # NoDriver => ByRange(m, f)' = ByRange(m, f)
  BY <1>1, <1>2
<1> QED  BY <1>2, TypeCorrect, PTL DEF Spec, DecidedStays
=============================================================================

--------------------------- MODULE EvidenceMerger_proofs ---------------------------
(***************************************************************************)
(* What merge_evidence() computes from every sequence of observations: its *)
(* loop is a recursive function, which is shown to exist and then          *)
(* described by induction on the number of observations merged.            *)
(***************************************************************************)
EXTENDS EvidenceMerger, FiniteSetTheorems, FunctionTheorems, SequenceTheorems, TLAPS

-----------------------------------------------------------------------------
\* The least number of a set, and from it induction over the naturals, for sets.

LEMMA LeastNumber ==
    ASSUME NEW S \in SUBSET Nat, S # {}
    PROVE  \E x \in S : \A y \in S : x <= y
<1>1. PICK x \in S : \A y \in S : ~ (<<y, x>> \in OpToRel(<, Nat))
  BY NatLessThanWellFounded, WFMin
<1>2. \A y \in S : ~ (y < x)
  BY <1>1 DEF OpToRel
<1> QED
  BY <1>2

LEMMA NatSetInduction ==
    ASSUME NEW T, 0 \in T, \A n \in Nat : n \in T => n + 1 \in T
    PROVE  \A n \in Nat : n \in T
<1> DEFINE Missed == {n \in Nat : n \notin T}
<1>1. SUFFICES ASSUME Missed # {} PROVE FALSE
  OBVIOUS
<1>2. PICK x \in Missed : \A y \in Missed : x <= y
  <2>1. Missed \in SUBSET Nat
    OBVIOUS
  <2> HIDE DEF Missed
  <2> QED
    BY <1>1, <2>1, LeastNumber
<1>3. x # 0
  OBVIOUS
<1>4. x - 1 \in Nat /\ x - 1 < x /\ x - 1 + 1 = x
  BY <1>3
<1>5. x - 1 \in T
  BY <1>2, <1>4
<1> QED
  BY <1>4, <1>5

\* What n turns of a loop that starts with base can have come to.
Runs(X, base, turn, n) ==
    {g \in [0..n -> X] : g[0] = base /\ \A k \in 1..n : g[k] = turn[k][g[k - 1]]}

LEMMA LoopsRun ==
    ASSUME NEW X, NEW base \in X, NEW turn \in [Nat -> [X -> X]]
    PROVE  \A n \in Nat : Runs(X, base, turn, n) # {}
<1> DEFINE T == {n \in Nat : Runs(X, base, turn, n) # {}}
<1>1. 0 \in T
  <2>1. [k \in 0..0 |-> base] \in Runs(X, base, turn, 0)
    BY DEF Runs
  <2> QED
    BY <2>1
<1>2. ASSUME NEW n \in Nat, n \in T
      PROVE  n + 1 \in T
  <2>1. PICK g : g \in Runs(X, base, turn, n)
    BY <1>2
  <2>2. /\ g \in [0..n -> X] /\ g[0] = base
        /\ \A k \in 1..n : g[k] = turn[k][g[k - 1]]
    BY <2>1 DEF Runs
  <2> DEFINE last == turn[n + 1][g[n]]
  <2> DEFINE h == [k \in 0..(n + 1) |-> IF k = n + 1 THEN last ELSE g[k]]
  <2>3. last \in X
    <3>1. turn[n + 1] \in [X -> X] /\ g[n] \in X
      BY <2>2
    <3> QED
      BY <3>1
  <2>4. h \in [0..(n + 1) -> X]
    BY <2>2, <2>3
  <2>5. h[0] = base
    BY <2>2
  <2>6. ASSUME NEW k \in 1..(n + 1)
        PROVE  h[k] = turn[k][h[k - 1]]
    <3>1. CASE k = n + 1
      BY <3>1
    <3>2. CASE k \in 1..n
      <4>1. h[k] = g[k] /\ h[k - 1] = g[k - 1]
        BY <3>2
      <4> QED
        BY <2>2, <3>2, <4>1
    <3> QED
      BY <3>1, <3>2
  <2>7. h \in Runs(X, base, turn, n + 1)
    BY <2>4, <2>5, <2>6 DEF Runs
  <2> QED
    BY <2>7
<1>3. \A n \in Nat : n \in T
  <2> HIDE DEF T
  <2> QED
    BY <1>1, <1>2, NatSetInduction
<1> QED
  BY <1>3

-----------------------------------------------------------------------------
\* The loop of merge_evidence().

\* A sequence of observations, of what kind their findings and targets may be.
IsObservation(o) == o.status \in {"FINDING", "ABSTAIN", "ERROR"} /\ o.relation \in Relations
Observed(s) == s \in Seq(Range(s)) /\ \A i \in DOMAIN s : IsObservation(s[i])

MergedOf(F, T) ==
    [findings : Seq(F), effective : Seq(Relations), targets : Seq(T),
     abstained : Nat, errors : Nat, collision : BOOLEAN]

LEMMA MergeStepType ==
    ASSUME NEW F, NEW T, NEW anchors, NEW merged \in MergedOf(F, T),
           NEW o, IsObservation(o), o.status = "FINDING" => o.finding \in F, o.target \in T
    PROVE  MergeStep(merged, o, anchors) \in MergedOf(F, T)
<1>1. Effective(o, anchors) \in Relations
  BY DEF Effective, IsObservation, Relations
<1>2. CASE merged.collision
  BY <1>2 DEF MergeStep
<1>3. CASE ~merged.collision /\ o.status = "ABSTAIN"
  <2>1. MergeStep(merged, o, anchors) = [merged EXCEPT !.abstained = merged.abstained + 1]
    BY <1>3 DEF MergeStep
  <2>2. merged.abstained + 1 \in Nat
    BY DEF MergedOf
  <2> QED
    BY <2>1, <2>2 DEF MergedOf
<1>4. CASE ~merged.collision /\ o.status = "ERROR"
  <2>1. MergeStep(merged, o, anchors) = [merged EXCEPT !.errors = merged.errors + 1]
    BY <1>4 DEF MergeStep
  <2>2. merged.errors + 1 \in Nat
    BY DEF MergedOf
  <2> QED
    BY <2>1, <2>2 DEF MergedOf
<1>5. CASE ~merged.collision /\ o.status = "FINDING"
  <2> DEFINE clash == \E i \in DOMAIN merged.findings :
                        /\ merged.findings[i].id = o.finding.id
                        /\ Identity(merged.findings[i]) # Identity(o.finding)
  <2>1. CASE o.finding.id \in Ids(merged.findings)
    <3>1. MergeStep(merged, o, anchors) = [merged EXCEPT !.collision = clash]
      BY <1>5, <2>1 DEF MergeStep
    <3>2. clash \in BOOLEAN
      OBVIOUS
    <3> HIDE DEF clash
    <3> QED
      BY <3>1, <3>2 DEF MergedOf
  <2>2. CASE o.finding.id \notin Ids(merged.findings)
    <3>1. MergeStep(merged, o, anchors) =
             [merged EXCEPT !.findings = Append(merged.findings, o.finding),
                            !.effective = Append(merged.effective, Effective(o, anchors)),
                            !.targets = Append(merged.targets, o.target)]
      BY <1>5, <2>2 DEF MergeStep
    <3>2. /\ Append(merged.findings, o.finding) \in Seq(F)
          /\ Append(merged.effective, Effective(o, anchors)) \in Seq(Relations)
          /\ Append(merged.targets, o.target) \in Seq(T)
      BY <1>1, <1>5 DEF MergedOf
    <3> QED
      BY <3>1, <3>2 DEF MergedOf
  <2> QED
    BY <2>1, <2>2
<1> QED
  BY <1>2, <1>3, <1>4, <1>5 DEF IsObservation, MergedOf

Found(s) == {s[i].finding : i \in DOMAIN s}
Aims(s) == {s[i].target : i \in DOMAIN s}

\* The loop does what its definition says, and keeps its types.
LEMMA MergingRuns ==
    ASSUME NEW s, Observed(s), NEW anchors
    PROVE  /\ Merging(s, anchors) \in [0..Len(s) -> MergedOf(Found(s), Aims(s))]
           /\ Merging(s, anchors)[0] = NoEvidence
           /\ \A n \in 1..Len(s) :
                Merging(s, anchors)[n] = MergeStep(Merging(s, anchors)[n - 1], s[n], anchors)
<1> DEFINE X == MergedOf(Found(s), Aims(s))
           After(g, n) == IF n = 0 THEN NoEvidence ELSE MergeStep(g[n - 1], s[n], anchors)
           turn == [n \in Nat |-> [x \in X |->
                       IF n \in 1..Len(s) THEN MergeStep(x, s[n], anchors) ELSE x]]
<1>1. Len(s) \in Nat /\ DOMAIN s = 1..Len(s)
  BY DEF Observed
<1>2. NoEvidence \in X
  BY DEF NoEvidence, MergedOf
<1>3. turn \in [Nat -> [X -> X]]
  <2>1. ASSUME NEW n \in 1..Len(s), NEW x \in X
        PROVE  MergeStep(x, s[n], anchors) \in X
    <3>1. IsObservation(s[n]) /\ s[n].finding \in Found(s) /\ s[n].target \in Aims(s)
      BY <1>1 DEF Observed, Found, Aims
    <3> QED
      BY <3>1, MergeStepType
  <2> HIDE DEF X
  <2> QED
    BY <2>1
<1>4. PICK g : g \in Runs(X, NoEvidence, turn, Len(s))
  <2> HIDE DEF X, turn
  <2> QED
    BY <1>1, <1>2, <1>3, LoopsRun
<1>5. /\ g \in [0..Len(s) -> X]
      /\ g[0] = NoEvidence
      /\ \A n \in 1..Len(s) : g[n] = turn[n][g[n - 1]]
  <2> HIDE DEF X, turn
  <2> QED
    BY <1>4 DEF Runs
<1>6. \A n \in 1..Len(s) : g[n] = MergeStep(g[n - 1], s[n], anchors)
  <2> TAKE n \in 1..Len(s)
  <2>1. g[n - 1] \in X /\ n \in Nat
    BY <1>1, <1>5
  <2> HIDE DEF X
  <2> QED
    BY <1>5, <2>1
<1>7. g = [n \in 0..Len(s) |-> After(g, n)]
  <2>1. \A n \in 0..Len(s) : g[n] = After(g, n)
    BY <1>1, <1>5, <1>6
  <2> HIDE DEF X, After
  <2> QED
    BY <1>5, <2>1
<1> DEFINE m == Merging(s, anchors)
<1>8. m = CHOOSE h : h = [n \in 0..Len(s) |-> After(h, n)]
  BY DEF Merging
<1>9. m = [n \in 0..Len(s) |-> After(m, n)]
  <2> HIDE DEF m, After
  <2> QED
    BY <1>7, <1>8
<1>10. /\ DOMAIN m = 0..Len(s)
       /\ m[0] = NoEvidence
       /\ \A n \in 1..Len(s) : m[n] = MergeStep(m[n - 1], s[n], anchors)
  <2> HIDE DEF m
  <2> QED
    BY <1>1, <1>9
<1>11. \A n \in Nat : n \in {k \in Nat : k <= Len(s) => m[k] \in X}
  <2> DEFINE T == {k \in Nat : k <= Len(s) => m[k] \in X}
  <2>1. 0 \in T
    BY <1>2, <1>10
  <2>2. ASSUME NEW k \in Nat, k \in T
        PROVE  k + 1 \in T
    <3> SUFFICES ASSUME k + 1 <= Len(s) PROVE m[k + 1] \in X
      OBVIOUS
    <3>1. m[k] \in X /\ k + 1 \in 1..Len(s)
      BY <1>1, <2>2
    <3>2. m[k + 1] = MergeStep(m[k], s[k + 1], anchors)
      <4> HIDE DEF m
      <4> QED
        BY <1>10, <3>1
    <3>3. /\ IsObservation(s[k + 1])
          /\ s[k + 1].finding \in Found(s) /\ s[k + 1].target \in Aims(s)
      BY <1>1, <3>1 DEF Observed, Found, Aims
    <3> HIDE DEF m
    <3> QED
      BY <3>1, <3>2, <3>3, MergeStepType
  <2> HIDE DEF T
  <2>3. \A n \in Nat : n \in T
    BY <2>1, <2>2, NatSetInduction
  <2> QED
    BY <2>3 DEF T
<1>12. m \in [0..Len(s) -> X]
  <2> HIDE DEF m, X
  <2>1. \A n \in 0..Len(s) : m[n] \in X
    BY <1>1, <1>11
  <2> QED
    BY <1>9, <2>1
<1> QED
  BY <1>10, <1>12

-----------------------------------------------------------------------------
\* What the loop has after n observations.

Telling(s, n) == {i \in 1..n : s[i].status = "FINDING"}
IdOf(s, i) == s[i].finding.id
Heard(s, n) == {IdOf(s, i) : i \in Telling(s, n)}
IsFirst(s, i) ==
    /\ s[i].status = "FINDING"
    /\ \A j \in 1..(i - 1) : s[j].status = "FINDING" => IdOf(s, j) # IdOf(s, i)
Clash(s, n) ==
    \E i, j \in Telling(s, n) : /\ IdOf(s, i) = IdOf(s, j)
                             /\ Identity(s[i].finding) # Identity(s[j].finding)
Count(s, n, status) == Cardinality({i \in 1..n : s[i].status = status})

\* The k-th finding that was kept is the one that observation i told first.
Keeps(m, k, s, i, anchors) ==
    /\ IsFirst(s, i)
    /\ m.findings[k] = s[i].finding
    /\ m.effective[k] = Effective(s[i], anchors)
    /\ m.targets[k] = s[i].target

Kept(m, s, anchors, n) ==
    /\ Len(m.effective) = Len(m.findings) /\ Len(m.targets) = Len(m.findings)
    /\ \A k \in 1..Len(m.findings) : \E i \in 1..n : Keeps(m, k, s, i, anchors)
    /\ \A i \in 1..n : IsFirst(s, i) =>
         \E k \in 1..Len(m.findings) : Keeps(m, k, s, i, anchors)
    /\ Ids(m.findings) = Heard(s, n)

Counted(m, s, n) ==
    /\ Len(m.findings) = Cardinality(Heard(s, n))
    /\ m.abstained = Count(s, n, "ABSTAIN")
    /\ m.errors = Count(s, n, "ERROR")

Describes(m, s, anchors, n) ==
    /\ m.collision <=> Clash(s, n)
    /\ ~m.collision => Kept(m, s, anchors, n) /\ Counted(m, s, n)

LEMMA NothingHeard ==
    ASSUME NEW s, NEW anchors
    PROVE  Describes(NoEvidence, s, anchors, 0)
<1>1. 1..0 = {}
  OBVIOUS
<1>2. Telling(s, 0) = {} /\ Heard(s, 0) = {} /\ ~Clash(s, 0)
  BY <1>1 DEF Telling, Heard, Clash
<1>3. \A status : {i \in 1..0 : s[i].status = status} = {}
  BY <1>1
<1>4. Counted(NoEvidence, s, 0)
  BY <1>2, <1>3, FS_EmptySet DEF Counted, Count, NoEvidence
<1>5. Kept(NoEvidence, s, anchors, 0)
  BY <1>1, <1>2 DEF Kept, NoEvidence, Ids
<1> QED
  BY <1>2, <1>4, <1>5 DEF Describes, NoEvidence

\* What one more observation adds.
LEMMA ToldGrows ==
    ASSUME NEW s, NEW n \in Nat
    PROVE  /\ Telling(s, n + 1) = IF s[n + 1].status = "FINDING"
                               THEN Telling(s, n) \cup {n + 1} ELSE Telling(s, n)
           /\ Heard(s, n + 1) = IF s[n + 1].status = "FINDING"
                                THEN Heard(s, n) \cup {IdOf(s, n + 1)} ELSE Heard(s, n)
           /\ IsFiniteSet(Telling(s, n)) /\ IsFiniteSet(Heard(s, n))
<1>1. 1..(n + 1) = (1..n) \cup {n + 1}
  OBVIOUS
<1>2. Telling(s, n + 1) = IF s[n + 1].status = "FINDING"
                       THEN Telling(s, n) \cup {n + 1} ELSE Telling(s, n)
  BY <1>1 DEF Telling
<1>3. IsFiniteSet(Telling(s, n))
  <2>1. IsFiniteSet(1..n) /\ Telling(s, n) \in SUBSET (1..n)
    BY FS_Interval DEF Telling
  <2> QED
    BY <2>1, FS_Subset
<1>4. IsFiniteSet(Heard(s, n))
  <2> DEFINE f == [i \in Telling(s, n) |-> IdOf(s, i)]
  <2>1. f \in Surjection(Telling(s, n), Heard(s, n))
    BY DEF Surjection, Heard
  <2> QED
    BY <1>3, <2>1, FS_Surjection
<1> QED
  BY <1>2, <1>3, <1>4 DEF Heard

LEMMA CountGrows ==
    ASSUME NEW s, NEW n \in Nat, NEW status
    PROVE  /\ Count(s, n, status) \in Nat
           /\ Count(s, n + 1, status) = IF s[n + 1].status = status
                                        THEN Count(s, n, status) + 1 ELSE Count(s, n, status)
<1> DEFINE S(k) == {i \in 1..k : s[i].status = status}
<1>1. IsFiniteSet(S(n))
  <2>1. IsFiniteSet(1..n) /\ S(n) \in SUBSET (1..n)
    BY FS_Interval
  <2> QED
    BY <2>1, FS_Subset
<1>2. S(n + 1) = IF s[n + 1].status = status THEN S(n) \cup {n + 1} ELSE S(n)
  OBVIOUS
<1>3. n + 1 \notin S(n)
  OBVIOUS
<1>4. Count(s, n, status) = Cardinality(S(n)) /\ Count(s, n + 1, status) = Cardinality(S(n + 1))
  BY DEF Count
<1> HIDE DEF S
<1>5. Cardinality(S(n)) \in Nat
  BY <1>1, FS_CardinalityType
<1>6. Cardinality(S(n) \cup {n + 1}) = Cardinality(S(n)) + 1
  BY <1>1, <1>3, FS_AddElement
<1> QED
  BY <1>2, <1>4, <1>5, <1>6

\* A refusal or a failure is counted, and changes nothing else.
LEMMA SilenceIsCounted ==
    ASSUME NEW s, NEW anchors, NEW n \in Nat, NEW F, NEW T, NEW m \in MergedOf(F, T),
           Describes(m, s, anchors, n), s[n + 1].status \in {"ABSTAIN", "ERROR"}
    PROVE  Describes(MergeStep(m, s[n + 1], anchors), s, anchors, n + 1)
<1> DEFINE next == MergeStep(m, s[n + 1], anchors)
<1>1. Telling(s, n + 1) = Telling(s, n) /\ Heard(s, n + 1) = Heard(s, n)
  BY ToldGrows
<1>2. Clash(s, n + 1) <=> Clash(s, n)
  BY <1>1 DEF Clash
<1>3. CASE m.collision
  <2>1. next = m
    BY <1>3 DEF MergeStep
  <2> QED
    BY <1>2, <1>3, <2>1 DEF Describes
<1>4. CASE ~m.collision
  <2>1. /\ next.collision = m.collision
        /\ next.findings = m.findings /\ next.effective = m.effective
        /\ next.targets = m.targets
        /\ next.abstained = IF s[n + 1].status = "ABSTAIN" THEN m.abstained + 1 ELSE m.abstained
        /\ next.errors = IF s[n + 1].status = "ERROR" THEN m.errors + 1 ELSE m.errors
    BY <1>4 DEF MergeStep, MergedOf
  <2> HIDE DEF next
  <2>2. Kept(m, s, anchors, n) /\ Counted(m, s, n)
    BY <1>4 DEF Describes
  <2>3. ~IsFirst(s, n + 1)
    BY DEF IsFirst
  <2>4. Kept(next, s, anchors, n + 1)
    <3>1. ASSUME NEW k, NEW i
          PROVE  Keeps(next, k, s, i, anchors) <=> Keeps(m, k, s, i, anchors)
      BY <2>1 DEF Keeps
    <3>2. \A i \in 1..(n + 1) : IsFirst(s, i) => i \in 1..n
      BY <2>3
    <3>3. 1..n \subseteq 1..(n + 1)
      OBVIOUS
    <3> QED
      BY <1>1, <2>1, <2>2, <3>1, <3>2, <3>3 DEF Kept, Ids
  <2>5. Counted(next, s, n + 1)
    <3>1. \A status : Count(s, n + 1, status) = IF s[n + 1].status = status
                                               THEN Count(s, n, status) + 1
                                               ELSE Count(s, n, status)
      BY CountGrows
    <3>2. next.abstained = Count(s, n + 1, "ABSTAIN")
      BY <2>1, <2>2, <3>1 DEF Counted
    <3>3. next.errors = Count(s, n + 1, "ERROR")
      BY <2>1, <2>2, <3>1 DEF Counted
    <3> QED
      BY <1>1, <2>1, <2>2, <3>2, <3>3 DEF Counted
  <2>6. Describes(next, s, anchors, n + 1)
    BY <1>2, <1>4, <2>1, <2>4, <2>5 DEF Describes
  <2> QED
    BY <2>6 DEF next
<1> QED
  BY <1>3, <1>4 DEF MergedOf

LEMMA AppendedLast ==
    ASSUME NEW S, NEW q \in Seq(S), NEW x
    PROVE  /\ Len(Append(q, x)) = Len(q) + 1
           /\ DOMAIN Append(q, x) = 1..(Len(q) + 1)
           /\ Append(q, x)[Len(q) + 1] = x
           /\ \A k \in 1..Len(q) : Append(q, x)[k] = q[k]
OBVIOUS

\* A finding is kept the first time its id is heard, and compared afterwards.
LEMMA FindingIsKept ==
    ASSUME NEW s, NEW anchors, NEW n \in Nat, NEW F, NEW T, NEW m \in MergedOf(F, T),
           Describes(m, s, anchors, n), s[n + 1].status = "FINDING", ~m.collision
    PROVE  Describes(MergeStep(m, s[n + 1], anchors), s, anchors, n + 1)
<1> DEFINE o == s[n + 1]
           id == o.finding.id
           next == MergeStep(m, o, anchors)
<1>1. /\ Telling(s, n + 1) = Telling(s, n) \cup {n + 1}
      /\ Heard(s, n + 1) = Heard(s, n) \cup {id}
      /\ IsFiniteSet(Heard(s, n))
  BY ToldGrows DEF IdOf
<1>2. Kept(m, s, anchors, n) /\ Counted(m, s, n) /\ ~Clash(s, n)
  BY DEF Describes
<1>3. /\ Len(m.findings) \in Nat
      /\ DOMAIN m.findings = 1..Len(m.findings)
      /\ DOMAIN m.effective = 1..Len(m.effective)
      /\ DOMAIN m.targets = 1..Len(m.targets)
      /\ m.abstained \in Nat /\ m.errors \in Nat
  BY DEF MergedOf
<1>4. Count(s, n + 1, "ABSTAIN") = Count(s, n, "ABSTAIN")
      /\ Count(s, n + 1, "ERROR") = Count(s, n, "ERROR")
  BY CountGrows
<1>5. id \in Heard(s, n) <=> id \in Ids(m.findings)
  BY <1>2 DEF Kept
<1>6. IsFirst(s, n + 1) <=> id \notin Heard(s, n)
  BY DEF IsFirst, Heard, Telling, IdOf
<1>7. CASE id \in Ids(m.findings)
  <2> DEFINE clash == \E k \in DOMAIN m.findings :
                        /\ m.findings[k].id = id
                        /\ Identity(m.findings[k]) # Identity(o.finding)
  <2>1. next = [m EXCEPT !.collision = clash]
    BY <1>7 DEF MergeStep
  <2> HIDE DEF clash, next
  <2>2. /\ next.collision = clash
        /\ next.findings = m.findings /\ next.effective = m.effective
        /\ next.targets = m.targets
        /\ next.abstained = m.abstained /\ next.errors = m.errors
    BY <2>1 DEF MergedOf
  <2>3. clash <=> Clash(s, n + 1)
    <3>1. ASSUME clash
          PROVE  Clash(s, n + 1)
      <4>1. PICK k \in 1..Len(m.findings) : /\ m.findings[k].id = id
                                            /\ Identity(m.findings[k]) # Identity(o.finding)
        BY <1>3, <3>1 DEF clash
      <4>2. PICK i \in 1..n : Keeps(m, k, s, i, anchors)
        BY <1>2, <4>1 DEF Kept
      <4>3. /\ i \in Telling(s, n + 1) /\ n + 1 \in Telling(s, n + 1)
            /\ IdOf(s, i) = IdOf(s, n + 1)
            /\ Identity(s[i].finding) # Identity(s[n + 1].finding)
        BY <1>1, <4>1, <4>2 DEF Keeps, IsFirst, Telling, IdOf
      <4> QED
        BY <4>3 DEF Clash
    <3>2. ASSUME Clash(s, n + 1)
          PROVE  clash
      \* The observation that clashes with what was told before.
      <4>1. PICK i \in Telling(s, n) : /\ IdOf(s, i) = id
                                    /\ Identity(s[i].finding) # Identity(o.finding)
        <5>1. PICK i \in Telling(s, n + 1), j \in Telling(s, n + 1) :
                 /\ IdOf(s, i) = IdOf(s, j)
                 /\ Identity(s[i].finding) # Identity(s[j].finding)
          BY <3>2 DEF Clash
        <5>2. ~(i \in Telling(s, n) /\ j \in Telling(s, n))
          BY <1>2, <5>1 DEF Clash
        <5>3. (i = n + 1 /\ j \in Telling(s, n)) \/ (j = n + 1 /\ i \in Telling(s, n))
          BY <1>1, <5>1, <5>2
        <5> QED
          BY <5>1, <5>3 DEF IdOf
      <4>2. PICK k \in 1..Len(m.findings) : m.findings[k].id = id
        BY <1>3, <1>7 DEF Ids
      <4>3. PICK j \in 1..n : Keeps(m, k, s, j, anchors)
        BY <1>2 DEF Kept
      <4>4. j \in Telling(s, n) /\ IdOf(s, j) = id /\ m.findings[k] = s[j].finding
        BY <4>2, <4>3 DEF Keeps, IsFirst, Telling, IdOf
      <4>5. Identity(s[j].finding) = Identity(s[i].finding)
        BY <1>2, <4>1, <4>4 DEF Clash
      <4> QED
        BY <1>3, <4>1, <4>2, <4>4, <4>5 DEF clash
    <3> QED
      BY <3>1, <3>2
  <2>4. Heard(s, n + 1) = Heard(s, n)
    BY <1>1, <1>5, <1>7
  <2>5. Kept(next, s, anchors, n + 1)
    <3>1. ASSUME NEW k, NEW i
          PROVE  Keeps(next, k, s, i, anchors) <=> Keeps(m, k, s, i, anchors)
      BY <2>2 DEF Keeps
    <3>2. \A i \in 1..(n + 1) : IsFirst(s, i) => i \in 1..n
      BY <1>5, <1>6, <1>7
    <3>3. 1..n \subseteq 1..(n + 1)
      OBVIOUS
    <3> QED
      BY <1>2, <2>2, <2>4, <3>1, <3>2, <3>3 DEF Kept, Ids
  <2>6. Counted(next, s, n + 1)
    BY <1>2, <1>4, <2>2, <2>4 DEF Counted
  <2>7. Describes(next, s, anchors, n + 1)
    BY <2>2, <2>3, <2>5, <2>6 DEF Describes
  <2> QED
    BY <2>7 DEF next
<1>8. CASE id \notin Ids(m.findings)
  <2> DEFINE len == Len(m.findings)
  <2>1. next = [m EXCEPT !.findings = Append(m.findings, o.finding),
                         !.effective = Append(m.effective, Effective(o, anchors)),
                         !.targets = Append(m.targets, o.target)]
    BY <1>8 DEF MergeStep
  <2> HIDE DEF next
  <2>2. /\ next.collision = m.collision
        /\ next.findings = Append(m.findings, o.finding)
        /\ next.effective = Append(m.effective, Effective(o, anchors))
        /\ next.targets = Append(m.targets, o.target)
        /\ next.abstained = m.abstained /\ next.errors = m.errors
    BY <2>1 DEF MergedOf
  <2>3. Len(m.effective) = len /\ Len(m.targets) = len
    BY <1>2 DEF Kept
  <2>4. /\ m.findings \in Seq(F) /\ m.effective \in Seq(Relations) /\ m.targets \in Seq(T)
        /\ len \in Nat
    BY <1>3 DEF MergedOf
  <2>5. /\ Len(next.findings) = len + 1 /\ Len(next.effective) = len + 1
        /\ Len(next.targets) = len + 1
        /\ DOMAIN next.findings = 1..(len + 1)
        /\ next.findings[len + 1] = o.finding
        /\ next.effective[len + 1] = Effective(o, anchors)
        /\ next.targets[len + 1] = o.target
        /\ \A k \in 1..len : /\ next.findings[k] = m.findings[k]
                             /\ next.effective[k] = m.effective[k]
                             /\ next.targets[k] = m.targets[k]
    <3> HIDE DEF o
    <3>1. /\ Len(next.findings) = len + 1 /\ DOMAIN next.findings = 1..(len + 1)
          /\ next.findings[len + 1] = o.finding
          /\ \A k \in 1..len : next.findings[k] = m.findings[k]
      BY <2>2, <2>4, AppendedLast
    <3>2. /\ Len(next.effective) = len + 1
          /\ next.effective[len + 1] = Effective(o, anchors)
          /\ \A k \in 1..len : next.effective[k] = m.effective[k]
      BY <2>2, <2>3, <2>4, AppendedLast
    <3>3. /\ Len(next.targets) = len + 1
          /\ next.targets[len + 1] = o.target
          /\ \A k \in 1..len : next.targets[k] = m.targets[k]
      BY <2>2, <2>3, <2>4, AppendedLast
    <3> QED
      BY <3>1, <3>2, <3>3
  <2>6. IsFirst(s, n + 1) /\ id \notin Heard(s, n)
    BY <1>5, <1>6, <1>8
  <2>7. Keeps(next, len + 1, s, n + 1, anchors)
    BY <2>5, <2>6 DEF Keeps
  <2>8. \A k \in 1..len : \A i : Keeps(m, k, s, i, anchors) => Keeps(next, k, s, i, anchors)
    BY <2>5 DEF Keeps
  <2>9. ~Clash(s, n + 1)
    <3> SUFFICES ASSUME NEW i \in Telling(s, n + 1), NEW j \in Telling(s, n + 1),
                        IdOf(s, i) = IdOf(s, j)
                 PROVE  Identity(s[i].finding) = Identity(s[j].finding)
      BY DEF Clash
    <3>1. CASE i \in Telling(s, n) /\ j \in Telling(s, n)
      BY <1>2, <3>1 DEF Clash
    <3>2. CASE i = n + 1 /\ j = n + 1
      BY <3>2
    <3>3. CASE i = n + 1 /\ j \in Telling(s, n)
      BY <2>6, <3>3 DEF Heard, IdOf
    <3>4. CASE j = n + 1 /\ i \in Telling(s, n)
      BY <2>6, <3>4 DEF Heard, IdOf
    <3> QED
      BY <1>1, <3>1, <3>2, <3>3, <3>4
  <2>10. Kept(next, s, anchors, n + 1)
    <3>1. \A k \in 1..(len + 1) : \E i \in 1..(n + 1) : Keeps(next, k, s, i, anchors)
      <4> TAKE k \in 1..(len + 1)
      <4>1. CASE k = len + 1
        BY <2>7, <4>1
      <4>2. CASE k \in 1..len
        BY <1>2, <2>8, <4>2 DEF Kept
      <4> QED
        BY <2>4, <4>1, <4>2
    <3>2. \A i \in 1..(n + 1) : IsFirst(s, i) =>
             \E k \in 1..(len + 1) : Keeps(next, k, s, i, anchors)
      <4> TAKE i \in 1..(n + 1)
      <4> HAVE IsFirst(s, i)
      <4>1. CASE i = n + 1
        BY <2>4, <2>7, <4>1
      <4>2. CASE i \in 1..n
        BY <1>2, <2>4, <2>8, <4>2 DEF Kept
      <4> QED
        BY <4>1, <4>2
    <3>3. Ids(next.findings) = Heard(s, n + 1)
      <4>1. Ids(next.findings) = Ids(m.findings) \cup {id}
        <5>1. 1..(len + 1) = (1..len) \cup {len + 1}
          BY <2>4
        <5>2. Ids(next.findings) = {next.findings[k].id : k \in 1..(len + 1)}
          BY <2>5 DEF Ids
        <5>3. Ids(m.findings) = {m.findings[k].id : k \in 1..len}
          BY <1>3 DEF Ids
        <5>4. \A k \in 1..len : next.findings[k].id = m.findings[k].id
          BY <2>5
        <5>5. next.findings[len + 1].id = id
          BY <2>5
        <5> HIDE DEF id, len
        <5> QED
          BY <5>1, <5>2, <5>3, <5>4, <5>5
      <4> QED
        BY <1>1, <1>2, <4>1 DEF Kept
    <3> QED
      BY <2>5, <3>1, <3>2, <3>3 DEF Kept
  <2>11. Counted(next, s, n + 1)
    <3>1. Cardinality(Heard(s, n + 1)) = Cardinality(Heard(s, n)) + 1
      BY <1>1, <2>6, FS_AddElement
    <3> QED
      BY <1>2, <1>4, <2>2, <2>5, <3>1 DEF Counted
  <2>12. Describes(next, s, anchors, n + 1)
    BY <2>2, <2>9, <2>10, <2>11 DEF Describes
  <2> QED
    BY <2>12 DEF next
<1> QED
  BY <1>7, <1>8

\* What merge_evidence() has at the end of its loop.
LEMMA Merges ==
    ASSUME NEW s, Observed(s), NEW anchors
    PROVE  LET m == Merging(s, anchors)[Len(s)] IN
           m \in MergedOf(Found(s), Aims(s)) /\ Describes(m, s, anchors, Len(s))
<1> DEFINE m == Merging(s, anchors)
           X == MergedOf(Found(s), Aims(s))
           T == {n \in Nat : n <= Len(s) => Describes(m[n], s, anchors, n)}
<1>1. /\ Len(s) \in Nat /\ DOMAIN s = 1..Len(s)
      /\ m \in [0..Len(s) -> X]
      /\ m[0] = NoEvidence
      /\ \A n \in 1..Len(s) : m[n] = MergeStep(m[n - 1], s[n], anchors)
  BY MergingRuns DEF Observed
<1>2. 0 \in T
  BY <1>1, NothingHeard
<1>3. ASSUME NEW n \in Nat, n \in T
      PROVE  n + 1 \in T
  <2> SUFFICES ASSUME n + 1 <= Len(s) PROVE Describes(m[n + 1], s, anchors, n + 1)
    OBVIOUS
  <2> HIDE DEF m
  <2>1. n + 1 \in 1..Len(s) /\ n \in 0..Len(s)
    BY <1>1
  <2>2. /\ m[n] \in X /\ Describes(m[n], s, anchors, n)
        /\ m[n + 1] = MergeStep(m[n], s[n + 1], anchors)
    BY <1>1, <1>3, <2>1
  <2>3. IsObservation(s[n + 1])
    BY <1>1, <2>1 DEF Observed
  <2>4. CASE s[n + 1].status \in {"ABSTAIN", "ERROR"}
    BY <2>2, <2>4, SilenceIsCounted
  <2>5. CASE s[n + 1].status = "FINDING" /\ m[n].collision
    <3>1. m[n + 1] = m[n]
      BY <2>2, <2>5 DEF MergeStep
    <3>2. Clash(s, n + 1)
      <4>1. Clash(s, n)
        BY <2>2, <2>5 DEF Describes
      <4>2. Telling(s, n) \subseteq Telling(s, n + 1)
        BY DEF Telling
      <4> QED
        BY <4>1, <4>2 DEF Clash
    <3> QED
      BY <2>5, <3>1, <3>2 DEF Describes
  <2>6. CASE s[n + 1].status = "FINDING" /\ ~m[n].collision
    BY <2>2, <2>6, FindingIsKept
  <2> QED
    BY <2>3, <2>4, <2>5, <2>6 DEF IsObservation
<1>4. \A n \in Nat : n \in T
  <2> HIDE DEF T
  <2> QED
    BY <1>2, <1>3, NatSetInduction
<1> QED
  BY <1>1, <1>4

-----------------------------------------------------------------------------
\* The ids of some findings.

LEMMA IdsOfWanted ==
    ASSUME NEW F, NEW findings \in Seq(F), NEW wanted
    PROVE  /\ IdsOf(findings, wanted) \in Seq({findings[i].id : i \in 1..Len(findings)})
           /\ Range(IdsOf(findings, wanted)) =
                {findings[i].id : i \in wanted \cap (1..Len(findings))}
<1> DEFINE N == Len(findings)
           I == {findings[i].id : i \in 1..N}
           After(g, n) == IF n = 0 THEN << >>
                          ELSE IF n \in wanted THEN Append(g[n - 1], findings[n].id) ELSE g[n - 1]
           turn == [n \in Nat |-> [q \in Seq(I) |->
                      IF n \in 1..N /\ n \in wanted THEN Append(q, findings[n].id) ELSE q]]
<1>1. N \in Nat
  OBVIOUS
<1>2. turn \in [Nat -> [Seq(I) -> Seq(I)]]
  <2>1. ASSUME NEW n \in 1..N, NEW q \in Seq(I)
        PROVE  Append(q, findings[n].id) \in Seq(I)
    <3>1. findings[n].id \in I
      OBVIOUS
    <3> HIDE DEF I
    <3> QED
      BY <3>1
  <2> HIDE DEF I, N
  <2> QED
    BY <2>1
<1>3. PICK g : g \in Runs(Seq(I), << >>, turn, N)
  <2> DEFINE Q == Seq(I)
             start == << >>
  <2>1. start \in Q /\ turn \in [Nat -> [Q -> Q]]
    BY <1>2
  <2> HIDE DEF Q, start, turn, N
  <2>2. Runs(Q, start, turn, N) # {}
    BY <1>1, <2>1, LoopsRun
  <2>3. \E g : g \in Runs(Q, start, turn, N)
    BY <2>2
  <2> QED
    BY <2>3 DEF Q, start
<1>4. /\ g \in [0..N -> Seq(I)]
      /\ g[0] = << >>
      /\ \A n \in 1..N : g[n] = turn[n][g[n - 1]]
  <2> HIDE DEF I, turn, N
  <2> QED
    BY <1>3 DEF Runs
<1>5. g = [n \in 0..N |-> After(g, n)]
  <2>1. \A n \in 0..N : g[n] = After(g, n)
    <3> TAKE n \in 0..N
    <3>1. CASE n = 0
      BY <1>4, <3>1
    <3>2. CASE n \in 1..N
      <4>1. g[n - 1] \in Seq(I) /\ n \in Nat
        BY <1>1, <1>4, <3>2
      <4>2. g[n] = turn[n][g[n - 1]]
        BY <1>4, <3>2
      <4> HIDE DEF I, N
      <4> QED
        BY <3>2, <4>1, <4>2
    <3> QED
      BY <1>1, <3>1, <3>2
  <2> HIDE DEF I, N, After
  <2> QED
    BY <1>4, <2>1
<1> DEFINE ids == CHOOSE h : h = [n \in 0..N |-> After(h, n)]
<1>6. IdsOf(findings, wanted) = ids[N]
  BY DEF IdsOf
<1>7. ids = [n \in 0..N |-> After(ids, n)]
  <2> HIDE DEF After, N
  <2> QED
    BY <1>5
<1>8. ids[0] = << >> /\ \A n \in 1..N : ids[n] = IF n \in wanted
                                                 THEN Append(ids[n - 1], findings[n].id)
                                                 ELSE ids[n - 1]
  <2>1. \A n \in 0..N : ids[n] = After(ids, n)
    <3> HIDE DEF ids, After, N
    <3> QED
      BY <1>7
  <2> HIDE DEF ids, N
  <2>2. ids[0] = << >>
    BY <1>1, <2>1
  <2>3. ASSUME NEW n \in 1..N
        PROVE  ids[n] = IF n \in wanted THEN Append(ids[n - 1], findings[n].id) ELSE ids[n - 1]
    <3>1. n \in 0..N /\ n # 0
      BY <1>1
    <3> QED
      BY <2>1, <3>1, Zenon
  <2> QED
    BY <2>2, <2>3
<1> DEFINE Wanted(n) == {findings[i].id : i \in wanted \cap (1..n)}
           T == {n \in Nat : n <= N => ids[n] \in Seq(I) /\ Range(ids[n]) = Wanted(n)}
<1> HIDE DEF ids
<1>9. 0 \in T
  <2>1. << >> \in Seq(I) /\ Range(<< >>) = {} /\ Wanted(0) = {}
    BY DEF Range
  <2> HIDE DEF Wanted, N
  <2>2. ids[0] \in Seq(I) /\ Range(ids[0]) = Wanted(0)
    BY <1>8, <2>1, Zenon
  <2> HIDE DEF I
  <2> QED
    BY <2>2
<1>10. ASSUME NEW n \in Nat, n \in T
       PROVE  n + 1 \in T
  <2> SUFFICES ASSUME n + 1 <= N
               PROVE  ids[n + 1] \in Seq(I) /\ Range(ids[n + 1]) = Wanted(n + 1)
    OBVIOUS
  <2>1. n + 1 \in 1..N /\ findings[n + 1].id \in I
    BY <1>1
  <2>2. ids[n] \in Seq(I) /\ Range(ids[n]) = Wanted(n)
    BY <1>1, <1>10, <2>1
  <2>3. Wanted(n + 1) = IF n + 1 \in wanted THEN Wanted(n) \cup {findings[n + 1].id}
                        ELSE Wanted(n)
    OBVIOUS
  <2> HIDE DEF I, Wanted, N
  <2>4. CASE n + 1 \notin wanted
    BY <1>8, <2>1, <2>2, <2>3, <2>4
  <2>5. CASE n + 1 \in wanted
    <3>1. ids[n + 1] = Append(ids[n], findings[n + 1].id)
      <4>1. \A k \in 1..N : k \in wanted => ids[k] = Append(ids[k - 1], findings[k].id)
        BY <1>8
      <4>2. \A k \in 1..N : k = n + 1 => k - 1 = n
        OBVIOUS
      <4> QED
        BY <2>1, <2>5, <4>1, <4>2
    <3>2. Range(Append(ids[n], findings[n + 1].id)) = Range(ids[n]) \cup {findings[n + 1].id}
      <4> DEFINE q == ids[n]
                 x == findings[n + 1].id
      <4>1. /\ DOMAIN Append(q, x) = 1..(Len(q) + 1) /\ DOMAIN q = 1..Len(q) /\ Len(q) \in Nat
            /\ Append(q, x)[Len(q) + 1] = x
            /\ \A k \in 1..Len(q) : Append(q, x)[k] = q[k]
        BY <2>2, AppendedLast
      <4>2. 1..(Len(q) + 1) = (1..Len(q)) \cup {Len(q) + 1}
        BY <4>1
      <4> HIDE DEF q, x
      <4>3. Range(Append(q, x)) = Range(q) \cup {x}
        BY <4>1, <4>2 DEF Range
      <4> QED
        BY <4>3 DEF q, x
    <3> QED
      BY <2>1, <2>2, <2>3, <2>5, <3>1, <3>2
  <2> QED
    BY <2>4, <2>5
<1>11. \A n \in Nat : n \in T
  <2> HIDE DEF T
  <2> QED
    BY <1>9, <1>10, NatSetInduction
<1>12. N \in T
  <2> HIDE DEF T, N
  <2> QED
    BY <1>1, <1>11
<1>13. ids[N] \in Seq(I) /\ Range(ids[N]) = Wanted(N)
  <2> HIDE DEF I, Wanted, N
  <2> QED
    BY <1>1, <1>12
<1> QED
  BY <1>6, <1>13

-----------------------------------------------------------------------------
\* The groups of a view.

\* Findings that were told, by what their first delivery declared.
Firsts(s, anchors, relation) ==
    {j \in 1..Len(s) : IsFirst(s, j) /\ Effective(s[j], anchors) = relation}
FirstsOn(s, anchors, relation, a) ==
    {j \in Firsts(s, anchors, relation) : s[j].target = a}
IdsAt(s, S) == {IdOf(s, i) : i \in S}

\* Every id that was heard was told a first time, and only once.
LEMMA FirstOfThem ==
    ASSUME NEW s, NEW n \in Nat, NEW i \in Telling(s, n)
    PROVE  \E j \in 1..n : IsFirst(s, j) /\ IdOf(s, j) = IdOf(s, i)
<1> DEFINE S == {j \in 1..n : s[j].status = "FINDING" /\ IdOf(s, j) = IdOf(s, i)}
<1>1. S \in SUBSET Nat /\ i \in S
  BY DEF Telling
<1>2. PICK j \in S : \A k \in S : j <= k
  <2> HIDE DEF S
  <2> QED
    BY <1>1, LeastNumber
<1>3. ASSUME NEW k \in 1..(j - 1), s[k].status = "FINDING"
      PROVE  IdOf(s, k) # IdOf(s, j)
  <2>1. k \in 1..n /\ ~ (j <= k)
    OBVIOUS
  <2>2. k \notin S
    BY <1>2, <2>1
  <2> QED
    BY <1>3, <2>1, <2>2
<1>4. IsFirst(s, j)
  BY <1>3 DEF IsFirst
<1> QED
  BY <1>4

LEMMA FirstIsOne ==
    ASSUME NEW s, NEW i \in Nat, NEW j \in Nat, i >= 1, j >= 1,
           IsFirst(s, i), IsFirst(s, j), IdOf(s, i) = IdOf(s, j)
    PROVE  i = j
<1>1. i < j => i \in 1..(j - 1)
  OBVIOUS
<1>2. j < i => j \in 1..(i - 1)
  OBVIOUS
<1> QED
  BY <1>1, <1>2 DEF IsFirst

LEMMA RelatedAre ==
    ASSUME NEW s, NEW anchors, NEW F, NEW T, NEW m \in MergedOf(F, T),
           Kept(m, s, anchors, Len(s)), Len(s) \in Nat, NEW relation
    PROVE  Range(Related(m, relation)) = IdsAt(s, Firsts(s, anchors, relation))
<1>1. /\ m.findings \in Seq(F) /\ Len(m.findings) \in Nat
      /\ DOMAIN m.findings = 1..Len(m.findings)
  BY DEF MergedOf
<1> DEFINE wanted == {k \in DOMAIN m.findings : m.effective[k] = relation}
<1>2. Range(Related(m, relation)) = {m.findings[k].id : k \in wanted \cap (1..Len(m.findings))}
  BY <1>1, IdsOfWanted DEF Related
<1>3. ASSUME NEW k \in 1..Len(m.findings), m.effective[k] = relation
      PROVE  m.findings[k].id \in IdsAt(s, Firsts(s, anchors, relation))
  <2>1. PICK i \in 1..Len(s) : Keeps(m, k, s, i, anchors)
    BY DEF Kept
  <2> QED
    BY <1>3, <2>1 DEF Keeps, IdsAt, Firsts, IdOf
<1>4. ASSUME NEW i \in Firsts(s, anchors, relation)
      PROVE  \E k \in 1..Len(m.findings) : m.effective[k] = relation /\ m.findings[k].id = IdOf(s, i)
  <2>1. PICK k \in 1..Len(m.findings) : Keeps(m, k, s, i, anchors)
    BY DEF Kept, Firsts
  <2> QED
    BY <1>4, <2>1 DEF Keeps, Firsts, IdOf
<1> QED
  BY <1>1, <1>2, <1>3, <1>4 DEF IdsAt

LEMMA RelatedToAre ==
    ASSUME NEW s, NEW anchors, NEW F, NEW T, NEW m \in MergedOf(F, T),
           Kept(m, s, anchors, Len(s)), Len(s) \in Nat, NEW relation, NEW a
    PROVE  Range(RelatedTo(m, relation, a)) = IdsAt(s, FirstsOn(s, anchors, relation, a))
<1>1. /\ m.findings \in Seq(F) /\ Len(m.findings) \in Nat
      /\ DOMAIN m.findings = 1..Len(m.findings)
  BY DEF MergedOf
<1> DEFINE wanted == {k \in DOMAIN m.findings : m.effective[k] = relation /\ m.targets[k] = a}
<1>2. Range(RelatedTo(m, relation, a)) = {m.findings[k].id : k \in wanted \cap (1..Len(m.findings))}
  BY <1>1, IdsOfWanted DEF RelatedTo
<1>3. ASSUME NEW k \in 1..Len(m.findings), m.effective[k] = relation, m.targets[k] = a
      PROVE  m.findings[k].id \in IdsAt(s, FirstsOn(s, anchors, relation, a))
  <2>1. PICK i \in 1..Len(s) : Keeps(m, k, s, i, anchors)
    BY DEF Kept
  <2> QED
    BY <1>3, <2>1 DEF Keeps, IdsAt, Firsts, FirstsOn, IdOf
<1>4. ASSUME NEW i \in FirstsOn(s, anchors, relation, a)
      PROVE  \E k \in 1..Len(m.findings) :
                m.effective[k] = relation /\ m.targets[k] = a /\ m.findings[k].id = IdOf(s, i)
  <2>1. PICK k \in 1..Len(m.findings) : Keeps(m, k, s, i, anchors)
    BY DEF Kept, Firsts, FirstsOn
  <2> QED
    BY <1>4, <2>1 DEF Keeps, Firsts, FirstsOn, IdOf
<1> QED
  BY <1>1, <1>2, <1>3, <1>4 DEF IdsAt

LEMMA RelatedSeqs ==
    ASSUME NEW F, NEW T, NEW m \in MergedOf(F, T), NEW relation
    PROVE  /\ Related(m, relation) \in Seq(Ids(m.findings))
           /\ \A a : RelatedTo(m, relation, a) \in Seq(Ids(m.findings))
<1>1. m.findings \in Seq(F) /\ DOMAIN m.findings = 1..Len(m.findings)
  BY DEF MergedOf
<1> QED
  BY <1>1, IdsOfWanted DEF Related, RelatedTo, Ids

\* SetToSeq() lists a finite set.
LEMMA SetListed ==
    ASSUME NEW S, IsFiniteSet(S)
    PROVE  /\ SetToSeq(S) \in Seq(S)
           /\ Len(SetToSeq(S)) = Cardinality(S)
           /\ Range(SetToSeq(S)) = S
<1> DEFINE N == Cardinality(S)
<1>1. N \in Nat /\ ExistsBijection(1..N, S)
  BY FS_CardinalityType
<1>2. PICK g : g \in Bijection(1..N, S)
  BY <1>1 DEF ExistsBijection
<1>3. g \in [1..N -> S] /\ IsInjective(g)
  BY <1>2 DEF Bijection, Injection, IsInjective
<1> DEFINE f == SetToSeq(S)
<1>4. f \in [1..N -> S] /\ IsInjective(f)
  BY <1>3 DEF SetToSeq
<1>5. f \in Seq(S) /\ Len(f) = N
  <2> HIDE DEF f, N
  <2> QED
    BY <1>1, <1>4
<1>6. f \in Surjection(1..N, S)
  <2> HIDE DEF f
  <2>1. f \in Injection(1..N, S)
    BY <1>4 DEF IsInjective, Injection
  <2>2. Cardinality(1..N) = Cardinality(S)
    BY <1>1, FS_Interval
  <2> QED
    BY <2>1, <2>2, FS_Injection
<1>7. Range(f) = S
  <2> HIDE DEF f, N
  <2> QED
    BY <1>4, <1>6 DEF Surjection, Range
<1> QED
  BY <1>5, <1>7

\* The conflicts of a view, without their order.
ConflictOn(m, a) == [target |-> a,
                     supporting |-> RelatedTo(m, "SUPPORTING", a),
                     contradicting |-> RelatedTo(m, "CONTRADICTING", a)]
Disputes(s, anchors) ==
    {a \in anchors : /\ FirstsOn(s, anchors, "SUPPORTING", a) # {}
                     /\ FirstsOn(s, anchors, "CONTRADICTING", a) # {}}
DisputesIn(s, m, anchors) == {ConflictOn(m, a) : a \in Disputes(s, anchors)}

LEMMA ConflictsAre ==
    ASSUME NEW s, NEW anchors, NEW F, NEW T, NEW m \in MergedOf(F, T),
           Kept(m, s, anchors, Len(s)), Len(s) \in Nat
    PROVE  /\ Conflicts(m, anchors) \in Seq(DisputesIn(s, m, anchors))
           /\ Range(Conflicts(m, anchors)) = DisputesIn(s, m, anchors)
           /\ Len(Conflicts(m, anchors)) = Cardinality(Disputes(s, anchors))
           /\ IsFiniteSet(Disputes(s, anchors))
<1> DEFINE all == {ConflictOn(m, a) : a \in Disputes(s, anchors)}
           On(relation, a) == RelatedTo(m, relation, a)
<1>1. \A relation, a : On(relation, a) # << >> <=> FirstsOn(s, anchors, relation, a) # {}
  <2> SUFFICES ASSUME NEW relation, NEW a
               PROVE  On(relation, a) # << >> <=> FirstsOn(s, anchors, relation, a) # {}
    OBVIOUS
  <2>1. Range(On(relation, a)) = IdsAt(s, FirstsOn(s, anchors, relation, a))
    BY RelatedToAre
  <2>2. On(relation, a) \in Seq(Ids(m.findings))
    BY RelatedSeqs
  <2>3. On(relation, a) # << >> <=> Range(On(relation, a)) # {}
    <3> DEFINE q == On(relation, a)
    <3> HIDE DEF On
    <3>1. q # << >> => 1 \in DOMAIN q
      BY <2>2
    <3>2. q = << >> => DOMAIN q = {}
      OBVIOUS
    <3> QED
      BY <3>1, <3>2 DEF Range
  <2> QED
    BY <2>1, <2>3 DEF IdsAt
<1>2. Disputes(s, anchors) = {a \in anchors : On("SUPPORTING", a) # << >> /\ On("CONTRADICTING", a) # << >>}
  <2> HIDE DEF On
  <2> QED
    BY <1>1 DEF Disputes
<1>3. Conflicts(m, anchors) = SetToSeq(all)
  BY <1>2 DEF Conflicts, ConflictOn
<1>4. IsFiniteSet(Disputes(s, anchors))
  <2> DEFINE targets == {s[i].target : i \in 1..Len(s)}
             f == [i \in 1..Len(s) |-> s[i].target]
  <2>1. IsFiniteSet(1..Len(s))
    BY FS_Interval
  <2>2. IsFiniteSet(targets)
    <3>1. f \in Surjection(1..Len(s), targets)
      BY DEF Surjection
    <3> QED
      BY <2>1, <3>1, FS_Surjection
  <2>3. Disputes(s, anchors) \in SUBSET targets
    BY DEF Disputes, FirstsOn, Firsts
  <2> QED
    BY <2>2, <2>3, FS_Subset
<1>5. IsFiniteSet(all) /\ Cardinality(all) = Cardinality(Disputes(s, anchors))
  <2> DEFINE f == [a \in Disputes(s, anchors) |-> ConflictOn(m, a)]
  <2>1. f \in Surjection(Disputes(s, anchors), all)
    BY DEF Surjection
  <2>2. f \in Injection(Disputes(s, anchors), all)
    BY DEF Injection, ConflictOn, IsInjective
  <2> QED
    BY <1>4, <2>1, <2>2, FS_Surjection
<1> QED
  <2> HIDE DEF all
  <2>1. Conflicts(m, anchors) \in Seq(all) /\ Range(Conflicts(m, anchors)) = all
        /\ Len(Conflicts(m, anchors)) = Cardinality(all)
    BY <1>3, <1>5, SetListed
  <2> QED
    BY <1>4, <1>5, <2>1 DEF all, DisputesIn

\* What Outline() has of a view, said of the observations it was merged from.
LEMMA OutlineIs ==
    ASSUME NEW s, Observed(s), NEW gate, ~merge_evidence(s, gate).collision
    PROVE  LET anchors == Anchors(gate)
               side(relation) == IdsAt(s, Firsts(s, anchors, relation))
               on(relation, a) == IdsAt(s, FirstsOn(s, anchors, relation, a))
           IN Outline(merge_evidence(s, gate)) =
                [supporting |-> side("SUPPORTING"),
                 conflicting |-> side("CONTRADICTING"),
                 unresolved |-> side("UNRESOLVED"),
                 abstained |-> Count(s, Len(s), "ABSTAIN"),
                 errors |-> Count(s, Len(s), "ERROR"),
                 conflicts |-> {[target |-> a,
                                 supporting |-> on("SUPPORTING", a),
                                 contradicting |-> on("CONTRADICTING", a)] :
                                   a \in Disputes(s, anchors)}]
<1> DEFINE anchors == Anchors(gate)
           m == Merging(s, anchors)[Len(s)]
           v == merge_evidence(s, gate)
           side(relation) == IdsAt(s, Firsts(s, anchors, relation))
           on(relation, a) == IdsAt(s, FirstsOn(s, anchors, relation, a))
           all == {ConflictOn(m, a) : a \in Disputes(s, anchors)}
<1>1. Len(s) \in Nat
  BY DEF Observed
<1>2. m \in MergedOf(Found(s), Aims(s)) /\ Describes(m, s, anchors, Len(s))
  BY Merges
<1>3. /\ v.supporting = Related(m, "SUPPORTING")
      /\ v.conflicting = Related(m, "CONTRADICTING")
      /\ v.unresolved = Related(m, "UNRESOLVED")
      /\ v.abstained = m.abstained /\ v.errors = m.errors
      /\ v.conflicts = Conflicts(m, anchors) /\ v.collision = m.collision
  BY DEF merge_evidence
<1> HIDE DEF m, v
<1>4. Kept(m, s, anchors, Len(s)) /\ Counted(m, s, Len(s))
  BY <1>2, <1>3 DEF Describes, v
<1>5. /\ \A relation : Range(Related(m, relation)) = side(relation)
      /\ \A relation, a : Range(RelatedTo(m, relation, a)) = on(relation, a)
  BY <1>1, <1>2, <1>4, RelatedAre, RelatedToAre
<1>6. Range(v.conflicts) = all
  <2> HIDE DEF anchors
  <2>1. Range(Conflicts(m, anchors)) = DisputesIn(s, m, anchors)
    BY <1>1, <1>2, <1>4, ConflictsAre
  <2> QED
    BY <1>3, <2>1 DEF DisputesIn
<1>7. {[target |-> c.target, supporting |-> Range(c.supporting),
        contradicting |-> Range(c.contradicting)] : c \in all} =
      {[target |-> a, supporting |-> on("SUPPORTING", a),
        contradicting |-> on("CONTRADICTING", a)] : a \in Disputes(s, anchors)}
  <2> DEFINE Flat(c) == [target |-> c.target, supporting |-> Range(c.supporting),
                         contradicting |-> Range(c.contradicting)]
             Told(a) == [target |-> a, supporting |-> on("SUPPORTING", a),
                         contradicting |-> on("CONTRADICTING", a)]
  <2>1. \A a : Flat(ConflictOn(m, a)) = Told(a)
    BY <1>5 DEF ConflictOn
  <2> HIDE DEF Flat, Told
  <2>2. {Flat(c) : c \in all} = {Told(a) : a \in Disputes(s, anchors)}
    BY <2>1
  <2> QED
    BY <2>2 DEF Flat, Told
<1> HIDE DEF all, side, on
<1>8. Outline(v) =
        [supporting |-> side("SUPPORTING"), conflicting |-> side("CONTRADICTING"),
         unresolved |-> side("UNRESOLVED"), abstained |-> Count(s, Len(s), "ABSTAIN"),
         errors |-> Count(s, Len(s), "ERROR"),
         conflicts |-> {[target |-> a, supporting |-> on("SUPPORTING", a),
                         contradicting |-> on("CONTRADICTING", a)] : a \in Disputes(s, anchors)}]
  BY <1>3, <1>4, <1>5, <1>6, <1>7 DEF Outline, Counted
<1> QED
  BY <1>8 DEF v, side, on

-----------------------------------------------------------------------------
\* The observations in another order.

Shuffled(s, order) == [i \in DOMAIN s |-> s[order[i]]]

\* What a delivery counts for, and whether a later one could change that.
Declared(o, anchors) ==
    LET relation == Effective(o, anchors) IN
    IF relation = "UNRESOLVED" THEN <<relation>> ELSE <<relation, o.target>>
Disputed(s, anchors) ==
    \E i, j \in Telling(s, Len(s)) : /\ IdOf(s, i) = IdOf(s, j)
                                     /\ Declared(s[i], anchors) # Declared(s[j], anchors)

LEMMA ShufflesAre ==
    ASSUME NEW s, Observed(s), NEW order \in Bijection(DOMAIN s, DOMAIN s)
    PROVE  LET t == Shuffled(s, order) IN
           /\ Observed(t) /\ Len(t) = Len(s) /\ Len(s) \in Nat
           /\ \A i \in 1..Len(s) : order[i] \in 1..Len(s) /\ t[i] = s[order[i]]
           /\ \A j \in 1..Len(s) : \E i \in 1..Len(s) : order[i] = j
           /\ \A i, j \in 1..Len(s) : order[i] = order[j] => i = j
<1> DEFINE t == Shuffled(s, order)
<1>1. Len(s) \in Nat /\ DOMAIN s = 1..Len(s)
  BY DEF Observed
<1>2. /\ order \in [1..Len(s) -> 1..Len(s)]
      /\ \A i, j \in 1..Len(s) : order[i] = order[j] => i = j
      /\ \A j \in 1..Len(s) : \E i \in 1..Len(s) : order[i] = j
  BY <1>1 DEF Bijection, Injection, Surjection, IsInjective
<1>3. \A i \in 1..Len(s) : order[i] \in 1..Len(s) /\ t[i] = s[order[i]]
  BY <1>1, <1>2 DEF Shuffled
<1>4. t \in [1..Len(s) -> Range(t)]
  BY <1>1 DEF Shuffled, Range
<1>5. t \in Seq(Range(t)) /\ Len(t) = Len(s) /\ DOMAIN t = 1..Len(s)
  <2> HIDE DEF t
  <2> QED
    BY <1>1, <1>4
<1>6. \A i \in 1..Len(s) : IsObservation(t[i])
  BY <1>1, <1>2, <1>3 DEF Observed
<1> HIDE DEF t
<1>7. Observed(t)
  BY <1>5, <1>6 DEF Observed
<1> QED
  BY <1>1, <1>2, <1>3, <1>5, <1>7 DEF t

\* Corrupted evidence is met in every order, and the counts are the same.
LEMMA ShuffledClash ==
    ASSUME NEW s, Observed(s), NEW order \in Bijection(DOMAIN s, DOMAIN s)
    PROVE  Clash(Shuffled(s, order), Len(s)) <=> Clash(s, Len(s))
<1> DEFINE t == Shuffled(s, order)
           N == Len(s)
<1>1. /\ \A i \in 1..N : order[i] \in 1..N /\ t[i] = s[order[i]]
      /\ \A j \in 1..N : \E i \in 1..N : order[i] = j
  BY ShufflesAre
<1> HIDE DEF t, N
<1>2. \A i \in 1..N : i \in Telling(t, N) <=> order[i] \in Telling(s, N)
  BY <1>1 DEF Telling
<1>3. Clash(t, N) => Clash(s, N)
  <2> SUFFICES ASSUME Clash(t, N) PROVE Clash(s, N)
    OBVIOUS
  <2>1. PICK i \in Telling(t, N), j \in Telling(t, N) :
           IdOf(t, i) = IdOf(t, j) /\ Identity(t[i].finding) # Identity(t[j].finding)
    BY DEF Clash
  <2>2. i \in 1..N /\ j \in 1..N
    BY DEF Telling
  <2>3. order[i] \in Telling(s, N) /\ order[j] \in Telling(s, N)
    BY <1>2, <2>2
  <2>4. t[i] = s[order[i]] /\ t[j] = s[order[j]]
    BY <1>1, <2>2
  <2> QED
    BY <2>1, <2>3, <2>4 DEF Clash, IdOf
<1>4. Clash(s, N) => Clash(t, N)
  <2> SUFFICES ASSUME Clash(s, N) PROVE Clash(t, N)
    OBVIOUS
  <2>1. PICK k \in Telling(s, N), l \in Telling(s, N) :
           IdOf(s, k) = IdOf(s, l) /\ Identity(s[k].finding) # Identity(s[l].finding)
    BY DEF Clash
  <2>2. k \in 1..N /\ l \in 1..N
    BY DEF Telling
  <2>3. PICK i \in 1..N, j \in 1..N : order[i] = k /\ order[j] = l
    BY <1>1, <2>2
  <2>4. i \in Telling(t, N) /\ j \in Telling(t, N) /\ t[i] = s[k] /\ t[j] = s[l]
    BY <1>1, <1>2, <2>3
  <2> QED
    BY <2>1, <2>4 DEF Clash, IdOf
<1> QED
  BY <1>3, <1>4 DEF t, N

LEMMA ShuffledCount ==
    ASSUME NEW s, Observed(s), NEW order \in Bijection(DOMAIN s, DOMAIN s), NEW status
    PROVE  Count(Shuffled(s, order), Len(s), status) = Count(s, Len(s), status)
<1> DEFINE t == Shuffled(s, order)
           N == Len(s)
           S == {i \in 1..N : s[i].status = status}
           T == {i \in 1..N : t[i].status = status}
           f == [i \in T |-> order[i]]
<1>1. /\ \A i \in 1..N : order[i] \in 1..N /\ t[i] = s[order[i]]
      /\ \A j \in 1..N : \E i \in 1..N : order[i] = j
      /\ \A i, j \in 1..N : order[i] = order[j] => i = j
      /\ N \in Nat
  BY ShufflesAre
<1> HIDE DEF t, N
<1>2. f \in [T -> S]
  BY <1>1
<1>3. \A i, j \in T : f[i] = f[j] => i = j
  BY <1>1
<1>4. \A j \in S : \E i \in T : f[i] = j
  <2> TAKE j \in S
  <2>1. PICK i \in 1..N : order[i] = j
    BY <1>1
  <2>2. i \in T /\ f[i] = j
    BY <1>1, <2>1
  <2> QED
    BY <2>2
<1>5. f \in Bijection(T, S)
  <2> HIDE DEF f, S, T
  <2> QED
    BY <1>2, <1>3, <1>4 DEF Bijection, Injection, Surjection, IsInjective
<1>6. IsFiniteSet(T)
  <2>1. IsFiniteSet(1..N) /\ T \in SUBSET (1..N)
    BY <1>1, FS_Interval
  <2> QED
    BY <2>1, FS_Subset
<1>7. Cardinality(S) = Cardinality(T)
  BY <1>5, <1>6, FS_Bijection DEF ExistsBijection
<1> QED
  BY <1>7 DEF Count, t, N

\* Where no delivery disputes another, it need not be the first that counts.
Declaring(s, anchors, relation) ==
    {i \in Telling(s, Len(s)) : Effective(s[i], anchors) = relation}
DeclaringOn(s, anchors, relation, a) ==
    {i \in Declaring(s, anchors, relation) : s[i].target = a}

LEMMA AnyDeliveryCounts ==
    ASSUME NEW s, Observed(s), NEW anchors, ~Disputed(s, anchors)
    PROVE  /\ \A relation : IdsAt(s, Firsts(s, anchors, relation)) =
                              IdsAt(s, Declaring(s, anchors, relation))
           /\ \A a : \A relation \in {"SUPPORTING", "CONTRADICTING"} :
                IdsAt(s, FirstsOn(s, anchors, relation, a)) =
                  IdsAt(s, DeclaringOn(s, anchors, relation, a))
<1>1. Len(s) \in Nat
  BY DEF Observed
<1>2. \A relation : Firsts(s, anchors, relation) \subseteq Declaring(s, anchors, relation)
  BY DEF Firsts, Declaring, Telling, IsFirst
<1>3. \A relation, a : FirstsOn(s, anchors, relation, a) \subseteq DeclaringOn(s, anchors, relation, a)
  BY <1>2 DEF FirstsOn, DeclaringOn
\* The first delivery of an id declares what any other of it declares.
<1>4. ASSUME NEW i \in Telling(s, Len(s))
      PROVE  \E j \in 1..Len(s) : /\ IsFirst(s, j) /\ IdOf(s, j) = IdOf(s, i)
                                  /\ Declared(s[j], anchors) = Declared(s[i], anchors)
  <2>1. PICK j \in 1..Len(s) : IsFirst(s, j) /\ IdOf(s, j) = IdOf(s, i)
    BY <1>1, FirstOfThem
  <2>2. j \in Telling(s, Len(s))
    BY <2>1 DEF IsFirst, Telling
  <2>3. Declared(s[j], anchors) = Declared(s[i], anchors)
    BY <2>1, <2>2 DEF Disputed
  <2> QED
    BY <2>1, <2>3
<1>5. ASSUME NEW o, NEW p, Declared(o, anchors) = Declared(p, anchors)
      PROVE  /\ Effective(o, anchors) = Effective(p, anchors)
             /\ Effective(o, anchors) # "UNRESOLVED" => o.target = p.target
  <2>1. \A x, y, z : <<x, y>> # <<z>>
    OBVIOUS
  <2>2. \A x, y : <<x>> = <<y>> => x = y
    OBVIOUS
  <2>3. \A x, y, z, w : <<x, y>> = <<z, w>> => x = z /\ y = w
    OBVIOUS
  <2> QED
    BY <1>5, <2>1, <2>2, <2>3 DEF Declared
<1>6. ASSUME NEW relation, NEW i \in Declaring(s, anchors, relation)
      PROVE  IdOf(s, i) \in IdsAt(s, Firsts(s, anchors, relation))
  <2>1. PICK j \in 1..Len(s) : /\ IsFirst(s, j) /\ IdOf(s, j) = IdOf(s, i)
                               /\ Declared(s[j], anchors) = Declared(s[i], anchors)
    BY <1>4, <1>6 DEF Declaring
  <2>2. j \in Firsts(s, anchors, relation)
    BY <1>5, <1>6, <2>1 DEF Declaring, Firsts
  <2> QED
    BY <2>1, <2>2 DEF IdsAt
<1>7. ASSUME NEW a, NEW relation \in {"SUPPORTING", "CONTRADICTING"},
             NEW i \in DeclaringOn(s, anchors, relation, a)
      PROVE  IdOf(s, i) \in IdsAt(s, FirstsOn(s, anchors, relation, a))
  <2>1. PICK j \in 1..Len(s) : /\ IsFirst(s, j) /\ IdOf(s, j) = IdOf(s, i)
                               /\ Declared(s[j], anchors) = Declared(s[i], anchors)
    BY <1>4, <1>7 DEF DeclaringOn, Declaring
  <2>2. Effective(s[i], anchors) = relation /\ s[i].target = a /\ relation # "UNRESOLVED"
    BY <1>7 DEF DeclaringOn, Declaring
  <2>3. Effective(s[j], anchors) = relation /\ s[j].target = a
    BY <1>5, <2>1, <2>2
  <2>4. j \in FirstsOn(s, anchors, relation, a)
    BY <2>1, <2>3 DEF FirstsOn, Firsts
  <2> QED
    BY <2>1, <2>4 DEF IdsAt
<1>8. ASSUME NEW relation
      PROVE  IdsAt(s, Firsts(s, anchors, relation)) = IdsAt(s, Declaring(s, anchors, relation))
  BY <1>2, <1>6 DEF IdsAt
<1>9. ASSUME NEW a, NEW relation \in {"SUPPORTING", "CONTRADICTING"}
      PROVE  IdsAt(s, FirstsOn(s, anchors, relation, a)) =
                IdsAt(s, DeclaringOn(s, anchors, relation, a))
  BY <1>3, <1>7 DEF IdsAt
<1> QED
  BY <1>8, <1>9

LEMMA ShuffledDeclaring ==
    ASSUME NEW s, Observed(s), NEW order \in Bijection(DOMAIN s, DOMAIN s), NEW anchors
    PROVE  LET t == Shuffled(s, order) IN
           /\ Disputed(t, anchors) => Disputed(s, anchors)
           /\ \A relation : IdsAt(t, Declaring(t, anchors, relation)) =
                              IdsAt(s, Declaring(s, anchors, relation))
           /\ \A relation, a : IdsAt(t, DeclaringOn(t, anchors, relation, a)) =
                                 IdsAt(s, DeclaringOn(s, anchors, relation, a))
<1> DEFINE t == Shuffled(s, order)
           N == Len(s)
<1>1. /\ \A i \in 1..N : order[i] \in 1..N /\ t[i] = s[order[i]]
      /\ \A j \in 1..N : \E i \in 1..N : order[i] = j
      /\ Len(t) = N
  BY ShufflesAre
<1> HIDE DEF t, N
<1>2. \A i \in 1..N : i \in Telling(t, N) <=> order[i] \in Telling(s, N)
  BY <1>1 DEF Telling
<1>3. Disputed(t, anchors) => Disputed(s, anchors)
  <2> SUFFICES ASSUME Disputed(t, anchors) PROVE Disputed(s, anchors)
    OBVIOUS
  <2>1. PICK i \in Telling(t, N), j \in Telling(t, N) :
           IdOf(t, i) = IdOf(t, j) /\ Declared(t[i], anchors) # Declared(t[j], anchors)
    BY <1>1 DEF Disputed
  <2>2. i \in 1..N /\ j \in 1..N
    BY DEF Telling
  <2>3. order[i] \in Telling(s, N) /\ order[j] \in Telling(s, N)
    BY <1>2, <2>2
  <2>4. t[i] = s[order[i]] /\ t[j] = s[order[j]]
    BY <1>1, <2>2
  <2> QED
    BY <2>1, <2>3, <2>4 DEF Disputed, IdOf, N
<1>4. ASSUME NEW relation
      PROVE  /\ \A i \in 1..N : i \in Declaring(t, anchors, relation) <=>
                                   order[i] \in Declaring(s, anchors, relation)
             /\ \A a : \A i \in 1..N : i \in DeclaringOn(t, anchors, relation, a) <=>
                                          order[i] \in DeclaringOn(s, anchors, relation, a)
  <2>1. \A i \in 1..N : i \in Declaring(t, anchors, relation) <=>
                           order[i] \in Declaring(s, anchors, relation)
    BY <1>1, <1>2 DEF Declaring, N
  <2> QED
    BY <1>1, <2>1 DEF DeclaringOn
<1>5. ASSUME NEW relation
      PROVE  /\ Declaring(t, anchors, relation) \subseteq 1..N
             /\ Declaring(s, anchors, relation) \subseteq 1..N
             /\ \A a : DeclaringOn(t, anchors, relation, a) \subseteq 1..N
             /\ \A a : DeclaringOn(s, anchors, relation, a) \subseteq 1..N
  BY <1>1 DEF Declaring, DeclaringOn, Telling, N
<1>6. ASSUME NEW T \in SUBSET (1..N), NEW S \in SUBSET (1..N),
             \A i \in 1..N : i \in T <=> order[i] \in S
      PROVE  IdsAt(t, T) = IdsAt(s, S)
  <2>1. \A i \in T : order[i] \in S /\ IdOf(t, i) = IdOf(s, order[i])
    BY <1>1, <1>6 DEF IdOf
  <2>2. ASSUME NEW j \in S
        PROVE  \E i \in T : IdOf(t, i) = IdOf(s, j)
    <3>1. PICK i \in 1..N : order[i] = j
      BY <1>1
    <3>2. i \in T /\ IdOf(t, i) = IdOf(s, j)
      BY <1>1, <1>6, <3>1 DEF IdOf
    <3> QED
      BY <3>2
  <2>3. IdsAt(t, T) \subseteq IdsAt(s, S)
    BY <2>1 DEF IdsAt
  <2>4. IdsAt(s, S) \subseteq IdsAt(t, T)
    BY <2>2 DEF IdsAt
  <2> QED
    BY <2>3, <2>4
<1>7. ASSUME NEW relation
      PROVE  IdsAt(t, Declaring(t, anchors, relation)) = IdsAt(s, Declaring(s, anchors, relation))
  BY <1>4, <1>5, <1>6
<1>8. ASSUME NEW relation, NEW a
      PROVE  IdsAt(t, DeclaringOn(t, anchors, relation, a)) =
                IdsAt(s, DeclaringOn(s, anchors, relation, a))
  BY <1>4, <1>5, <1>6
<1> QED
  BY <1>3, <1>7, <1>8 DEF t

-----------------------------------------------------------------------------
\* That corrupted evidence is refused does not depend on the order in which the
\* observations are merged, and unless one delivery of a finding disputes
\* another neither do the groups, the counts and the conflicts of the view
\* (merge_evidence): for any number of observations and any gate.
THEOREM OrderIsImmaterial ==
    ASSUME NEW s, Observed(s), NEW gate, NEW order \in Bijection(DOMAIN s, DOMAIN s)
    PROVE  LET v == merge_evidence(s, gate)
               w == merge_evidence(Shuffled(s, order), gate) IN
           /\ w.collision = v.collision
           /\ ~v.collision /\ ~Disputed(s, Anchors(gate)) => Outline(w) = Outline(v)
<1> DEFINE t == Shuffled(s, order)
           anchors == Anchors(gate)
           v == merge_evidence(s, gate)
           w == merge_evidence(t, gate)
           N == Len(s)
<1>1. Observed(t) /\ Len(t) = N
  BY ShufflesAre
<1> HIDE DEF anchors
<1>2. ASSUME NEW u, Observed(u), Len(u) = N
      PROVE  /\ merge_evidence(u, gate).collision \in BOOLEAN
             /\ merge_evidence(u, gate).collision <=> Clash(u, N)
  <2> DEFINE m == Merging(u, anchors)[Len(u)]
  <2>1. m \in MergedOf(Found(u), Aims(u)) /\ Describes(m, u, anchors, Len(u))
    BY <1>2, Merges
  <2>2. merge_evidence(u, gate).collision = m.collision
    BY DEF merge_evidence, anchors
  <2> HIDE DEF m
  <2> QED
    BY <1>2, <2>1, <2>2 DEF Describes, MergedOf
<1>3. Clash(t, N) <=> Clash(s, N)
  BY ShuffledClash
<1> HIDE DEF t, v, w
<1>4. w.collision = v.collision
  BY <1>1, <1>2, <1>3 DEF v, w
<1>5. ASSUME ~v.collision, ~Disputed(s, anchors)
      PROVE  Outline(w) = Outline(v)
  <2>1. ~Disputed(t, anchors)
    BY <1>5, ShuffledDeclaring DEF t
  <2>2. \A relation : IdsAt(t, Firsts(t, anchors, relation)) = IdsAt(s, Firsts(s, anchors, relation))
    <3>1. \A relation : IdsAt(t, Declaring(t, anchors, relation)) =
                          IdsAt(s, Declaring(s, anchors, relation))
      BY ShuffledDeclaring DEF t
    <3>2. \A relation : IdsAt(t, Firsts(t, anchors, relation)) =
                          IdsAt(t, Declaring(t, anchors, relation))
      BY <1>1, <2>1, AnyDeliveryCounts
    <3>3. \A relation : IdsAt(s, Firsts(s, anchors, relation)) =
                          IdsAt(s, Declaring(s, anchors, relation))
      BY <1>5, AnyDeliveryCounts
    <3> QED
      BY <3>1, <3>2, <3>3
  <2>3. \A a : \A relation \in {"SUPPORTING", "CONTRADICTING"} :
           IdsAt(t, FirstsOn(t, anchors, relation, a)) = IdsAt(s, FirstsOn(s, anchors, relation, a))
    <3>1. \A relation, a : IdsAt(t, DeclaringOn(t, anchors, relation, a)) =
                             IdsAt(s, DeclaringOn(s, anchors, relation, a))
      BY ShuffledDeclaring DEF t
    <3>2. \A a : \A relation \in {"SUPPORTING", "CONTRADICTING"} :
             IdsAt(t, FirstsOn(t, anchors, relation, a)) =
               IdsAt(t, DeclaringOn(t, anchors, relation, a))
      BY <1>1, <2>1, AnyDeliveryCounts
    <3>3. \A a : \A relation \in {"SUPPORTING", "CONTRADICTING"} :
             IdsAt(s, FirstsOn(s, anchors, relation, a)) =
               IdsAt(s, DeclaringOn(s, anchors, relation, a))
      BY <1>5, AnyDeliveryCounts
    <3> QED
      BY <3>1, <3>2, <3>3
  <2>4. Disputes(t, anchors) = Disputes(s, anchors)
    <3>1. \A u, S : S # {} <=> IdsAt(u, S) # {}
      BY DEF IdsAt
    <3>2. \A a : \A relation \in {"SUPPORTING", "CONTRADICTING"} :
             FirstsOn(t, anchors, relation, a) # {} <=> FirstsOn(s, anchors, relation, a) # {}
      BY <2>3, <3>1
    <3> QED
      BY <3>2 DEF Disputes
  <2>5. \A status : Count(t, N, status) = Count(s, N, status)
    BY ShuffledCount DEF t
  <2> DEFINE Groups(u) ==
        [supporting |-> IdsAt(u, Firsts(u, anchors, "SUPPORTING")),
         conflicting |-> IdsAt(u, Firsts(u, anchors, "CONTRADICTING")),
         unresolved |-> IdsAt(u, Firsts(u, anchors, "UNRESOLVED")),
         abstained |-> Count(u, Len(u), "ABSTAIN"),
         errors |-> Count(u, Len(u), "ERROR"),
         conflicts |-> {[target |-> a,
                         supporting |-> IdsAt(u, FirstsOn(u, anchors, "SUPPORTING", a)),
                         contradicting |-> IdsAt(u, FirstsOn(u, anchors, "CONTRADICTING", a))] :
                           a \in Disputes(u, anchors)}]
  <2>6. Outline(v) = Groups(s)
    BY <1>5, OutlineIs DEF v, anchors
  <2>7. Outline(w) = Groups(t)
    BY <1>1, <1>4, <1>5, OutlineIs DEF w, anchors
  <2>8. Groups(t) = Groups(s)
    <3>1. {[target |-> a,
            supporting |-> IdsAt(t, FirstsOn(t, anchors, "SUPPORTING", a)),
            contradicting |-> IdsAt(t, FirstsOn(t, anchors, "CONTRADICTING", a))] :
              a \in Disputes(t, anchors)} =
          {[target |-> a,
            supporting |-> IdsAt(s, FirstsOn(s, anchors, "SUPPORTING", a)),
            contradicting |-> IdsAt(s, FirstsOn(s, anchors, "CONTRADICTING", a))] :
              a \in Disputes(s, anchors)}
      BY <2>3, <2>4
    <3> QED
      BY <1>1, <2>2, <2>5, <3>1
  <2> QED
    BY <2>6, <2>7, <2>8
<1> QED
  BY <1>4, <1>5 DEF v, w, t, anchors

\* Who is quoted by a view, and who told something.
Quoted(v) == {v.findings[k].source : k \in DOMAIN v.findings}
Sources(s) == {s[i].finding.source : i \in Telling(s, Len(s))}

\* A merge that is not refused loses nothing and invents nothing: every id that
\* was told is in exactly one of the three groups, by what its first delivery
\* declared and could prove; one finding is kept for each; the sources that
\* are quoted are those that told something; and every observation is a finding,
\* a refusal or a failure that was counted (merge_evidence).
THEOREM MergeLosesNothing ==
    ASSUME NEW s, Observed(s), NEW gate, ~merge_evidence(s, gate).collision
    PROVE  LET v == merge_evidence(s, gate)
               side(relation) == IdsAt(s, Firsts(s, Anchors(gate), relation))
           IN
           /\ Range(v.supporting) = side("SUPPORTING")
           /\ Range(v.conflicting) = side("CONTRADICTING")
           /\ Range(v.unresolved) =
                Heard(s, Len(s)) \ (Range(v.supporting) \cup Range(v.conflicting))
           /\ Len(v.findings) = Cardinality(Heard(s, Len(s)))
           /\ Quoted(v) = Sources(s)
           /\ v.abstained + v.errors + Cardinality(Telling(s, Len(s))) = Len(s)
<1> DEFINE v == merge_evidence(s, gate)
           anchors == Anchors(gate)
           m == Merging(s, anchors)[Len(s)]
           N == Len(s)
           side(relation) == IdsAt(s, Firsts(s, anchors, relation))
<1>1. N \in Nat /\ DOMAIN s = 1..N
  BY DEF Observed
<1>2. m \in MergedOf(Found(s), Aims(s)) /\ Describes(m, s, anchors, N)
  BY Merges
<1>3. /\ v.findings = m.findings
      /\ v.supporting = Related(m, "SUPPORTING")
      /\ v.conflicting = Related(m, "CONTRADICTING")
      /\ v.unresolved = Related(m, "UNRESOLVED")
      /\ v.abstained = m.abstained /\ v.errors = m.errors /\ v.collision = m.collision
  BY DEF merge_evidence
<1>4. ~v.collision
  OBVIOUS
<1> HIDE DEF v, m, anchors
<1>5. Kept(m, s, anchors, N) /\ Counted(m, s, N) /\ ~Clash(s, N)
  BY <1>2, <1>3, <1>4 DEF Describes
<1> HIDE DEF N
<1>6. \A relation : Range(Related(m, relation)) = side(relation)
  BY <1>1, <1>2, <1>5, RelatedAre DEF N
<1>7. \A i \in Telling(s, N) : \E j \in 1..N : IsFirst(s, j) /\ IdOf(s, j) = IdOf(s, i)
  BY <1>1, FirstOfThem
<1>8. side("UNRESOLVED") = Heard(s, N) \ (side("SUPPORTING") \cup side("CONTRADICTING"))
  <2>1. ASSUME NEW id \in side("UNRESOLVED")
        PROVE  id \in Heard(s, N) \ (side("SUPPORTING") \cup side("CONTRADICTING"))
    <3>1. PICK j \in 1..N : /\ IsFirst(s, j) /\ IdOf(s, j) = id
                            /\ Effective(s[j], anchors) = "UNRESOLVED"
      BY <2>1 DEF IdsAt, Firsts, N
    <3>2. id \in Heard(s, N)
      BY <3>1 DEF Heard, Telling, IsFirst
    <3>3. ASSUME NEW relation, id \in side(relation)
          PROVE  relation = "UNRESOLVED"
      <4>1. PICK k \in 1..N : /\ IsFirst(s, k) /\ IdOf(s, k) = id
                              /\ Effective(s[k], anchors) = relation
        BY <3>3 DEF IdsAt, Firsts, N
      <4>2. k = j
        BY <1>1, <3>1, <4>1, FirstIsOne
      <4> QED
        BY <3>1, <4>1, <4>2
    <3> HIDE DEF side
    <3> QED
      BY <3>2, <3>3
  <2>2. ASSUME NEW id \in Heard(s, N), id \notin side("SUPPORTING"), id \notin side("CONTRADICTING")
        PROVE  id \in side("UNRESOLVED")
    <3>1. PICK j \in 1..N : IsFirst(s, j) /\ IdOf(s, j) = id
      BY <1>7, <2>2 DEF Heard
    <3>2. Effective(s[j], anchors) \in Relations
      BY <1>1 DEF Effective, Observed, IsObservation, Relations
    <3>3. id \in side(Effective(s[j], anchors))
      BY <3>1 DEF IdsAt, Firsts, N
    <3> HIDE DEF side
    <3> QED
      BY <2>2, <3>2, <3>3 DEF Relations
  <2> HIDE DEF side
  <2> QED
    BY <2>1, <2>2
<1>9. {m.findings[k].source : k \in DOMAIN m.findings} = {s[i].finding.source : i \in Telling(s, N)}
  <2>1. DOMAIN m.findings = 1..Len(m.findings)
    BY <1>2 DEF MergedOf
  <2>2. ASSUME NEW k \in 1..Len(m.findings)
        PROVE  \E i \in Telling(s, N) : s[i].finding.source = m.findings[k].source
    <3>1. PICK i \in 1..N : Keeps(m, k, s, i, anchors)
      BY <1>5 DEF Kept
    <3> QED
      BY <3>1 DEF Keeps, IsFirst, Telling
  <2>3. ASSUME NEW i \in Telling(s, N)
        PROVE  \E k \in 1..Len(m.findings) : s[i].finding.source = m.findings[k].source
    <3>1. PICK j \in 1..N : IsFirst(s, j) /\ IdOf(s, j) = IdOf(s, i)
      BY <1>7
    <3>2. PICK k \in 1..Len(m.findings) : Keeps(m, k, s, j, anchors)
      BY <1>5, <3>1 DEF Kept
    <3>3. j \in Telling(s, N)
      BY <3>1 DEF IsFirst, Telling
    <3>4. Identity(s[j].finding) = Identity(s[i].finding)
      BY <1>5, <3>1, <3>3 DEF Clash
    <3>5. s[j].finding.source = s[i].finding.source
      <4>1. \A a, b, c, d, e, f, g, h : <<a, b, c, d>> = <<e, f, g, h>> => a = e
        OBVIOUS
      <4> QED
        BY <3>4, <4>1 DEF Identity
    <3> QED
      BY <3>2, <3>5 DEF Keeps
  <2> DEFINE kept == {m.findings[k].source : k \in DOMAIN m.findings}
             told == {s[i].finding.source : i \in Telling(s, N)}
  <2>4. kept \subseteq told
    BY <2>1, <2>2
  <2>5. told \subseteq kept
    BY <2>1, <2>3
  <2> HIDE DEF kept, told
  <2>6. kept = told
    BY <2>4, <2>5
  <2> QED
    BY <2>6 DEF kept, told
<1>10. Count(s, N, "ABSTAIN") + Count(s, N, "ERROR") + Cardinality(Telling(s, N)) = N
  <2> DEFINE S(status) == {i \in 1..N : s[i].status = status}
             rest == S("ABSTAIN") \cup S("ERROR")
  <2>1. \A status : IsFiniteSet(S(status))
    <3>1. IsFiniteSet(1..N)
      BY <1>1, FS_Interval
    <3>2. \A status : S(status) \in SUBSET (1..N)
      OBVIOUS
    <3> QED
      BY <3>1, <3>2, FS_Subset
  <2>2. 1..N = rest \cup S("FINDING")
    BY <1>1 DEF Observed, IsObservation
  <2>3. S("ABSTAIN") \cap S("ERROR") = {} /\ rest \cap S("FINDING") = {}
    OBVIOUS
  <2>4. /\ Count(s, N, "ABSTAIN") = Cardinality(S("ABSTAIN"))
        /\ Count(s, N, "ERROR") = Cardinality(S("ERROR"))
        /\ Telling(s, N) = S("FINDING")
    BY DEF Count, Telling
  <2> HIDE DEF S
  <2>5. /\ IsFiniteSet(rest)
        /\ Cardinality(rest) = Cardinality(S("ABSTAIN")) + Cardinality(S("ERROR"))
                                 - Cardinality(S("ABSTAIN") \cap S("ERROR"))
    BY <2>1, FS_Union
  <2> HIDE DEF rest
  <2>6. Cardinality(rest \cup S("FINDING")) = Cardinality(rest) + Cardinality(S("FINDING"))
                                                - Cardinality(rest \cap S("FINDING"))
    BY <2>1, <2>5, FS_Union
  <2>7. Cardinality({}) = 0 /\ Cardinality(1..N) = N
    BY <1>1, FS_EmptySet, FS_Interval
  <2>8. \A status : Cardinality(S(status)) \in Nat
    BY <2>1, FS_CardinalityType
  <2> DEFINE a == Cardinality(S("ABSTAIN"))
             e == Cardinality(S("ERROR"))
             f == Cardinality(S("FINDING"))
  <2>9. a \in Nat /\ e \in Nat /\ f \in Nat
    BY <2>8
  <2>10. Cardinality(rest) = a + e - 0
    BY <2>3, <2>5, <2>7
  <2>11. N = Cardinality(rest) + f - 0
    BY <2>2, <2>3, <2>6, <2>7
  <2>12. Count(s, N, "ABSTAIN") = a /\ Count(s, N, "ERROR") = e /\ Cardinality(Telling(s, N)) = f
    BY <2>4
  <2> HIDE DEF a, e, f
  <2> QED
    BY <2>9, <2>10, <2>11, <2>12
<1> HIDE DEF side
<1>11. /\ Range(v.supporting) = side("SUPPORTING")
       /\ Range(v.conflicting) = side("CONTRADICTING")
       /\ Range(v.unresolved) = Heard(s, N) \ (Range(v.supporting) \cup Range(v.conflicting))
       /\ Len(v.findings) = Cardinality(Heard(s, N))
       /\ Quoted(v) = Sources(s)
       /\ v.abstained + v.errors + Cardinality(Telling(s, N)) = N
  BY <1>3, <1>5, <1>6, <1>8, <1>9, <1>10 DEF Counted, Quoted, Sources, N
<1> QED
  BY <1>11 DEF v, side, anchors, N

-----------------------------------------------------------------------------
LEMMA NoneCounted ==
    ASSUME NEW s, NEW n \in Nat, NEW status
    PROVE  Count(s, n, status) = 0 <=> \A i \in 1..n : s[i].status # status
<1> DEFINE S == {i \in 1..n : s[i].status = status}
<1>1. IsFiniteSet(S)
  <2>1. IsFiniteSet(1..n) /\ S \in SUBSET (1..n)
    BY FS_Interval
  <2> QED
    BY <2>1, FS_Subset
<1>2. Cardinality(S) = 0 <=> S = {}
  <2> HIDE DEF S
  <2> QED
    BY <1>1, FS_EmptySet
<1> QED
  BY <1>2 DEF Count

\* Without a gate a decision is an error only if every advisor failed.
LEMMA EveryoneFailed ==
    ASSUME NEW s, Observed(s), ~merge_evidence(s, NoGate).collision
    PROVE  DecisionStatus(NoGate, merge_evidence(s, NoGate)) =
             IF s # << >> /\ \A i \in DOMAIN s : s[i].status = "ERROR" THEN "ERROR" ELSE "ABSTAIN"
<1> DEFINE v == merge_evidence(s, NoGate)
           N == Len(s)
           m == Merging(s, Anchors(NoGate))[N]
<1>1. N \in Nat /\ DOMAIN s = 1..N /\ (s = << >> <=> N = 0)
  BY DEF Observed
<1>2. /\ m \in MergedOf(Found(s), Aims(s))
      /\ Describes(m, s, Anchors(NoGate), N)
  BY Merges
<1>3. /\ v.findings = m.findings /\ v.abstained = m.abstained /\ v.errors = m.errors
      /\ v.collision = m.collision
  BY DEF merge_evidence
<1>4. ~v.collision
  OBVIOUS
<1> HIDE DEF v, m, N
<1>5. Counted(m, s, N)
  BY <1>2, <1>3, <1>4 DEF Describes
<1>6. v.findings = << >> <=> \A i \in 1..N : s[i].status # "FINDING"
  <2>1. v.findings = << >> <=> Len(v.findings) = 0
    <3>1. v.findings \in Seq(Found(s))
      BY <1>2, <1>3 DEF MergedOf
    <3> QED
      BY <3>1
  <2>2. IsFiniteSet(Heard(s, N)) /\ Cardinality(Heard(s, N)) = Len(v.findings)
    BY <1>1, <1>3, <1>5, ToldGrows DEF Counted
  <2>3. Heard(s, N) = {} <=> Len(v.findings) = 0
    BY <2>2, FS_EmptySet
  <2>4. Heard(s, N) = {} <=> \A i \in 1..N : s[i].status # "FINDING"
    BY DEF Heard, Telling
  <2> QED
    BY <2>1, <2>3, <2>4
<1>7. v.abstained = 0 <=> \A i \in 1..N : s[i].status # "ABSTAIN"
  BY <1>1, <1>3, <1>5, NoneCounted DEF Counted
<1>8. v.errors \in Nat /\ (v.errors = 0 <=> \A i \in 1..N : s[i].status # "ERROR")
  BY <1>1, <1>2, <1>3, <1>5, NoneCounted DEF Counted, MergedOf
<1>9. \A i \in 1..N : s[i].status \in {"FINDING", "ABSTAIN", "ERROR"}
  BY <1>1 DEF Observed, IsObservation
<1>10. (v.errors > 0 /\ v.findings = << >> /\ v.abstained = 0) <=>
          (s # << >> /\ \A i \in DOMAIN s : s[i].status = "ERROR")
  <2>1. ASSUME v.errors > 0, v.findings = << >>, v.abstained = 0
        PROVE  s # << >> /\ \A i \in DOMAIN s : s[i].status = "ERROR"
    BY <1>1, <1>6, <1>7, <1>8, <1>9, <2>1
  <2>2. ASSUME s # << >>, \A i \in DOMAIN s : s[i].status = "ERROR"
        PROVE  v.errors > 0 /\ v.findings = << >> /\ v.abstained = 0
    <3>1. 1 \in 1..N
      BY <1>1, <2>2
    <3>2. v.errors # 0
      BY <1>1, <1>8, <2>2, <3>1
    <3>3. \A i \in 1..N : s[i].status # "FINDING" /\ s[i].status # "ABSTAIN"
      BY <1>1, <2>2
    <3> QED
      BY <1>6, <1>7, <1>8, <3>2, <3>3
  <2> QED
    BY <2>1, <2>2
<1> QED
  BY <1>10 DEF DecisionStatus, v

\* Whatever was observed, advice moves no decision: with a gate the status is
\* the gate's; without one it is an abstention, or an error if every advisor
\* failed, and cites nothing.  What is cited beyond the gate's own findings was
\* told in support, and nobody is quoted who told nothing (synthesize_decision).
THEOREM AdviceMovesNoDecision ==
    ASSUME NEW s, Observed(s), NEW gate, ~merge_evidence(s, gate).collision
    PROVE  LET d == synthesize_decision(merge_evidence(s, gate), gate) IN
           /\ gate # NoGate => d.status = gate.status
           /\ gate = NoGate =>
                /\ d.status = (IF s # << >> /\ \A i \in DOMAIN s : s[i].status = "ERROR"
                               THEN "ERROR" ELSE "ABSTAIN")
                /\ d.refs = {}
           /\ gate # NoGate /\ gate.status = "REJECTED" => gate.refs \subseteq d.refs
           /\ \A ref \in d.refs \ gate.refs :
                \E i \in Telling(s, Len(s)) : IdOf(s, i) = ref /\ s[i].relation = "SUPPORTING"
           /\ d.perspectives = Sources(s)
<1> DEFINE v == merge_evidence(s, gate)
           d == synthesize_decision(v, gate)
<1>1. /\ d.status = DecisionStatus(gate, v) /\ d.refs = DecisionRefs(gate, v)
      /\ d.perspectives = Quoted(v)
  BY DEF synthesize_decision, Quoted
<1>2. d.perspectives = Sources(s)
  <2>1. Quoted(v) = Sources(s)
    BY MergeLosesNothing
  <2> HIDE DEF d, v
  <2> QED
    BY <1>1, <2>1
<1>3. Range(v.supporting) = IdsAt(s, Firsts(s, Anchors(gate), "SUPPORTING"))
  BY MergeLosesNothing
<1>4. gate = NoGate =>
        d.status = IF s # << >> /\ \A i \in DOMAIN s : s[i].status = "ERROR"
                   THEN "ERROR" ELSE "ABSTAIN"
  <2> HIDE DEF d
  <2> QED
    BY <1>1, EveryoneFailed
<1> HIDE DEF v, d
<1>5. gate # NoGate => d.status = gate.status
  BY <1>1 DEF DecisionStatus
<1>6. gate = NoGate => d.refs = {}
  BY <1>1 DEF DecisionRefs
<1>7. gate # NoGate /\ gate.status = "REJECTED" => gate.refs \subseteq d.refs
  BY <1>1 DEF DecisionRefs
<1>8. ASSUME NEW ref \in d.refs \ gate.refs
      PROVE  \E i \in Telling(s, Len(s)) : IdOf(s, i) = ref /\ s[i].relation = "SUPPORTING"
  <2>1. ref \in Range(v.supporting)
    BY <1>1, <1>8 DEF DecisionRefs
  <2>2. PICK i \in Firsts(s, Anchors(gate), "SUPPORTING") : IdOf(s, i) = ref
    BY <1>3, <2>1 DEF IdsAt
  <2>3. i \in Telling(s, Len(s)) /\ s[i].relation = "SUPPORTING"
    BY DEF Firsts, Telling, IsFirst, Effective
  <2> QED
    BY <2>2, <2>3
<1>9. /\ gate # NoGate => d.status = gate.status
      /\ gate = NoGate =>
           /\ d.status = (IF s # << >> /\ \A i \in DOMAIN s : s[i].status = "ERROR"
                          THEN "ERROR" ELSE "ABSTAIN")
           /\ d.refs = {}
      /\ gate # NoGate /\ gate.status = "REJECTED" => gate.refs \subseteq d.refs
      /\ \A ref \in d.refs \ gate.refs :
           \E i \in Telling(s, Len(s)) : IdOf(s, i) = ref /\ s[i].relation = "SUPPORTING"
      /\ d.perspectives = Sources(s)
  BY <1>2, <1>4, <1>5, <1>6, <1>7, <1>8
<1> QED
  BY <1>9 DEF d, v

\* The conflicts of a view are listed, each once.
LEMMA ConflictsListed ==
    ASSUME NEW s, Observed(s), NEW gate, ~merge_evidence(s, gate).collision
    PROVE  /\ Len(merge_evidence(s, gate).conflicts) \in Nat
           /\ \E C : merge_evidence(s, gate).conflicts \in Seq(C)
<1> DEFINE v == merge_evidence(s, gate)
           anchors == Anchors(gate)
           m == Merging(s, anchors)[Len(s)]
<1>1. m \in MergedOf(Found(s), Aims(s)) /\ Describes(m, s, anchors, Len(s))
  BY Merges
<1>2. v.conflicts = Conflicts(m, anchors) /\ v.collision = m.collision
  BY DEF merge_evidence
<1>3. Len(s) \in Nat
  BY DEF Observed
<1>4. ~v.collision
  OBVIOUS
<1> HIDE DEF m, v, anchors
<1>5. Kept(m, s, anchors, Len(s))
  BY <1>1, <1>2, <1>4 DEF Describes
<1>6. v.conflicts \in Seq(DisputesIn(s, m, anchors))
  BY <1>1, <1>2, <1>3, <1>5, ConflictsAre
<1> QED
  BY <1>6 DEF v

=============================================================================

---------------------------- MODULE ListsProofs ----------------------------
(* What the windows list, where their cursors are and which pointers may   *)
(* dangle in Lists, for any number of windows, directories and names.      *)
EXTENDS Lists, FiniteSetTheorems, SequenceTheorems, TLAPS

-----------------------------------------------------------------------------
(* Induction without an operator as a parameter: a set of numbers has a    *)
(* least one, and a family of finite sets a smallest.                      *)
LEMMA LeastNumber ==
  ASSUME NEW X, X \subseteq Nat, X # {}
  PROVE  \E x \in X : \A y \in X : x <= y
<1> DEFINE F == {1..n : n \in X}
<1>1. F \subseteq FiniteSubsetsOf(Nat) /\ F # {}
  <2>1. ASSUME NEW n \in X PROVE 1..n \in SUBSET Nat /\ IsFiniteSet(1..n)
    BY FS_Interval
  <2>. QED
    BY <2>1 DEF FiniteSubsetsOf
<1>2. IsWellFoundedOn(StrictSubsetOrdering(Nat), FiniteSubsetsOf(Nat))
  BY FS_StrictSubsetOrderingWellFounded
<1> HIDE DEF F
<1>3. \E x \in F : \A y \in F : ~(<<y, x>> \in StrictSubsetOrdering(Nat))
  BY <1>1, <1>2, WFMin
<1>4. PICK n \in X : \A y \in F : ~(<<y, 1..n>> \in StrictSubsetOrdering(Nat))
  BY <1>3 DEF F
<1>5. ASSUME NEW k \in X, k < n PROVE FALSE
  <2>1. ~(<<1..k, 1..n>> \in StrictSubsetOrdering(Nat))
    BY <1>4 DEF F
  <2>2. (1..k) \subseteq (1..n) /\ n \in 1..n /\ n \notin 1..k /\ (1..k) \in SUBSET Nat /\ (1..n) \in SUBSET Nat
    BY <1>5
  <2>. QED
    BY <2>1, <2>2 DEF StrictSubsetOrdering
<1>. QED
  BY <1>5

LEMMA SmallestSet ==
  ASSUME NEW W, IsFiniteSet(W), NEW F, F \subseteq SUBSET W, F # {}
  PROVE  \E U \in F : \A V \in F : V \subseteq U => V = U
<1>1. F \subseteq FiniteSubsetsOf(W)
  BY FS_FiniteSubsetsOfFinite
<1>2. \E U \in F : \A V \in F : ~(<<V, U>> \in StrictSubsetOrdering(W))
  BY <1>1, FS_StrictSubsetOrderingWellFounded, WFMin
<1>. QED
  BY <1>2 DEF StrictSubsetOrdering

-----------------------------------------------------------------------------
(* What is kept of a sequence.                                             *)
LEMMA KeepFacts ==
  ASSUME NEW X, NEW s \in Seq(X), NEW set
  PROVE  Keep(s, set) \in Seq(X) /\ ToSet(Keep(s, set)) = ToSet(s) \cap set
<1> DEFINE Step(g, i) == IF i = 0 THEN <<>>
                         ELSE IF s[i] \in set THEN Append(g[i - 1], s[i]) ELSE g[i - 1]
           Is(k, g) == g = [i \in 0..k |-> Step(g, i)]
           n == Len(s)
<1>1. n \in Nat /\ DOMAIN s = 1..n /\ \A i \in 1..n : s[i] \in X
  BY LenProperties, ElementOfSeq
<1>2. \A k \in 0..n : \E g : Is(k, g)
  <2> DEFINE Bad == {k \in 0..n : ~ \E g : Is(k, g)}
  <2>1. SUFFICES ASSUME Bad # {} PROVE FALSE
    OBVIOUS
  <2>2. PICK k \in Bad : \A j \in Bad : k <= j
    <3>1. Bad \subseteq Nat
      BY <1>1
    <3>. QED
      BY <2>1, <3>1, LeastNumber
  <2>3. k # 0
    <3>1. Is(0, [i \in 0..0 |-> <<>>])
      OBVIOUS
    <3>. QED
      BY <3>1
  <2>4. k - 1 \in 0..n /\ k - 1 \notin Bad
    <3>1. k \in 0..n
      BY <2>2
    <3>2. k - 1 \in 0..n /\ ~(k <= k - 1)
      BY <1>1, <2>3, <3>1
    <3> HIDE DEF Bad
    <3>. QED
      BY <2>2, <3>2
  <2>5. PICK g : Is(k - 1, g)
    BY <2>4
  <2> DEFINE h == [i \in 0..k |-> IF i = k THEN Step(g, k) ELSE g[i]]
  <2>6. Is(k, h)
    <3>1. ASSUME NEW i \in 0..k PROVE h[i] = Step(h, i)
      <4>1. CASE i = k
        <5>1. k - 1 \in 0..k /\ k - 1 # k
          BY <1>1, <2>3
        <5>2. h[k - 1] = g[k - 1]
          BY <5>1
        <5>. QED
          BY <4>1, <5>2, <2>3
      <4>2. CASE i # k
        <5>1. i \in 0..(k - 1) /\ (i # 0 => i - 1 \in 0..k /\ i - 1 # k)
          BY <1>1, <4>2
        <5>2. g[i] = Step(g, i)
          BY <2>5, <5>1
        <5>. QED
          BY <4>2, <5>1, <5>2
      <4>. QED
        BY <4>1, <4>2
    <3>. QED
      BY <3>1
  <2>. QED
    BY <2>6
<1>3. PICK kept : Is(n, kept) /\ Keep(s, set) = kept[n]
  <2> DEFINE f == CHOOSE g : Is(n, g)
  <2>1. Is(n, f)
    <3>1. n \in 0..n
      BY <1>1
    <3>2. \E g : Is(n, g)
      BY <1>2, <3>1
    <3> HIDE DEF Is
    <3>. QED
      BY <3>2
  <2>2. Keep(s, set) = f[n]
    BY DEF Keep
  <2>. QED
    BY <2>1, <2>2
<1>4. \A i \in 0..n : kept[i] = Step(kept, i)
  BY <1>3
<1> DEFINE Good(i) == kept[i] \in Seq(X) /\ ToSet(kept[i]) = {s[j] : j \in 1..i} \cap set
<1> HIDE DEF Step, Is
<1>5. \A i \in 0..n : Good(i)
  <2> DEFINE Bad == {i \in 0..n : ~Good(i)}
  <2>1. SUFFICES ASSUME Bad # {} PROVE FALSE
    OBVIOUS
  <2>2. PICK i \in Bad : \A j \in Bad : i <= j
    <3>1. Bad \subseteq Nat
      BY <1>1
    <3> HIDE DEF Bad
    <3>. QED
      BY <2>1, <3>1, LeastNumber
  <2>3. CASE i = 0
    <3>1. kept[0] = <<>>
      BY <1>1, <1>4, <2>3 DEF Step
    <3>2. ToSet(<<>>) = {} /\ <<>> \in Seq(X) /\ 1..0 = {}
      BY DEF ToSet
    <3>. QED
      BY <2>2, <2>3, <3>1, <3>2
  <2>4. CASE i # 0
    <3>0. i \in 0..n
      BY <2>2
    <3>1. i - 1 \in 0..n /\ i - 1 \notin Bad /\ i \in 1..n /\ 1..i = (1..(i - 1)) \cup {i}
      <4>1. i - 1 \in 0..n /\ i \in 1..n /\ ~(i <= i - 1) /\ 1..i = (1..(i - 1)) \cup {i}
        BY <1>1, <2>4, <3>0
      <4> HIDE DEF Bad
      <4>. QED
        BY <2>2, <4>1
    <3>2. Good(i - 1)
      BY <3>1
    <3>3. s[i] \in X
      BY <1>1, <3>1
    <3>4. kept[i] = IF s[i] \in set THEN Append(kept[i - 1], s[i]) ELSE kept[i - 1]
      BY <1>4, <2>2, <2>4 DEF Step
    <3>5. {s[j] : j \in 1..i} = {s[j] : j \in 1..(i - 1)} \cup {s[i]}
      BY <3>1
    <3>6. CASE s[i] \in set
      <4>1. ToSet(Append(kept[i - 1], s[i])) = ToSet(kept[i - 1]) \cup {s[i]}
        <5>1. /\ Len(Append(kept[i - 1], s[i])) = Len(kept[i - 1]) + 1
              /\ \A j \in 1..Len(kept[i - 1]) : Append(kept[i - 1], s[i])[j] = kept[i - 1][j]
              /\ Append(kept[i - 1], s[i])[Len(kept[i - 1]) + 1] = s[i]
              /\ Append(kept[i - 1], s[i]) \in Seq(X) /\ Len(kept[i - 1]) \in Nat
          BY <3>2, <3>3, AppendProperties, LenProperties
        <5>2. /\ DOMAIN Append(kept[i - 1], s[i]) = (1..Len(kept[i - 1])) \cup {Len(kept[i - 1]) + 1}
              /\ DOMAIN kept[i - 1] = 1..Len(kept[i - 1])
          BY <3>2, <5>1, LenProperties
        <5>. QED
          BY <5>1, <5>2 DEF ToSet
      <4>2. Append(kept[i - 1], s[i]) \in Seq(X)
        BY <3>2, <3>3, AppendProperties
      <4>3. Good(i)
        BY <3>2, <3>4, <3>5, <3>6, <4>1, <4>2
      <4>. QED
        BY <2>2, <4>3
    <3>7. CASE s[i] \notin set
      <4>1. Good(i)
        BY <3>2, <3>4, <3>5, <3>7
      <4>. QED
        BY <2>2, <4>1
    <3>. QED
      BY <3>6, <3>7
  <2>. QED
    BY <2>3, <2>4
<1>. QED
  <2>1. Good(n)
    <3>1. n \in 0..n
      BY <1>1
    <3> HIDE DEF Good
    <3>. QED
      BY <1>5, <3>1
  <2>2. ToSet(s) = {s[j] : j \in 1..n}
    BY <1>1 DEF ToSet
  <2>. QED
    BY <1>3, <2>1, <2>2

LEMMA UpTo ==
  ASSUME NEW n \in Nat
  PROVE  IsFiniteSet(1..n) /\ Cardinality(1..n) = n
<1>1. IsFiniteSet(1..n) /\ Cardinality(1..n) = IF 1 > n THEN 0 ELSE n - 1 + 1
  BY FS_Interval
<1>. QED
  BY <1>1

(* The merge sort puts every line in a place of its own, none before one   *)
(* that precedes it.                                                       *)
LEMMA SortedFacts ==
  ASSUME NEW lines \in Seq(Recs), NEW sort \in [o: Sorts, rev: BOOLEAN]
  PROVE  /\ Sorted(lines, sort) \in Seq(Recs) /\ Len(Sorted(lines, sort)) = Len(lines)
         /\ ToSet(Sorted(lines, sort)) = ToSet(lines)
         /\ \A i, j \in DOMAIN Sorted(lines, sort) :
              i < j => ~Before(sort, Sorted(lines, sort)[j], Sorted(lines, sort)[i])
<1> DEFINE n == Len(lines)
           D == DOMAIN lines
           R(i) == Rank[sort.o][lines[i][2]]
           Prec(j, i) == \/ Before(sort, lines[j], lines[i])
                         \/ ~Before(sort, lines[i], lines[j]) /\ j < i
           Below(i) == {j \in D \ {i} : Prec(j, i)}
           Place(i) == 1 + Cardinality(Below(i))
           place == [i \in D |-> Place(i)]
<1>1. n \in Nat /\ D = 1..n /\ \A i \in D : lines[i] \in Recs
  BY LenProperties, ElementOfSeq
<1>2. IsFiniteSet(D) /\ Cardinality(D) = n
  BY <1>1, UpTo
<1>3. \A i \in D : R(i) \in Int
  BY <1>1, ListsAssumption DEF Recs
<1>4. \A i, j \in D : Before(sort, lines[j], lines[i]) <=> IF sort.rev THEN R(j) > R(i) ELSE R(j) < R(i)
  BY DEF Before
<1>5. \A i, j \in D : i # j => Prec(i, j) \/ Prec(j, i)
  BY <1>1, <1>3, <1>4
<1>6. \A i, j \in D : Prec(j, i) => ~Prec(i, j)
  BY <1>1, <1>3, <1>4
<1>7. \A i, j, k \in D : Prec(k, j) /\ Prec(j, i) => Prec(k, i)
  <2> SUFFICES ASSUME NEW i \in D, NEW j \in D, NEW k \in D, Prec(k, j), Prec(j, i)
               PROVE  Prec(k, i)
    OBVIOUS
  <2>1. R(i) \in Int /\ R(j) \in Int /\ R(k) \in Int /\ i \in Nat /\ j \in Nat /\ k \in Nat
    BY <1>1, <1>3
  <2> HIDE DEF R
  <2>. QED
    BY <1>4, <2>1
<1> HIDE DEF Prec, R
<1>8. \A i \in D : IsFiniteSet(Below(i)) /\ Cardinality(Below(i)) \in 0..(n - 1)
  <2> SUFFICES ASSUME NEW i \in D PROVE IsFiniteSet(Below(i)) /\ Cardinality(Below(i)) \in 0..(n - 1)
    OBVIOUS
  <2>1. IsFiniteSet(D \ {i}) /\ Cardinality(D \ {i}) = n - 1
    BY <1>2, FS_RemoveElement
  <2>2. Below(i) \in SUBSET (D \ {i})
    OBVIOUS
  <2>3. IsFiniteSet(Below(i)) /\ Cardinality(Below(i)) <= n - 1
    BY <2>1, <2>2, FS_Subset
  <2>. QED
    BY <1>1, <2>3, FS_CardinalityType
<1>9. \A i, j \in D : Prec(j, i) => Cardinality(Below(j)) < Cardinality(Below(i))
  <2> SUFFICES ASSUME NEW i \in D, NEW j \in D, Prec(j, i)
               PROVE  Cardinality(Below(j)) < Cardinality(Below(i))
    OBVIOUS
  <2>1. i # j
    BY <1>6
  <2>2. Below(j) \in SUBSET Below(i)
    BY <1>6, <1>7
  <2>3. j \in Below(i) /\ j \notin Below(j)
    BY <2>1
  <2> HIDE DEF Below
  <2>4. IsFiniteSet(Below(i)) /\ Cardinality(Below(i)) \in Nat /\ Cardinality(Below(j)) \in Nat
    BY <1>1, <1>8
  <2>5. Cardinality(Below(j)) <= Cardinality(Below(i)) /\ Cardinality(Below(j)) # Cardinality(Below(i))
    BY <2>2, <2>3, <2>4, FS_Subset
  <2>. QED
    BY <2>4, <2>5
<1> HIDE DEF Below
<1>10. place \in Injection(D, 1..n)
  <2>1. place \in [D -> 1..n]
    BY <1>1, <1>8
  <2>2. ASSUME NEW i \in D, NEW j \in D, place[i] = place[j] PROVE i = j
    BY <1>5, <1>8, <1>9, <2>2
  <2>. QED
    BY <2>1, <2>2 DEF Injection, IsInjective
<1>11. place \in Surjection(D, 1..n)
  <2>1. IsFiniteSet(1..n) /\ Cardinality(1..n) = n
    BY <1>1, UpTo
  <2> HIDE DEF place
  <2>. QED
    BY <1>2, <1>10, <2>1, FS_Injection
<1> DEFINE at(k) == CHOOSE i \in D : Place(i) = k
<1>12. \A k \in 1..n : at(k) \in D /\ place[at(k)] = k
  <2> SUFFICES ASSUME NEW k \in 1..n PROVE at(k) \in D /\ place[at(k)] = k
    OBVIOUS
  <2>1. \E i \in D : Place(i) = k
    BY <1>11 DEF Surjection
  <2> HIDE DEF Place
  <2>. QED
    BY <2>1
<1>13. \A i \in D : place[i] \in 1..n /\ at(place[i]) = i
  <2> HIDE DEF place
  <2>1. \A i, j \in D : place[i] = place[j] => i = j
    BY <1>10 DEF Injection, IsInjective
  <2>. QED
    BY <1>10, <2>1, <1>12 DEF Injection
<1>14. Sorted(lines, sort) = [k \in D |-> lines[at(k)]]
  <2>1. \A k \in D : at(k) = CHOOSE i \in D : Place(i) = k
    BY Zenon
  <2>2. Sorted(lines, sort) = [k \in D |-> lines[CHOOSE i \in D : Place(i) = k]]
    BY DEF Sorted, Below, Prec
  <2>. QED
    BY <2>1, <2>2
<1> DEFINE out == [k \in D |-> lines[at(k)]]
<1> HIDE DEF at, place
<1>15. out \in Seq(Recs) /\ Len(out) = n /\ DOMAIN out = 1..n
  <2>1. out \in [1..n -> Recs]
    BY <1>1, <1>12
  <2>. QED
    BY <1>1, <2>1, IsASeq, LenProperties
<1>16. ToSet(out) = ToSet(lines)
  <2>1. \A k \in 1..n : out[k] = lines[at(k)] /\ at(k) \in D
    BY <1>1, <1>12
  <2>2. \A i \in D : lines[i] = out[place[i]] /\ place[i] \in 1..n
    BY <1>1, <1>13
  <2> HIDE DEF out
  <2>3. ToSet(out) = {out[k] : k \in 1..n}
    BY <1>15 DEF ToSet
  <2>4. ToSet(lines) = {lines[i] : i \in D}
    BY DEF ToSet
  <2>. QED
    BY <2>1, <2>2, <2>3, <2>4
<1>17. ASSUME NEW i \in 1..n, NEW j \in 1..n, i < j PROVE ~Before(sort, out[j], out[i])
  <2>1. at(i) \in D /\ at(j) \in D /\ place[at(i)] < place[at(j)]
    BY <1>12, <1>17
  <2>2. ~Prec(at(j), at(i))
    <3>1. Cardinality(Below(at(i))) < Cardinality(Below(at(j)))
      BY <1>8, <2>1 DEF place
    <3>. QED
      BY <1>8, <1>9, <2>1, <3>1
  <2>3. ~Before(sort, lines[at(j)], lines[at(i)])
    BY <2>2 DEF Prec
  <2>. QED
    BY <1>1, <2>3
<1>. QED
  BY <1>14, <1>15, <1>16, <1>17

LEMMA SortedSingle ==
  ASSUME NEW X, NEW lines \in Seq(X), Len(lines) <= 1, NEW sort
  PROVE  Sorted(lines, sort) = lines
<1>1. DOMAIN lines \subseteq {1} /\ lines = [i \in DOMAIN lines |-> lines[i]]
  <2>1. Len(lines) \in Nat /\ DOMAIN lines = 1..Len(lines) /\ lines \in [1..Len(lines) -> X]
    BY LenProperties
  <2>. QED
    BY <2>1
<1>2. \A i \in DOMAIN lines : DOMAIN lines \ {i} = {}
  BY <1>1
<1>3. \A i \in DOMAIN lines : {j \in DOMAIN lines \ {i} :
                        \/ Before(sort, lines[j], lines[i])
                        \/ ~Before(sort, lines[i], lines[j]) /\ j < i} = {}
  BY <1>2
<1>4. \A k \in DOMAIN lines : (CHOOSE i \in DOMAIN lines : 1 + Cardinality({j \in DOMAIN lines \ {i} :
                        \/ Before(sort, lines[j], lines[i])
                        \/ ~Before(sort, lines[i], lines[j]) /\ j < i}) = k) = k
  BY <1>1, <1>3, FS_EmptySet
<1>. QED
  BY <1>1, <1>4 DEF Sorted

-----------------------------------------------------------------------------
(* States as records.                                                      *)
Apart(t, s, w) ==
  /\ t \in StateType /\ t.lis = s.lis
  /\ \A v \in Windows \ {w} : t.m[v] = s.m[v]

LEMMA StateFacts ==
  ASSUME NEW s \in StateType
  PROVE  /\ s.m \in [Windows -> ModelType] /\ s.lis \in [Keys -> LisType \cup {NULL}]
         /\ s.sel \in SelectionType /\ s.fault[1] \in Faults /\ s.fault[2] \in Windows \cup {NULL}
         /\ s = [m |-> s.m, lis |-> s.lis, sel |-> s.sel, fault |-> s.fault]
BY DEF StateType

Put(s, w, mw) == [s EXCEPT !.m = [s.m EXCEPT ![w] = mw]]

LEMMA PutFacts ==
  ASSUME NEW s \in StateType, NEW w \in Windows, NEW mw \in ModelType
  PROVE  /\ Put(s, w, mw) \in StateType /\ Apart(Put(s, w, mw), s, w)
         /\ Put(s, w, mw).m[w] = mw /\ Put(s, w, mw).lis = s.lis
         /\ Put(s, w, mw).sel = s.sel /\ Put(s, w, mw).fault = s.fault
BY DEF Put, StateType, Apart

LEMMA FaultFacts ==
  ASSUME NEW s \in StateType, NEW what \in Faults, NEW w \in Windows
  PROVE  /\ Fault(s, what, w) \in StateType
         /\ Fault(s, what, w).m = s.m /\ Fault(s, what, w).lis = s.lis
         /\ Fault(s, what, w).sel = s.sel
         /\ Fault(s, what, w).fault = IF s.fault[1] = "none" THEN <<what, w>> ELSE s.fault
BY DEF Fault, StateType, Faults

LEMMA DerefFacts ==
  ASSUME NEW s \in StateType, NEW recs, NEW w \in Windows
  PROVE  /\ Deref(s, recs, w) \in StateType
         /\ Deref(s, recs, w).m = s.m /\ Deref(s, recs, w).lis = s.lis
         /\ Deref(s, recs, w).sel = s.sel
         /\ Deref(s, recs, w).fault = IF Freed \in recs /\ s.fault[1] = "none"
                                      THEN <<"freed", w>> ELSE s.fault
         /\ Freed \notin recs => Deref(s, recs, w) = s
BY FaultFacts DEF Deref, Faults

LEMMA LineFacts ==
  ASSUME NEW s \in StateType, NEW w \in Windows, NEW i \in Int
  PROVE  /\ Count(s, w) \in Nat /\ Count(s, w) = Len(s.m[w].lines) /\ Index(s, w) \in Int
         /\ Index(s, w) = s.m[w].top + s.m[w].lnum
         /\ Line(s, w, i) \in Recs \cup {NULL, Freed}
         /\ Line(s, w, i) # NULL <=> i >= 0 /\ i < Count(s, w)
         /\ Line(s, w, i) # NULL => /\ Line(s, w, i) = s.m[w].lines[i + 1]
                                    /\ Line(s, w, i) \in ToSet(s.m[w].lines)
<1>1. s.m[w] \in ModelType
  BY DEF StateType
<1>2. /\ s.m[w].top \in Int /\ s.m[w].lnum \in Int /\ s.m[w].lines \in Seq(Recs \cup {Freed})
  BY <1>1 DEF ModelType
<1>3. /\ Len(s.m[w].lines) \in Nat /\ DOMAIN s.m[w].lines = 1..Len(s.m[w].lines)
      /\ \A j \in 1..Len(s.m[w].lines) : s.m[w].lines[j] \in Recs \cup {Freed}
  BY <1>2, LenProperties, ElementOfSeq
<1>4. NULL \notin Recs \cup {Freed}
  BY ListsAssumption
<1>5. CASE i \in 0..(Count(s, w) - 1)
  <2>1. i + 1 \in 1..Len(s.m[w].lines) /\ Line(s, w, i) = s.m[w].lines[i + 1]
    BY <1>3, <1>5 DEF Count, Line
  <2>. QED
    BY <1>2, <1>3, <1>4, <1>5, <2>1 DEF Count, Index, ToSet
<1>6. CASE i \notin 0..(Count(s, w) - 1)
  BY <1>2, <1>3, <1>6 DEF Count, Index, Line
<1>. QED
  BY <1>5, <1>6

-----------------------------------------------------------------------------
(* The selection.                                                          *)
Extends(s, w) == s.sel.enabled /\ s.sel.active /\ s.sel.owner = w

LEMMA ClearFacts ==
  ASSUME NEW s \in StateType, NEW w
  PROVE  /\ SelectClear(s, w) \in StateType /\ SelectClear(s, w).m = s.m
         /\ SelectClear(s, w).lis = s.lis /\ SelectClear(s, w).fault = s.fault
         /\ s.sel.owner # w => SelectClear(s, w) = s
         /\ s.sel.owner = w => ~SelectClear(s, w).sel.enabled /\ ~SelectClear(s, w).sel.active
         /\ SelectClear(s, w).sel.owner = s.sel.owner
         /\ ~Extends(SelectClear(s, w), w)
<1>1. <<>> \in Seq(BOOLEAN)
  OBVIOUS
<1>. QED
  BY <1>1 DEF SelectClear, StateType, SelectionType, Extends

LEMMA EnterFacts ==
  ASSUME NEW s \in StateType, NEW w \in Windows, NEW idx \in Int
  PROVE  LET t == SelectEnter(s, w, idx) n == Len(s.sel.lines) IN
         /\ t \in StateType /\ t.m = s.m /\ t.lis = s.lis
         /\ ~Extends(s, w) => t = s
         /\ t.sel.owner = s.sel.owner /\ t.sel.enabled = s.sel.enabled /\ t.sel.active = s.sel.active
         /\ t.fault = s.fault \/ (s.fault[1] = "none" /\ t.fault = <<"bounds", w>> /\ t.sel = s.sel)
         /\ Extends(s, w) /\ idx \in 0..(n - 1) /\ s.sel.head \in 0..(n - 1) /\ Origin(s) \in 0..(n - 1)
            => /\ t.fault = s.fault
               /\ t.sel.owner = w /\ t.sel.enabled /\ t.sel.active
               /\ t.sel.top = s.sel.top /\ t.sel.lnum = s.sel.lnum
               /\ t.sel.head = idx /\ Len(t.sel.lines) = n
<1> DEFINE n == Len(s.sel.lines)
           was == Range0(s.sel.head, Origin(s))
           now == Range0(idx, Origin(s))
           set == [i \in DOMAIN s.sel.lines |->
                     IF i - 1 \in now THEN s.sel.aditv
                     ELSE IF i - 1 \in was THEN ~s.sel.aditv ELSE s.sel.lines[i]]
           t == SelectEnter(s, w, idx)
<1>1. s.sel \in SelectionType
  BY DEF StateType
<1>2. /\ s.sel.lines \in Seq(BOOLEAN) /\ s.sel.aditv \in BOOLEAN /\ s.sel.head \in Int
      /\ s.sel.top \in Int /\ s.sel.lnum \in Int /\ Origin(s) \in Int
  BY <1>1 DEF SelectionType, Origin
<1>3. n \in Nat /\ DOMAIN s.sel.lines = 1..n /\ \A i \in 1..n : s.sel.lines[i] \in BOOLEAN
  BY <1>2, LenProperties, ElementOfSeq
<1>4. set \in Seq(BOOLEAN) /\ Len(set) = n
  <2>1. set \in [1..n -> BOOLEAN]
    BY <1>2, <1>3
  <2> HIDE DEF set
  <2>. QED
    BY <1>3, <2>1, IsASeq, LenProperties
<1>5. t = IF ~Extends(s, w) THEN s
          ELSE IF \E i \in now \cup was : i + 1 \notin DOMAIN s.sel.lines THEN Fault(s, "bounds", w)
          ELSE [s EXCEPT !.sel.lines = set, !.sel.head = idx]
  BY DEF SelectEnter, Extends
<1> HIDE DEF set, t
<1>6. CASE ~Extends(s, w)
  BY <1>5, <1>6 DEF t
<1>7. CASE Extends(s, w) /\ \E i \in now \cup was : i + 1 \notin DOMAIN s.sel.lines
  <2>1. t = Fault(s, "bounds", w)
    BY <1>5, <1>7
  <2>2. ~(idx \in 0..(n - 1) /\ s.sel.head \in 0..(n - 1) /\ Origin(s) \in 0..(n - 1))
    BY <1>2, <1>3, <1>7 DEF Range0, Minimum, Maximum
  <2>3. /\ t \in StateType /\ t.m = s.m /\ t.lis = s.lis /\ t.sel = s.sel
        /\ t.fault = IF s.fault[1] = "none" THEN <<"bounds", w>> ELSE s.fault
    BY <2>1, FaultFacts DEF Faults
  <2>. QED
    BY <1>7, <2>2, <2>3 DEF t
<1>8. CASE Extends(s, w) /\ ~ \E i \in now \cup was : i + 1 \notin DOMAIN s.sel.lines
  <2>1. t = [s EXCEPT !.sel = [s.sel EXCEPT !.lines = set, !.head = idx]]
    BY <1>5, <1>8 DEF StateType, SelectionType
  <2>2. [s.sel EXCEPT !.lines = set, !.head = idx] \in SelectionType
    BY <1>1, <1>4 DEF SelectionType
  <2>3. t \in StateType /\ t.m = s.m /\ t.lis = s.lis /\ t.fault = s.fault
        /\ t.sel = [s.sel EXCEPT !.lines = set, !.head = idx]
    BY <2>1, <2>2 DEF StateType
  <2>4. /\ t.sel.owner = s.sel.owner /\ t.sel.enabled = s.sel.enabled /\ t.sel.active = s.sel.active
        /\ t.sel.top = s.sel.top /\ t.sel.lnum = s.sel.lnum
        /\ t.sel.head = idx /\ t.sel.lines = set
    BY <1>1, <2>3 DEF SelectionType
  <2>. QED
    BY <1>4, <1>8, <2>3, <2>4 DEF Extends, t
<1>. QED
  BY <1>6, <1>7, <1>8 DEF t

-----------------------------------------------------------------------------
(* The cursor.                                                             *)
At(mw) == IF OnLine(mw) \/ (mw.top + mw.lnum) \in 0..(Len(mw.lines) - 1)
          THEN mw.lines[mw.top + mw.lnum + 1] ELSE NULL
ReadAt(mw) == [mw EXCEPT !.cur = IF At(mw) = NULL THEN @ ELSE At(mw)]

LEMMA ModelFacts ==
  ASSUME NEW mw \in ModelType
  PROVE  /\ mw.top \in Int /\ mw.lnum \in Int /\ mw.ptop \in Int /\ mw.plnum \in Int
         /\ mw.lines \in Seq(Recs \cup {Freed}) /\ Len(mw.lines) \in Nat
         /\ DOMAIN mw.lines = 1..Len(mw.lines)
         /\ \A j \in 1..Len(mw.lines) : /\ mw.lines[j] \in Recs \cup {Freed}
                                        /\ mw.lines[j] \in ToSet(mw.lines)
                                        /\ mw.lines[j] # NULL
         /\ mw.blocking \in BOOLEAN /\ mw.size \in Nat \ {0}
         /\ mw.sort \in [o: Sorts, rev: BOOLEAN] /\ mw.filter \in SUBSET Names
         /\ mw.lines = <<>> <=> Len(mw.lines) = 0
         /\ ToSet(mw.lines) \subseteq Recs \cup {Freed}
<1>1. /\ mw.top \in Int /\ mw.lnum \in Int /\ mw.ptop \in Int /\ mw.plnum \in Int
      /\ mw.lines \in Seq(Recs \cup {Freed}) /\ mw.size \in Nat \ {0}
      /\ mw.blocking \in BOOLEAN /\ mw.sort \in [o: Sorts, rev: BOOLEAN] /\ mw.filter \in SUBSET Names
  BY ListsAssumption DEF ModelType
<1>2. /\ Len(mw.lines) \in Nat /\ DOMAIN mw.lines = 1..Len(mw.lines)
      /\ \A j \in 1..Len(mw.lines) : mw.lines[j] \in Recs \cup {Freed}
  BY <1>1, LenProperties, ElementOfSeq
<1>3. NULL \notin Recs \cup {Freed}
  BY ListsAssumption
<1>4. mw.lines = <<>> <=> Len(mw.lines) = 0
  BY <1>1, EmptySeq
<1>. QED
  BY <1>1, <1>2, <1>3, <1>4 DEF ToSet

LEMMA AtFacts ==
  ASSUME NEW mw \in ModelType
  PROVE  /\ At(mw) \in Recs \cup {NULL, Freed}
         /\ At(mw) # NULL => At(mw) \in ToSet(mw.lines) /\ mw.lines # <<>>
         /\ OnLine(mw) => At(mw) = mw.lines[mw.top + mw.lnum + 1] /\ At(mw) # NULL
         /\ ReadAt(mw) \in ModelType
         /\ ReadAt(mw).cur = IF At(mw) = NULL THEN mw.cur ELSE At(mw)
         /\ ReadAt(mw) = [mw EXCEPT !.cur = ReadAt(mw).cur]
<1>1. OnLine(mw) => (mw.top + mw.lnum) \in 0..(Len(mw.lines) - 1)
  BY ModelFacts DEF OnLine
<1>2. (mw.top + mw.lnum) \in 0..(Len(mw.lines) - 1) => (mw.top + mw.lnum + 1) \in 1..Len(mw.lines)
  BY ModelFacts
<1>3. At(mw) \in Recs \cup {NULL, Freed} /\ (At(mw) # NULL => At(mw) \in ToSet(mw.lines) /\ mw.lines # <<>>)
  BY <1>1, <1>2, ModelFacts DEF At
<1>4. OnLine(mw) => At(mw) = mw.lines[mw.top + mw.lnum + 1] /\ At(mw) # NULL
  BY <1>1, <1>2, ModelFacts DEF At
<1>. QED
  BY <1>3, <1>4 DEF ReadAt, ModelType

LEMMA MoveFacts ==
  ASSUME NEW s \in StateType, NEW w \in Windows, NEW mw \in ModelType
  PROVE  LET t == BufCursMove(Put(s, w, mw), w) n == Len(s.sel.lines) idx == mw.top + mw.lnum IN
         /\ Apart(t, s, w) /\ t.m[w] = ReadAt(mw)
         /\ ~Extends(s, w) => t.sel = s.sel
         /\ t.sel.owner = s.sel.owner /\ t.sel.enabled = s.sel.enabled /\ t.sel.active = s.sel.active
         /\ \/ t.fault = s.fault
            \/ s.fault[1] = "none" /\ t.fault = <<"freed", w>> /\ At(mw) = Freed
            \/ s.fault[1] = "none" /\ t.fault = <<"bounds", w>> /\ Extends(s, w) /\ t.sel = s.sel
         /\ Extends(s, w) /\ idx \in 0..(n - 1) /\ s.sel.head \in 0..(n - 1) /\ Origin(s) \in 0..(n - 1)
            => /\ t.fault = s.fault \/ (t.fault = <<"freed", w>> /\ At(mw) = Freed)
               /\ t.sel.owner = w /\ t.sel.enabled /\ t.sel.active
               /\ t.sel.top = s.sel.top /\ t.sel.lnum = s.sel.lnum
               /\ t.sel.head = idx /\ Len(t.sel.lines) = n
<1> DEFINE s1 == Put(s, w, mw)
           idx == Index(s1, w)
           s2 == Deref(s1, {Line(s1, w, idx)}, w)
           s3 == ModelSetCurs(s2, w, idx)
           t == SelectEnter(s3, w, idx)
<1>1. Apart(s1, s, w) /\ s1.m[w] = mw /\ s1.sel = s.sel /\ s1.fault = s.fault
  BY PutFacts
<1>2. s1 \in StateType
  BY <1>1 DEF Apart
<1>3. idx = mw.top + mw.lnum /\ idx \in Int /\ Line(s1, w, idx) = At(mw)
  <2>1. idx = mw.top + mw.lnum /\ idx \in Int
    BY <1>1, ModelFacts DEF Index
  <2>2. OnLine(mw) => idx \in 0..(Len(mw.lines) - 1)
    BY <2>1, ModelFacts DEF OnLine
  <2> HIDE DEF idx
  <2>. QED
    BY <1>1, <2>1, <2>2 DEF Line, Count, At
<1>4. /\ s2 \in StateType /\ s2.m = s1.m /\ s2.lis = s1.lis /\ s2.sel = s1.sel
      /\ s2.fault = IF At(mw) = Freed /\ s1.fault[1] = "none" THEN <<"freed", w>> ELSE s1.fault
  BY <1>2, <1>3, DerefFacts
<1>5. Line(s2, w, idx) = At(mw)
  BY <1>3, <1>4 DEF Line, Count
<1> HIDE DEF s1, idx, s2
<1>6. s3 = Put(s2, w, ReadAt(mw))
  <2>1. CASE At(mw) = NULL
    <3>1. s3 = s2
      BY <1>5, <2>1 DEF ModelSetCurs
    <3>2. ReadAt(mw) = mw
      BY <2>1 DEF ReadAt, ModelType
    <3>3. s2.m[w] = mw /\ s2.m \in [Windows -> ModelType]
      BY <1>1, <1>4, StateFacts
    <3>. QED
      BY <1>4, <3>1, <3>2, <3>3 DEF Put, StateType
  <2>2. CASE At(mw) # NULL
    <3>1. s3 = [s2 EXCEPT !.m[w].cur = At(mw)]
      BY <1>5, <2>2 DEF ModelSetCurs
    <3>2. s2.m[w] = mw
      BY <1>1, <1>4
    <3>3. ReadAt(mw) = [s2.m[w] EXCEPT !.cur = At(mw)]
      BY <2>2, <3>2 DEF ReadAt
    <3>. QED
      BY <1>4, <3>1, <3>3 DEF Put, StateType
  <2>. QED
    BY <2>1, <2>2
<1>7. Apart(s3, s2, w) /\ s3.m[w] = ReadAt(mw) /\ s3.sel = s2.sel /\ s3.fault = s2.fault
  <2>1. ReadAt(mw) \in ModelType
    BY AtFacts
  <2>. QED
    BY <1>4, <1>6, <2>1, PutFacts
<1>8. s3 \in StateType /\ Apart(s3, s, w) /\ s3.sel = s.sel
  BY <1>1, <1>4, <1>7 DEF Apart
<1> HIDE DEF s3
<1>9. Extends(s3, w) = Extends(s, w) /\ Origin(s3) = Origin(s)
  BY <1>8 DEF Extends, Origin
<1>10. BufCursMove(Put(s, w, mw), w) = t
  BY DEF BufCursMove, s1, s2, s3, idx
<1>11. t \in StateType /\ t.m = s3.m /\ t.lis = s3.lis
       /\ (~Extends(s, w) => t = s3)
       /\ t.sel.owner = s3.sel.owner /\ t.sel.enabled = s3.sel.enabled /\ t.sel.active = s3.sel.active
       /\ (t.fault = s3.fault \/ (s3.fault[1] = "none" /\ t.fault = <<"bounds", w>> /\ t.sel = s3.sel))
  BY <1>3, <1>8, <1>9, EnterFacts
<1>12. ASSUME Extends(s, w), idx \in 0..(Len(s.sel.lines) - 1),
              s.sel.head \in 0..(Len(s.sel.lines) - 1), Origin(s) \in 0..(Len(s.sel.lines) - 1)
       PROVE  /\ t.fault = s3.fault
              /\ t.sel.owner = w /\ t.sel.enabled /\ t.sel.active
              /\ t.sel.top = s.sel.top /\ t.sel.lnum = s.sel.lnum
              /\ t.sel.head = idx /\ Len(t.sel.lines) = Len(s.sel.lines)
  <2> DEFINE n == Len(s3.sel.lines)
  <2>1. Extends(s3, w) /\ idx \in 0..(n - 1) /\ s3.sel.head \in 0..(n - 1) /\ Origin(s3) \in 0..(n - 1)
    BY <1>8, <1>9, <1>12
  <2>2. /\ t.fault = s3.fault
        /\ t.sel.owner = w /\ t.sel.enabled /\ t.sel.active
        /\ t.sel.top = s3.sel.top /\ t.sel.lnum = s3.sel.lnum
        /\ t.sel.head = idx /\ Len(t.sel.lines) = n
    BY <1>3, <1>8, <2>1, EnterFacts
  <2>. QED
    BY <1>8, <2>2
<1> HIDE DEF t
<1>13. Apart(t, s, w) /\ t.m[w] = ReadAt(mw)
  BY <1>7, <1>8, <1>11 DEF Apart
<1>14. s3.fault = IF At(mw) = Freed /\ s.fault[1] = "none" THEN <<"freed", w>> ELSE s.fault
  BY <1>1, <1>4, <1>7
<1>15. \/ t.fault = s.fault
       \/ s.fault[1] = "none" /\ t.fault = <<"freed", w>> /\ At(mw) = Freed
       \/ s.fault[1] = "none" /\ t.fault = <<"bounds", w>> /\ Extends(s, w) /\ t.sel = s.sel
  BY <1>8, <1>11, <1>14
<1>. QED
  BY <1>3, <1>8, <1>10, <1>11, <1>12, <1>13, <1>14, <1>15

-----------------------------------------------------------------------------
(* Tables, and what a filter leaves of one.                                *)
TblType(t) == DOMAIN t = Keys /\ \A k \in Keys : t[k] \in Seq({k} \X Names)

LEMMA SeqFacts ==
  ASSUME NEW X, NEW s \in Seq(X)
  PROVE  /\ Len(s) \in Nat /\ DOMAIN s = 1..Len(s) /\ ToSet(s) \subseteq X
         /\ s = <<>> <=> Len(s) = 0
         /\ s = <<>> <=> ToSet(s) = {}
         /\ s # <<>> => Head(s) \in ToSet(s) /\ Head(s) \in X
         /\ \A i \in 1..Len(s) : s[i] \in X /\ s[i] \in ToSet(s)
<1>1. Len(s) \in Nat /\ DOMAIN s = 1..Len(s) /\ \A i \in 1..Len(s) : s[i] \in X
  BY LenProperties, ElementOfSeq
<1>2. s = <<>> <=> Len(s) = 0
  BY EmptySeq
<1>3. s # <<>> => Head(s) = s[1] /\ 1 \in 1..Len(s)
  BY <1>1, <1>2
<1>4. \A i \in 1..Len(s) : s[i] \in X /\ s[i] \in ToSet(s)
  BY <1>1 DEF ToSet
<1>5. ToSet(s) \subseteq X
  BY <1>1 DEF ToSet
<1>6. s = <<>> <=> ToSet(s) = {}
  <2>1. Len(s) # 0 => 1 \in 1..Len(s)
    BY <1>1
  <2>2. Len(s) = 0 => ToSet(s) = {}
    BY <1>1 DEF ToSet
  <2>. QED
    BY <1>2, <1>4, <2>1, <2>2
<1>. QED
  BY <1>1, <1>2, <1>3, <1>4, <1>5, <1>6

LEMMA WiderSeq ==
  ASSUME NEW X, NEW Y, X \subseteq Y, NEW s \in Seq(X)
  PROVE  s \in Seq(Y)
BY SeqDef

LEMMA TableFacts ==
  ASSUME NEW t, TblType(t), NEW k \in Keys
  PROVE  /\ t[k] \in Seq({k} \X Names) /\ t[k] \in Seq(Recs \cup {Freed})
         /\ ToSet(t[k]) \subseteq {k} \X Names /\ ToSet(t[k]) \subseteq Recs
         /\ NULL \notin ToSet(t[k]) /\ Freed \notin ToSet(t[k])
         /\ t[k] # <<>> => Head(t[k]) \in ToSet(t[k]) /\ Head(t[k]) \in {k} \X Names
<1>1. t[k] \in Seq({k} \X Names)
  BY DEF TblType
<1>2. {k} \X Names \subseteq Recs
  BY DEF Recs
<1>3. {k} \X Names \subseteq Recs \cup {Freed}
  BY <1>2
<1>4. t[k] \in Seq(Recs \cup {Freed})
  BY <1>1, <1>3, WiderSeq
<1>5. ToSet(t[k]) \subseteq {k} \X Names /\ (t[k] # <<>> => Head(t[k]) \in ToSet(t[k]) /\ Head(t[k]) \in {k} \X Names)
  BY <1>1, SeqFacts
<1>6. NULL \notin Recs /\ Freed \notin Recs
  BY ListsAssumption
<1>. QED
  BY <1>1, <1>2, <1>4, <1>5, <1>6

LEMMA MatchFacts ==
  ASSUME NEW t, TblType(t), NEW k \in Keys, NEW pattern
  PROVE  /\ Matching(t[k], pattern) \in Seq(Recs)
         /\ Matching(t[k], pattern) \in Seq(Recs \cup {Freed})
         /\ ToSet(Matching(t[k], pattern)) = ToSet(t[k]) \cap (Keys \X pattern)
         /\ ToSet(Matching(t[k], pattern)) \subseteq ToSet(t[k])
         /\ pattern = NoFilter => ToSet(Matching(t[k], pattern)) = ToSet(t[k])
         /\ Freed \notin ToSet(Matching(t[k], pattern))
         /\ t[k] = <<>> => ToSet(Matching(t[k], pattern)) = {}
<1>1. t[k] \in Seq({k} \X Names) /\ ToSet(t[k]) \subseteq {k} \X Names /\ Freed \notin ToSet(t[k])
  BY TableFacts
<1>2. /\ Matching(t[k], pattern) \in Seq({k} \X Names)
      /\ ToSet(Matching(t[k], pattern)) = ToSet(t[k]) \cap (Keys \X pattern)
  BY <1>1, KeepFacts DEF Matching
<1>3. {k} \X Names \subseteq Recs /\ {k} \X Names \subseteq Recs \cup {Freed}
  BY DEF Recs
<1>4. Matching(t[k], pattern) \in Seq(Recs) /\ Matching(t[k], pattern) \in Seq(Recs \cup {Freed})
  BY <1>2, <1>3, WiderSeq
<1>5. {k} \X Names \subseteq Keys \X NoFilter
  BY DEF NoFilter
<1>6. t[k] = <<>> => ToSet(t[k]) = {}
  BY <1>1, SeqFacts
<1>. QED
  BY <1>1, <1>2, <1>4, <1>5, <1>6

-----------------------------------------------------------------------------
(* One window at a time.                                                   *)
Win(s, w, q, t) ==
  /\ Tied(s.m[w], s.lis) /\ (w # Dt => WindowOK(s.m[w], w \in q, t))
  /\ (w = Dt => s.m[w].key \in {Procs, NULL})

Rest(s, w, q, t) == \A v \in Windows \ {w} : Win(s, v, q, t)

LEMMA SafeFacts ==
  ASSUME NEW s, NEW q, NEW t
  PROVE  Safe(s, q, t) <=>
           Known(s, q) /\ (s.fault[1] = "none" => SelectionOK(s) /\ \A w \in Windows : Win(s, w, q, t))
BY DEF Safe, Win

LEMMA OneWindow ==
  ASSUME NEW s, NEW t, NEW w \in Windows, NEW q, NEW T, Apart(t, s, w), Rest(s, w, q, T),
         Known(t, q), t.fault[1] = "none" => Win(t, w, q, T) /\ SelectionOK(t)
  PROVE  Safe(t, q, T)
<1>1. \A v \in Windows \ {w} : Win(t, v, q, T)
  BY DEF Apart, Rest, Win
<1>. QED
  BY <1>1, SafeFacts

LEMMA ReadFacts ==
  ASSUME NEW mw \in ModelType, NEW l, NEW T, TblType(T), NEW unsaid \in BOOLEAN, Tied(mw, l)
  PROVE  /\ Tied(ReadAt(mw), l)
         /\ OnLine(ReadAt(mw)) <=> OnLine(mw)
         /\ Astray(ReadAt(mw)) <=> Astray(mw)
         /\ Steady(mw, unsaid, T) => WindowOK(ReadAt(mw), unsaid, T)
<1> DEFINE c == ReadAt(mw).cur
           r == ReadAt(mw)
<1>1. /\ r \in ModelType /\ r = [mw EXCEPT !.cur = c]
      /\ c = IF At(mw) = NULL THEN mw.cur ELSE At(mw)
      /\ At(mw) # NULL => At(mw) \in ToSet(mw.lines) /\ mw.lines # <<>>
      /\ OnLine(mw) => At(mw) = mw.lines[mw.top + mw.lnum + 1] /\ At(mw) # NULL
  BY AtFacts
<1> HIDE DEF c, r
<1>2. /\ r.key = mw.key /\ r.blocking = mw.blocking /\ r.head = mw.head /\ r.lis = mw.lis
      /\ r.ptop = mw.ptop /\ r.plnum = mw.plnum /\ r.lines = mw.lines /\ r.sort = mw.sort
      /\ r.filter = mw.filter /\ r.top = mw.top /\ r.lnum = mw.lnum /\ r.cur = c
  BY <1>1 DEF ModelType
<1>3. Tied(r, l)
  BY <1>1, <1>2 DEF Tied
<1>4. (OnLine(r) <=> OnLine(mw)) /\ (Astray(r) <=> Astray(mw)) /\ (InOrder(r) <=> InOrder(mw))
  BY <1>2 DEF OnLine, Astray, InOrder
<1>5. ASSUME Steady(mw, unsaid, T) PROVE WindowOK(r, unsaid, T)
  <2>1. ASSUME ~mw.blocking, ~unsaid PROVE InSync(r, T)
    <3>1. mw.key # NULL /\ mw.key \in Dirs \cup {NULL} /\ InSync(mw, T)
      BY <1>5, <2>1 DEF Steady
    <3>2. ToSet(mw.lines) \subseteq ToSet(T[mw.key])
      <4>1. mw.key \in Keys
        BY <3>1 DEF Keys
      <4>2. ToSet(Matching(T[mw.key], mw.filter)) \subseteq ToSet(T[mw.key])
        BY <4>1, MatchFacts
      <4>. QED
        BY <3>1, <4>2 DEF InSync
    <3>3. c \in ToSet(T[mw.key]) \cup {NULL}
      BY <1>1, <3>1, <3>2 DEF InSync
    <3>. QED
      BY <1>2, <1>4, <3>1, <3>3 DEF InSync
  <2>2. Steady(r, unsaid, T)
    BY <1>2, <1>4, <1>5, <2>1 DEF Steady
  <2>3. OnLine(r) => r.cur = r.lines[r.top + r.lnum + 1]
    BY <1>1, <1>2, <1>4
  <2>. QED
    BY <2>2, <2>3 DEF WindowOK
<1>. QED
  BY <1>3, <1>4, <1>5 DEF r

(* Places for every line, and the range among them.                        *)
Within(sl, mw) ==
  IF mw.blocking THEN mw.lines = <<>>
  ELSE /\ Len(sl.lines) = Len(mw.lines) /\ OnLine(mw)
       /\ sl.head \in 0..(Len(mw.lines) - 1)
       /\ sl.top >= 0 /\ sl.lnum >= 0 /\ sl.top + sl.lnum < Len(mw.lines)

LEMMA SelFacts ==
  ASSUME NEW s
  PROVE  SelectionOK(s) <=>
           /\ s.sel.enabled => s.sel.active
           /\ s.sel.active => s.sel.owner \in Windows
           /\ s.sel.active /\ s.sel.owner # Dt => Within(s.sel, s.m[s.sel.owner])
BY DEF SelectionOK, Within, Origin

LEMMA WithinRead ==
  ASSUME NEW mw \in ModelType, NEW sl
  PROVE  Within(sl, ReadAt(mw)) <=> Within(sl, mw)
<1>1. ReadAt(mw) = [mw EXCEPT !.cur = ReadAt(mw).cur]
  BY AtFacts
<1>2. /\ ReadAt(mw).blocking = mw.blocking /\ ReadAt(mw).lines = mw.lines
      /\ ReadAt(mw).top = mw.top /\ ReadAt(mw).lnum = mw.lnum
  BY <1>1 DEF ModelType
<1>. QED
  BY <1>2 DEF Within, OnLine

LEMMA NoFreed ==
  ASSUME NEW mw \in ModelType, NEW T, TblType(T), NEW unsaid,
         Steady(mw, unsaid, T), ~mw.blocking \/ mw.lines = <<>>, ~unsaid
  PROVE  Freed \notin ToSet(mw.lines) /\ At(mw) # Freed
<1>1. Freed \notin ToSet(mw.lines)
  <2>1. CASE mw.blocking
    BY <2>1 DEF ToSet
  <2>2. CASE ~mw.blocking
    <3>1. mw.key \in Keys /\ InSync(mw, T)
      BY <2>2 DEF Steady, Keys
    <3>2. Freed \notin ToSet(Matching(T[mw.key], mw.filter))
      BY <3>1, MatchFacts
    <3>. QED
      BY <3>1, <3>2 DEF InSync
  <2>. QED
    BY <2>1, <2>2
<1>2. Freed # NULL
  BY ListsAssumption
<1>. QED
  BY <1>1, <1>2, AtFacts

LEMMA Moved ==
  ASSUME NEW s \in StateType, NEW w \in Windows, NEW mw \in ModelType, NEW q, NEW T,
         TblType(T), s.fault[1] = "none", ~mw.blocking, Rest(s, w, q, T), Tied(mw, s.lis),
         w = Dt => mw.key \in {Procs, NULL}, w # Dt => Steady(mw, w \in q, T),
         SelectionOK(Put(s, w, mw))
  PROVE  LET t == BufCursMove(Put(s, w, mw), w) IN
         t \in StateType /\ Apart(t, s, w) /\ t.m[w] = ReadAt(mw) /\ Safe(t, q, T)
<1> DEFINE t == BufCursMove(Put(s, w, mw), w)
           n == Len(s.sel.lines)
           idx == mw.top + mw.lnum
<1>1. /\ Apart(t, s, w) /\ t.m[w] = ReadAt(mw)
      /\ ~Extends(s, w) => t.sel = s.sel
      /\ t.sel.owner = s.sel.owner /\ t.sel.enabled = s.sel.enabled /\ t.sel.active = s.sel.active
      /\ \/ t.fault = s.fault
         \/ s.fault[1] = "none" /\ t.fault = <<"freed", w>> /\ At(mw) = Freed
         \/ s.fault[1] = "none" /\ t.fault = <<"bounds", w>> /\ Extends(s, w) /\ t.sel = s.sel
      /\ Extends(s, w) /\ idx \in 0..(n - 1) /\ s.sel.head \in 0..(n - 1) /\ Origin(s) \in 0..(n - 1)
         => /\ t.fault = s.fault \/ (t.fault = <<"freed", w>> /\ At(mw) = Freed)
            /\ t.sel.owner = w /\ t.sel.enabled /\ t.sel.active
            /\ t.sel.top = s.sel.top /\ t.sel.lnum = s.sel.lnum
            /\ t.sel.head = idx /\ Len(t.sel.lines) = n
  BY MoveFacts
<1>2. /\ Put(s, w, mw).sel = s.sel /\ Put(s, w, mw).m[w] = mw
      /\ \A v \in Windows \ {w} : Put(s, w, mw).m[v] = s.m[v]
  BY PutFacts DEF Apart
<1>3. /\ s.sel.enabled => s.sel.active
      /\ s.sel.active => s.sel.owner \in Windows
      /\ s.sel.active /\ s.sel.owner # Dt /\ s.sel.owner = w => Within(s.sel, mw)
      /\ s.sel.active /\ s.sel.owner # Dt /\ s.sel.owner # w => Within(s.sel, s.m[s.sel.owner])
  BY <1>2, SelFacts
<1> HIDE DEF t
<1>4. s.sel.head \in Int /\ s.sel.top \in Int /\ s.sel.lnum \in Int /\ Origin(s) = s.sel.top + s.sel.lnum
  BY StateFacts DEF SelectionType, Origin
<1>5. ASSUME Extends(s, w), w # Dt
      PROVE  /\ t.fault = s.fault \/ (t.fault = <<"freed", w>> /\ At(mw) = Freed)
             /\ t.sel.top = s.sel.top /\ t.sel.lnum = s.sel.lnum
             /\ t.sel.head = idx /\ Len(t.sel.lines) = n /\ idx \in 0..(n - 1)
  <2>0. Within(s.sel, mw)
    BY <1>3, <1>5 DEF Extends
  <2>1. /\ n = Len(mw.lines) /\ OnLine(mw) /\ s.sel.head \in 0..(n - 1) /\ Origin(s) \in 0..(n - 1)
    BY <1>4, <2>0, ModelFacts DEF Within
  <2>2. idx \in 0..(n - 1)
    BY <2>1, ModelFacts DEF OnLine
  <2>. QED
    BY <1>1, <1>5, <2>1, <2>2
<1>6. Known(t, q)
  <2>1. CASE t.fault = s.fault
    BY <2>1 DEF Known
  <2>2. CASE t.fault = <<"freed", w>> /\ At(mw) = Freed
    <3>1. w = Dt \/ w \in q
      <4> DEFINE u == w \in q
      <4>1. u \in BOOLEAN /\ (w # Dt => Steady(mw, u, T))
        OBVIOUS
      <4> HIDE DEF u
      <4>2. w = Dt \/ u
        BY <2>2, <4>1, NoFreed
      <4>. QED
        BY <4>2 DEF u
    <3>. QED
      BY <2>2, <3>1 DEF Known
  <2>3. CASE s.fault[1] = "none" /\ t.fault = <<"bounds", w>> /\ Extends(s, w)
    <3>1. w = Dt
      BY <1>5, <2>3
    <3>. QED
      BY <2>3, <3>1 DEF Known
  <2>. QED
    BY <1>1, <2>1, <2>2, <2>3
<1>7. ASSUME t.fault[1] = "none" PROVE Win(t, w, q, T)
  <2>1. t.lis = s.lis
    BY <1>1 DEF Apart
  <2>2. Tied(ReadAt(mw), t.lis) /\ (w # Dt => WindowOK(ReadAt(mw), w \in q, T))
    <3> DEFINE u == w \in q
    <3>1. u \in BOOLEAN /\ (w # Dt => Steady(mw, u, T))
      OBVIOUS
    <3> HIDE DEF u
    <3>2. Tied(ReadAt(mw), s.lis) /\ (w # Dt => WindowOK(ReadAt(mw), u, T))
      BY <3>1, ReadFacts
    <3>. QED
      BY <2>1, <3>2 DEF u
  <2>3. ReadAt(mw).key = mw.key
    BY AtFacts DEF ModelType
  <2>. QED
    BY <1>1, <2>2, <2>3 DEF Win
<1>8. ASSUME t.fault[1] = "none" PROVE SelectionOK(t)
  <2>1. ASSUME t.sel.active, t.sel.owner # Dt, t.sel.owner = w PROVE Within(t.sel, ReadAt(mw))
    <3>1. Within(s.sel, mw) /\ w # Dt
      BY <1>1, <1>3, <2>1
    <3>2. CASE Extends(s, w)
      <4>1. Within(t.sel, mw)
        BY <1>5, <3>1, <3>2 DEF Within
      <4>. QED
        BY <4>1, WithinRead
    <3>3. CASE ~Extends(s, w)
      BY <1>1, <3>1, <3>3, WithinRead
    <3>. QED
      BY <3>2, <3>3
  <2>2. ASSUME t.sel.active, t.sel.owner # Dt, t.sel.owner # w
        PROVE  Within(t.sel, t.m[t.sel.owner])
    <3>1. Within(s.sel, s.m[s.sel.owner]) /\ ~Extends(s, w) /\ s.sel.owner \in Windows
      BY <1>1, <1>3, <2>2 DEF Extends
    <3>. QED
      BY <1>1, <2>2, <3>1 DEF Apart
  <2>. QED
    BY <1>1, <1>3, <2>1, <2>2, SelFacts
<1>9. Safe(t, q, T)
  BY <1>1, <1>6, <1>7, <1>8, OneWindow
<1>. QED
  BY <1>1, <1>9 DEF t, Apart

Placed(mw, a, b) == [mw EXCEPT !.top = a, !.lnum = b]

(* A move clamps the cursor to the lines; without lines it goes astray.    *)
Clipped(mw, y) ==
  LET max == Len(mw.lines)
      up  == [mw EXCEPT !.lnum = @ + y]
      scr == IF (y < 0 /\ 5 * up.lnum < up.size) \/ (y > 0 /\ 5 * up.lnum > 4 * up.size)
             THEN BufScroll(up, y, max) ELSE up
  IN  Clamped([scr EXCEPT !.lnum = Minimum(Maximum(@, 0), scr.size)], max)

LEMMA ClippedFacts ==
  ASSUME NEW mw \in ModelType, NEW y \in Int
  PROVE  LET c == Clipped(mw, y) IN
         /\ c \in ModelType
         /\ c = Placed(mw, c.top, c.lnum)
         /\ OnLine(mw) \/ Astray(mw) \/ (mw.lines = <<>> /\ mw.top = 0 /\ mw.lnum = 0)
            => IF mw.lines = <<>> THEN Astray(c) ELSE OnLine(c)
<1> DEFINE max == Len(mw.lines)
           up  == [mw EXCEPT !.lnum = @ + y]
           scr == IF (y < 0 /\ 5 * up.lnum < up.size) \/ (y > 0 /\ 5 * up.lnum > 4 * up.size)
                  THEN BufScroll(up, y, max) ELSE up
           cut == [scr EXCEPT !.lnum = Minimum(Maximum(@, 0), scr.size)]
           c == Clamped(cut, max)
<1>1. /\ mw.top \in Int /\ mw.lnum \in Int /\ max \in Nat /\ mw.size \in Nat \ {0}
      /\ mw.lines = <<>> <=> max = 0
  BY ModelFacts
<1>2. up = [mw EXCEPT !.top = mw.top, !.lnum = mw.lnum + y] /\ up.top = mw.top /\ up.lnum = mw.lnum + y
      /\ up.size = mw.size
  BY DEF ModelType
<1>3. PICK a \in Int, b \in Int : /\ scr = [mw EXCEPT !.top = a, !.lnum = b]
         /\ \/ a = mw.top /\ b = mw.lnum + y
            \/ /\ y # 0
               /\ a = Maximum(0, IF mw.top + y + mw.size > max THEN max - mw.size ELSE mw.top + y)
  <2>0. scr = up \/ (y # 0 /\ scr = BufScroll(up, y, max))
    <3> HIDE DEF up
    <3>. QED
      OBVIOUS
  <2>1. CASE scr = up
    <3> HIDE DEF scr
    <3>1. mw.lnum + y \in Int /\ scr = [mw EXCEPT !.top = mw.top, !.lnum = mw.lnum + y]
      BY <1>1, <1>2, <2>1
    <3>. QED
      BY <1>1, <3>1
  <2>2. CASE y # 0 /\ scr = BufScroll(up, y, max)
    <3> DEFINE a == Maximum(0, IF mw.top + y + mw.size > max THEN max - mw.size ELSE mw.top + y)
    <3>1. a \in Int
      BY <1>1 DEF Maximum
    <3>2. scr = [mw EXCEPT !.top = a, !.lnum = mw.lnum + y + (mw.top - a)]
      BY <1>2, <2>2 DEF BufScroll, ModelType
    <3> HIDE DEF a, scr
    <3>3. mw.lnum + y + (mw.top - a) \in Int
      BY <1>1, <3>1
    <3>. QED
      BY <2>2, <3>1, <3>2, <3>3 DEF a
  <2> HIDE DEF scr, up
  <2>. QED
    BY <2>0, <2>1, <2>2
<1> HIDE DEF scr
<1> DEFINE e == Minimum(Maximum(b, 0), mw.size)
           g == IF e + a > max - 1 THEN max - a - 1 ELSE e
<1>4. e \in Int /\ g \in Int /\ e >= 0
  BY <1>1, <1>3 DEF Minimum, Maximum
<1>5. cut = [mw EXCEPT !.top = a, !.lnum = e]
  BY <1>3 DEF ModelType
<1>6. c = [mw EXCEPT !.top = a, !.lnum = g]
  BY <1>5 DEF Clamped, ModelType
<1> HIDE DEF e, c
<1>7. g \in Int /\ c \in ModelType /\ c.top = a /\ c.lnum = g /\ c.lines = mw.lines
  BY <1>3, <1>4, <1>6 DEF ModelType
<1>8. ASSUME OnLine(mw) \/ Astray(mw) \/ (mw.lines = <<>> /\ mw.top = 0 /\ mw.lnum = 0)
      PROVE  IF mw.lines = <<>> THEN Astray(c) ELSE OnLine(c)
  <2>1. mw.top >= 0 /\ (IF max = 0 THEN mw.top = 0 ELSE mw.top < max)
    BY <1>1, <1>8 DEF OnLine, Astray
  <2>2. a >= 0 /\ (IF max = 0 THEN a = 0 ELSE a < max)
    BY <1>1, <1>3, <2>1 DEF Maximum
  <2>3. IF max = 0 THEN g = -1 ELSE g >= 0 /\ a + g < max
    BY <1>1, <1>3, <1>4, <2>2
  <2>. QED
    BY <1>1, <1>3, <1>7, <2>2, <2>3 DEF OnLine, Astray
<1>9. c = Clipped(mw, y)
  BY DEF Clipped, c, scr
<1>. QED
  BY <1>6, <1>7, <1>8, <1>9 DEF Placed

LEMMA PutSelection ==
  ASSUME NEW s \in StateType, NEW w \in Windows, NEW mw \in ModelType,
         s.sel.enabled => s.sel.active, s.sel.active => s.sel.owner \in Windows,
         s.sel.active /\ s.sel.owner = w /\ w # Dt => Within(s.sel, mw),
         s.sel.active /\ s.sel.owner # w /\ s.sel.owner # Dt => Within(s.sel, s.m[s.sel.owner])
  PROVE  SelectionOK(Put(s, w, mw))
<1>1. /\ Put(s, w, mw).sel = s.sel /\ Put(s, w, mw).m[w] = mw
      /\ \A v \in Windows \ {w} : Put(s, w, mw).m[v] = s.m[v]
  BY PutFacts DEF Apart
<1>. QED
  BY <1>1, SelFacts

LEMMA PlaceFacts ==
  ASSUME NEW mw \in ModelType, NEW a \in Int, NEW b \in Int, NEW c, c = Placed(mw, a, b)
  PROVE  /\ c \in ModelType /\ c.top = a /\ c.lnum = b /\ c.lines = mw.lines
         /\ c.blocking = mw.blocking /\ c.key = mw.key /\ c.cur = mw.cur /\ c.lis = mw.lis
         /\ c.head = mw.head /\ c.size = mw.size
         /\ \A l : Tied(c, l) <=> Tied(mw, l)
         /\ \A T : InSync(c, T) <=> InSync(mw, T)
         /\ \A unsaid, T :
              /\ Steady(mw, unsaid, T) /\ Sane(a, b)
              /\ mw.blocking \/ OnLine(c) \/ Astray(c) \/ (c.lines = <<>> /\ a = 0 /\ b = 0)
              => Steady(c, unsaid, T)
<1>1. /\ c \in ModelType /\ c.top = a /\ c.lnum = b /\ c.lines = mw.lines
      /\ c.blocking = mw.blocking /\ c.key = mw.key /\ c.cur = mw.cur /\ c.lis = mw.lis
      /\ c.head = mw.head /\ c.size = mw.size
      /\ c.ptop = mw.ptop /\ c.plnum = mw.plnum /\ c.sort = mw.sort /\ c.filter = mw.filter
  BY DEF ModelType, Placed
<1>2. \A l : Tied(c, l) <=> Tied(mw, l)
  BY <1>1 DEF Tied
<1>3. \A T : InSync(c, T) <=> InSync(mw, T)
  BY <1>1 DEF InSync, InOrder
<1>4. \A unsaid, T :
        /\ Steady(mw, unsaid, T) /\ Sane(a, b)
        /\ mw.blocking \/ OnLine(c) \/ Astray(c) \/ (c.lines = <<>> /\ a = 0 /\ b = 0)
        => Steady(c, unsaid, T)
  BY <1>1, <1>3 DEF Steady
<1>. QED
  BY <1>1, <1>2, <1>3, <1>4

(* What the commands in a window do to the state.                          *)
Edited(t, s, w, q, T) ==
  t \in StateType /\ Apart(t, s, w) /\ Safe(t, q, T) /\ t.m[w].key = s.m[w].key

LEMMA MovedTo ==
  ASSUME NEW s \in StateType, NEW w \in Windows, NEW a \in Int, NEW b \in Int, NEW q, NEW T,
         TblType(T), s.fault[1] = "none", \A v \in Windows : Win(s, v, q, T), ~s.m[w].blocking,
         NEW c, c = Placed(s.m[w], a, b),
         w # Dt => OnLine(c) \/ Astray(c) \/ (c.lines = <<>> /\ a = 0 /\ b = 0),
         SelectionOK(Put(s, w, c))
  PROVE  LET t == BufMoveInvalid(s, w, a, b) IN
         /\ t = BufCursMove(Put(s, w, c), w)
         /\ Edited(t, s, w, q, T) /\ t.m[w] = ReadAt(c)
<1> DEFINE mw == s.m[w]
<1>0. mw \in ModelType /\ c = Placed(mw, a, b)
  BY StateFacts
<1> HIDE DEF mw
<1>1. /\ c \in ModelType /\ c.top = a /\ c.lnum = b /\ c.key = mw.key /\ c.blocking = mw.blocking
      /\ \A l : Tied(c, l) <=> Tied(mw, l)
      /\ \A unsaid, t :
           /\ Steady(mw, unsaid, t) /\ Sane(a, b)
           /\ mw.blocking \/ OnLine(c) \/ Astray(c) \/ (c.lines = <<>> /\ a = 0 /\ b = 0)
           => Steady(c, unsaid, t)
  <2>1. /\ c \in ModelType /\ c.top = a /\ c.lnum = b /\ c.key = mw.key /\ c.blocking = mw.blocking
    BY <1>0, PlaceFacts
  <2>2. \A l : Tied(c, l) <=> Tied(mw, l)
    BY <1>0, PlaceFacts
  <2>3. \A unsaid, t :
           /\ Steady(mw, unsaid, t) /\ Sane(a, b)
           /\ mw.blocking \/ OnLine(c) \/ Astray(c) \/ (c.lines = <<>> /\ a = 0 /\ b = 0)
           => Steady(c, unsaid, t)
    BY <1>0, PlaceFacts
  <2>. QED
    BY <2>1, <2>2, <2>3
<1> USE DEF mw
<1>2. /\ c \in ModelType /\ c.top = a /\ c.lnum = b /\ c.key = s.m[w].key /\ ~c.blocking
      /\ Tied(c, s.lis) <=> Tied(s.m[w], s.lis)
  BY <1>1
<1>3. w # Dt => Steady(c, w \in q, T)
  <2> SUFFICES ASSUME w # Dt PROVE Steady(c, w \in q, T)
    OBVIOUS
  <2>1. Sane(a, b)
    BY <1>2 DEF Sane, OnLine, Astray
  <2>2. Steady(s.m[w], w \in q, T)
    BY DEF Win, WindowOK
  <2>. QED
    BY <1>1, <2>1, <2>2
<1>4. Rest(s, w, q, T) /\ Tied(c, s.lis) /\ (w = Dt => c.key \in {Procs, NULL})
  BY <1>2 DEF Rest, Win
<1>5. LET t == BufCursMove(Put(s, w, c), w) IN
      t \in StateType /\ Apart(t, s, w) /\ t.m[w] = ReadAt(c) /\ Safe(t, q, T)
  BY <1>2, <1>3, <1>4, Moved
<1>6. BufMoveInvalid(s, w, a, b) = BufCursMove(Put(s, w, c), w)
  <2>1. [s EXCEPT !.m[w].top = a, !.m[w].lnum = b] = Put(s, w, c)
    BY StateFacts DEF Put, ModelType, Placed
  <2>. QED
    BY <2>1 DEF BufMoveInvalid
<1>7. ReadAt(c).key = s.m[w].key
  <2>1. ReadAt(c) = [c EXCEPT !.cur = ReadAt(c).cur]
    BY <1>2, AtFacts
  <2>. QED
    BY <1>2, <2>1 DEF ModelType
<1>. QED
  BY <1>5, <1>6, <1>7 DEF Edited

LEMMA BufMvSafe ==
  ASSUME NEW s \in StateType, NEW w \in Windows, NEW y \in Int, NEW q, NEW T,
         TblType(T), s.fault[1] = "none", Safe(s, q, T), ~s.m[w].blocking
  PROVE  LET t == BufMv(s, w, y) IN
         Edited(t, s, w, q, T)
<1> DEFINE mw == s.m[w]
           c == Clipped(mw, y)
<1>1. mw \in ModelType
  BY StateFacts
<1>2. /\ c \in ModelType /\ c = Placed(mw, c.top, c.lnum)
      /\ OnLine(mw) \/ Astray(mw) \/ (mw.lines = <<>> /\ mw.top = 0 /\ mw.lnum = 0)
         => IF mw.lines = <<>> THEN Astray(c) ELSE OnLine(c)
  BY <1>1, ClippedFacts
<1>3. BufMv(s, w, y) = BufCursMove(Put(s, w, c), w)
  BY StateFacts DEF BufMv, Put, Clipped, Count
<1> HIDE DEF c
<1>4. c.top \in Int /\ c.lnum \in Int /\ c.lines = mw.lines /\ c.blocking = mw.blocking
  <2>1. c.top \in Int /\ c.lnum \in Int
    BY <1>2, ModelFacts
  <2>2. c.lines = mw.lines /\ c.blocking = mw.blocking
    BY <1>1, <1>2 DEF ModelType, Placed
  <2>. QED
    BY <2>1, <2>2
<1>5. (\A v \in Windows : Win(s, v, q, T)) /\ SelectionOK(s)
  BY SafeFacts
<1>6. w # Dt => IF mw.lines = <<>> THEN Astray(c) ELSE OnLine(c)
  BY <1>2, <1>5 DEF Win, WindowOK, Steady
<1>7. SelectionOK(Put(s, w, c))
  <2>1. ASSUME s.sel.active, s.sel.owner = w, w # Dt PROVE Within(s.sel, c)
    <3>1. Within(s.sel, mw)
      BY <1>5, <2>1, SelFacts
    <3>2. mw.lines # <<>>
      BY <1>1, <3>1, ModelFacts DEF Within, OnLine
    <3>. QED
      BY <1>4, <1>6, <2>1, <3>1, <3>2 DEF Within
  <2>. QED
    BY <1>2, <1>5, <2>1, PutSelection, SelFacts
<1>8. w # Dt => OnLine(c) \/ Astray(c) \/ (c.lines = <<>> /\ c.top = 0 /\ c.lnum = 0)
  BY <1>6
<1>9. LET t == BufMoveInvalid(s, w, c.top, c.lnum) IN
         t = BufCursMove(Put(s, w, c), w) /\ Edited(t, s, w, q, T)
  <2> DEFINE a == c.top
             b == c.lnum
  <2>1. a \in Int /\ b \in Int /\ c = Placed(s.m[w], a, b)
    BY <1>2, <1>4
  <2>2. w # Dt => OnLine(c) \/ Astray(c) \/ (c.lines = <<>> /\ a = 0 /\ b = 0)
    BY <1>8
  <2> HIDE DEF a, b
  <2>3. LET t == BufMoveInvalid(s, w, a, b) IN
         t = BufCursMove(Put(s, w, c), w) /\ Edited(t, s, w, q, T)
    BY <1>5, <1>7, <2>1, <2>2, MovedTo
  <2>. QED
    BY <2>3 DEF a, b
<1>. QED
  BY <1>3, <1>9

-----------------------------------------------------------------------------
(* The selection of a state replaced, and the cursor moved.                *)
WithSel(s, sl) == [s EXCEPT !.sel = sl]

LEMMA WithSelFacts ==
  ASSUME NEW s \in StateType, NEW sl \in SelectionType
  PROVE  /\ WithSel(s, sl) \in StateType /\ WithSel(s, sl).m = s.m /\ WithSel(s, sl).lis = s.lis
         /\ WithSel(s, sl).fault = s.fault /\ WithSel(s, sl).sel = sl
         /\ WithSel(s, s.sel) = s
BY DEF WithSel, StateType

LEMMA SelMoved ==
  ASSUME NEW s \in StateType, NEW w \in Windows, NEW sl \in SelectionType,
         NEW a \in Int, NEW b \in Int, NEW q, NEW T,
         TblType(T), s.fault[1] = "none", \A v \in Windows : Win(s, v, q, T), ~s.m[w].blocking,
         NEW c, c = Placed(s.m[w], a, b),
         w # Dt => OnLine(c) \/ Astray(c) \/ (c.lines = <<>> /\ a = 0 /\ b = 0),
         sl.enabled => sl.active, sl.active => sl.owner \in Windows,
         sl.active /\ sl.owner = w /\ w # Dt => Within(sl, c),
         sl.active /\ sl.owner # w /\ sl.owner # Dt => Within(sl, s.m[sl.owner])
  PROVE  LET t == BufMoveInvalid(WithSel(s, sl), w, a, b) IN
         Edited(t, s, w, q, T)
<1> DEFINE z == WithSel(s, sl)
<1>1. z \in StateType /\ z.m = s.m /\ z.lis = s.lis /\ z.fault = s.fault /\ z.sel = sl
  BY WithSelFacts
<1> HIDE DEF z
<1>2. \A v \in Windows : Win(z, v, q, T)
  BY <1>1 DEF Win
<1>3. c \in ModelType
  BY StateFacts, PlaceFacts
<1>4. SelectionOK(Put(z, w, c))
  BY <1>1, <1>3, PutSelection
<1>5. LET t == BufMoveInvalid(z, w, a, b) IN
      Edited(t, z, w, q, T)
  BY <1>1, <1>2, <1>4, MovedTo
<1>. QED
  BY <1>1, <1>5 DEF Edited, Apart, z

LEMMA PutTwice ==
  ASSUME NEW s \in StateType, NEW w \in Windows, NEW x, NEW y
  PROVE  Put(Put(s, w, x), w, y) = Put(s, w, y) /\ Put(s, w, x).m[w] = x
<1>1. s.m \in [Windows -> ModelType] /\ s = [m |-> s.m, lis |-> s.lis, sel |-> s.sel, fault |-> s.fault]
  BY StateFacts
<1>2. Put(s, w, x).m = [s.m EXCEPT ![w] = x]
  BY <1>1 DEF Put
<1>3. [[s.m EXCEPT ![w] = x] EXCEPT ![w] = y] = [s.m EXCEPT ![w] = y] /\ [s.m EXCEPT ![w] = x][w] = x
  BY <1>1
<1>. QED
  BY <1>1, <1>2, <1>3 DEF Put

LEMMA PlacedTwice ==
  ASSUME NEW mw \in ModelType, NEW a, NEW b, NEW c, NEW d
  PROVE  Placed(Placed(mw, c, d), a, b) = Placed(mw, a, b)
BY DEF Placed, ModelType

LEMMA MoveTwice ==
  ASSUME NEW s \in StateType, NEW w \in Windows, NEW a \in Int, NEW b \in Int, NEW c \in Int, NEW d \in Int
  PROVE  BufMoveInvalid(Put(s, w, Placed(s.m[w], c, d)), w, a, b) = BufMoveInvalid(s, w, a, b)
<1> DEFINE x == Placed(s.m[w], c, d)
           p == Put(s, w, x)
<1>1. s.m[w] \in ModelType
  BY StateFacts
<1>2. x \in ModelType
  BY <1>1, PlaceFacts
<1>3. p \in StateType /\ p.m[w] = x
  BY <1>2, PutFacts
<1>4. [s EXCEPT !.m[w].top = a, !.m[w].lnum = b] = Put(s, w, Placed(s.m[w], a, b))
  BY StateFacts DEF Put, Placed, ModelType
<1>5. [p EXCEPT !.m[w].top = a, !.m[w].lnum = b] = Put(p, w, Placed(p.m[w], a, b))
  <2> HIDE DEF p
  <2>1. p.m \in [Windows -> ModelType] /\ p = [m |-> p.m, lis |-> p.lis, sel |-> p.sel, fault |-> p.fault]
    BY <1>3, StateFacts
  <2>. QED
    BY <2>1 DEF Put, Placed, ModelType
<1>6. Put(p, w, Placed(p.m[w], a, b)) = Put(s, w, Placed(s.m[w], a, b))
  <2>1. Placed(x, a, b) = Placed(s.m[w], a, b)
    BY <1>1, PlacedTwice
  <2> HIDE DEF x
  <2>2. Put(p, w, Placed(s.m[w], a, b)) = Put(s, w, Placed(s.m[w], a, b))
    BY PutTwice
  <2> HIDE DEF p
  <2>. QED
    BY <1>3, <2>1, <2>2
<1>. QED
  BY <1>4, <1>5, <1>6 DEF BufMoveInvalid

(* The ends of the range swapped.                                          *)
Swapped(sl, mw) == [sl EXCEPT !.top = mw.top, !.lnum = mw.lnum]

LEMMA SwapFacts ==
  ASSUME NEW s \in StateType, NEW w \in Windows, s.sel.active, s.sel.owner = w
  PROVE  LET sl == Swapped(s.sel, s.m[w])
             c == Placed(s.m[w], s.sel.top, s.sel.lnum)
         IN  /\ sl \in SelectionType /\ s.sel.top \in Int /\ s.sel.lnum \in Int
             /\ sl.enabled = s.sel.enabled /\ sl.active /\ sl.owner = w
             /\ SelectAltOrigin(s, w) = Put(WithSel(s, sl), w, c)
             /\ c.top = s.sel.top /\ c.lnum = s.sel.lnum
             /\ Within(s.sel, s.m[w]) /\ ~s.m[w].blocking => OnLine(c) /\ Within(sl, c)
<1> DEFINE sl == Swapped(s.sel, s.m[w])
           c == Placed(s.m[w], s.sel.top, s.sel.lnum)
<1>1. s.m[w] \in ModelType /\ s.m \in [Windows -> ModelType] /\ s.sel \in SelectionType
  BY StateFacts
<1>2. /\ s.m[w].top \in Int /\ s.m[w].lnum \in Int
      /\ s.sel.top \in Int /\ s.sel.lnum \in Int
  BY <1>1 DEF ModelType, SelectionType
<1>3. /\ sl \in SelectionType /\ sl.enabled = s.sel.enabled /\ sl.active /\ sl.owner = w
      /\ sl.top = s.m[w].top /\ sl.lnum = s.m[w].lnum /\ sl.head = s.sel.head
      /\ sl.lines = s.sel.lines
  BY <1>1, <1>2 DEF SelectionType, Swapped
<1>4. SelectAltOrigin(s, w)
      = [s EXCEPT !.m[w].top = s.sel.top, !.m[w].lnum = s.sel.lnum,
                  !.sel.top = s.m[w].top, !.sel.lnum = s.m[w].lnum]
  BY DEF SelectAltOrigin
<1>5. SelectAltOrigin(s, w) = Put(WithSel(s, sl), w, c)
  <2>1. s = [m |-> s.m, lis |-> s.lis, sel |-> s.sel, fault |-> s.fault]
    BY StateFacts
  <2>2. [[s.m EXCEPT ![w].top = s.sel.top] EXCEPT ![w].lnum = s.sel.lnum] = [s.m EXCEPT ![w] = c]
    BY <1>1 DEF Placed, ModelType
  <2>3. [[s.sel EXCEPT !.top = s.m[w].top] EXCEPT !.lnum = s.m[w].lnum] = sl
    BY <1>1 DEF Swapped, SelectionType
  <2>4. SelectAltOrigin(s, w) = [m |-> [[s.m EXCEPT ![w].top = s.sel.top] EXCEPT ![w].lnum = s.sel.lnum],
             lis |-> s.lis, sel |-> [[s.sel EXCEPT !.top = s.m[w].top] EXCEPT !.lnum = s.m[w].lnum],
             fault |-> s.fault]
    BY <1>4, <2>1
  <2> HIDE DEF sl, c
  <2>5. WithSel(s, sl) = [m |-> s.m, lis |-> s.lis, sel |-> sl, fault |-> s.fault]
    BY <2>1 DEF WithSel
  <2>6. Put(WithSel(s, sl), w, c) = [m |-> [s.m EXCEPT ![w] = c], lis |-> s.lis, sel |-> sl, fault |-> s.fault]
    BY <2>5 DEF Put
  <2>. QED
    BY <2>2, <2>3, <2>4, <2>6
<1>6. /\ c.top = s.sel.top /\ c.lnum = s.sel.lnum /\ c.lines = s.m[w].lines /\ c.blocking = s.m[w].blocking
  BY <1>1, <1>2 DEF Placed, ModelType
<1> HIDE DEF c, sl
<1>7. Within(s.sel, s.m[w]) /\ ~s.m[w].blocking => OnLine(c) /\ Within(sl, c)
  BY <1>2, <1>3, <1>6 DEF Within, OnLine
<1>. QED
  BY <1>2, <1>3, <1>5, <1>6, <1>7 DEF c, sl

LEMMA AltOriginSafe ==
  ASSUME NEW s \in StateType, NEW w \in Windows, NEW q, NEW T, TblType(T),
         s.fault[1] = "none", Safe(s, q, T), ~s.m[w].blocking, s.sel.active, s.sel.owner = w
  PROVE  LET s1 == SelectAltOrigin(s, w)
             t == BufMoveInvalid(s1, w, s1.m[w].top, s1.m[w].lnum)
         IN  Edited(t, s, w, q, T)
<1> DEFINE s1 == SelectAltOrigin(s, w)
           sl == Swapped(s.sel, s.m[w])
           c == Placed(s.m[w], s.sel.top, s.sel.lnum)
           a == s.sel.top
           b == s.sel.lnum
<1>1. /\ sl \in SelectionType /\ a \in Int /\ b \in Int
      /\ sl.enabled = s.sel.enabled /\ sl.active /\ sl.owner = w
      /\ c.top = a /\ c.lnum = b /\ s1 = Put(WithSel(s, sl), w, c)
      /\ Within(s.sel, s.m[w]) /\ ~s.m[w].blocking => OnLine(c) /\ Within(sl, c)
  BY SwapFacts
<1> HIDE DEF s1, sl, c, a, b
<1>2. WithSel(s, sl) \in StateType /\ WithSel(s, sl).m = s.m
  BY <1>1, WithSelFacts
<1>3. BufMoveInvalid(s1, w, s1.m[w].top, s1.m[w].lnum) = BufMoveInvalid(WithSel(s, sl), w, a, b)
  <2>1. s1.m[w] = c
    BY <1>1, <1>2, PutTwice
  <2>2. c = Placed(WithSel(s, sl).m[w], a, b)
    BY <1>2 DEF c, a, b
  <2>3. BufMoveInvalid(Put(WithSel(s, sl), w, Placed(WithSel(s, sl).m[w], a, b)), w, a, b)
        = BufMoveInvalid(WithSel(s, sl), w, a, b)
    BY <1>1, <1>2, MoveTwice
  <2>. QED
    BY <1>1, <2>1, <2>2, <2>3
<1>4. (\A v \in Windows : Win(s, v, q, T)) /\ SelectionOK(s)
  BY SafeFacts
<1>5. w # Dt => OnLine(c) /\ Within(sl, c)
  BY <1>1, <1>4, SelFacts
<1>6. LET t == BufMoveInvalid(WithSel(s, sl), w, a, b) IN
         Edited(t, s, w, q, T)
  <2>1. c = Placed(s.m[w], a, b)
    BY DEF c, a, b
  <2>. QED
    BY <1>1, <1>4, <1>5, <2>1, SelMoved
<1>. QED
  BY <1>3, <1>6 DEF s1

LEMMA EndSelSafe ==
  ASSUME NEW s \in StateType, NEW w \in Windows, NEW q, NEW T, TblType(T),
         s.fault[1] = "none", Safe(s, q, T), ~s.m[w].blocking
  PROVE  LET s1 == IF Origin(s) > Index(s, w) THEN s ELSE SelectAltOrigin(s, w)
             s2 == SelectClear(s1, w)
             t == BufMoveInvalid(s2, w, s2.m[w].top, s2.m[w].lnum)
         IN  Edited(t, s, w, q, T)
<1> DEFINE s1 == IF Origin(s) > Index(s, w) THEN s ELSE SelectAltOrigin(s, w)
           s2 == SelectClear(s1, w)
           t == BufMoveInvalid(s2, w, s2.m[w].top, s2.m[w].lnum)
           mw == s.m[w]
<1>1. (\A v \in Windows : Win(s, v, q, T)) /\ SelectionOK(s) /\ mw \in ModelType /\ s.sel \in SelectionType
  BY SafeFacts, StateFacts
<1>2. CASE s1 = s
  <2> DEFINE sl == SelectClear(s, w).sel
             c == Placed(mw, mw.top, mw.lnum)
  <2>1. /\ s2 \in StateType /\ s2.m = s.m /\ s2.lis = s.lis /\ s2.fault = s.fault /\ s2.sel = sl
        /\ sl.owner = s.sel.owner
        /\ s.sel.owner # w => sl = s.sel
        /\ s.sel.owner = w => ~sl.enabled /\ ~sl.active
    BY <1>2, ClearFacts
  <2> HIDE DEF sl, s2
  <2>2. sl \in SelectionType
    BY <2>1, StateFacts
  <2>3. WithSel(s, sl) = s2
    BY <2>1, StateFacts DEF WithSel
  <2>4. mw.top \in Int /\ mw.lnum \in Int /\ c = mw
    BY <1>1 DEF Placed, ModelType
  <2> HIDE DEF c
  <2>5. w # Dt => OnLine(c) \/ Astray(c) \/ (c.lines = <<>> /\ mw.top = 0 /\ mw.lnum = 0)
    BY <1>1, <2>4 DEF Win, WindowOK, Steady
  <2>6. /\ sl.enabled => sl.active
        /\ sl.active => sl.owner \in Windows
        /\ ~(sl.active /\ sl.owner = w)
        /\ sl.active /\ sl.owner # w /\ sl.owner # Dt => Within(sl, s.m[sl.owner])
    BY <1>1, <2>1, SelFacts
  <2>7. LET r == BufMoveInvalid(WithSel(s, sl), w, mw.top, mw.lnum) IN
        Edited(r, s, w, q, T)
    <3>1. c = Placed(s.m[w], mw.top, mw.lnum)
      BY DEF c
    <3>. QED
      BY <1>1, <2>2, <2>4, <2>5, <2>6, <3>1, SelMoved
  <2>. QED
    BY <2>1, <2>3, <2>7 DEF s2
<1>3. CASE s1 # s
  <2> DEFINE sw == Swapped(s.sel, s.m[w])
             a == s.sel.top
             b == s.sel.lnum
             c == Placed(s.m[w], a, b)
             alt == SelectAltOrigin(s, w)
             z == WithSel(s, sw)
             sl == SelectClear(z, w).sel
  <2>1. s1 = alt /\ s.sel.active /\ s.sel.owner = w
    BY <1>3 DEF SelectAltOrigin
  <2>2. /\ sw \in SelectionType /\ a \in Int /\ b \in Int
        /\ sw.enabled = s.sel.enabled /\ sw.active /\ sw.owner = w
        /\ c.top = a /\ c.lnum = b /\ alt = Put(z, w, c)
        /\ Within(s.sel, s.m[w]) /\ ~s.m[w].blocking => OnLine(c) /\ Within(sw, c)
    BY <2>1, SwapFacts
  <2> HIDE DEF sw, a, b, c, alt, s1
  <2>3. z \in StateType /\ z.m = s.m /\ z.lis = s.lis /\ z.fault = s.fault /\ z.sel = sw
    BY <2>2, WithSelFacts
  <2>4. SelectClear(z, w) = [z EXCEPT !.sel.lines = <<>>, !.sel.enabled = FALSE, !.sel.active = FALSE]
    BY <2>2, <2>3 DEF SelectClear
  <2>5. alt.sel = sw
    BY <2>2, <2>3 DEF Put, StateType
  <2>6. s2 = [alt EXCEPT !.sel.lines = <<>>, !.sel.enabled = FALSE, !.sel.active = FALSE]
    BY <2>1, <2>2, <2>5 DEF SelectClear
  <2>7. s2 = Put(SelectClear(z, w), w, c)
    BY <2>2, <2>3, <2>4, <2>6 DEF StateType, Put
  <2>8. /\ SelectClear(z, w) \in StateType /\ SelectClear(z, w).m = z.m /\ SelectClear(z, w).lis = z.lis
        /\ SelectClear(z, w).fault = z.fault /\ ~sl.enabled /\ ~sl.active
    BY <2>2, <2>3, ClearFacts
  <2>9. sl \in SelectionType /\ WithSel(s, sl) = SelectClear(z, w)
    BY <2>3, <2>8, StateFacts DEF WithSel
  <2>10. s2.m[w] = c /\ c = Placed(SelectClear(z, w).m[w], a, b)
    BY <2>3, <2>7, <2>8, PutTwice DEF c
  <2>11. t = BufMoveInvalid(SelectClear(z, w), w, a, b)
    <3>1. BufMoveInvalid(Put(SelectClear(z, w), w, Placed(SelectClear(z, w).m[w], a, b)), w, a, b)
          = BufMoveInvalid(SelectClear(z, w), w, a, b)
      BY <2>2, <2>8, MoveTwice
    <3> HIDE DEF s2, z
    <3>. QED
      BY <2>2, <2>7, <2>10, <3>1
  <2>12. w # Dt => OnLine(c)
    BY <1>1, <2>1, <2>2, SelFacts
  <2> HIDE DEF sl
  <2>13. LET r == BufMoveInvalid(WithSel(s, sl), w, a, b) IN
        Edited(r, s, w, q, T)
    <3>1. c = Placed(s.m[w], a, b)
      BY DEF c
    <3>. QED
      BY <1>1, <2>2, <2>8, <2>9, <2>12, <3>1, SelMoved DEF sl
  <2>. QED
    BY <2>9, <2>11, <2>13 DEF s1
<1>. QED
  BY <1>2, <1>3

LEMMA SelOnly ==
  ASSUME NEW s, NEW t, NEW q, NEW T, t.m = s.m, t.lis = s.lis, \A v \in Windows : Win(s, v, q, T),
         Known(t, q), t.fault[1] = "none" => SelectionOK(t)
  PROVE  Safe(t, q, T)
<1>1. \A v \in Windows : Win(t, v, q, T)
  BY DEF Win
<1>. QED
  BY <1>1, SafeFacts

LEMMA ToggleSafe ==
  ASSUME NEW s \in StateType, NEW w \in Windows, NEW q, NEW T, TblType(T),
         s.fault[1] = "none", Safe(s, q, T), ~s.m[w].blocking
  PROVE  LET t == SelectToggle(s, w) IN
         t \in StateType /\ t.m = s.m /\ t.lis = s.lis /\ Safe(t, q, T)
<1> DEFINE mw == s.m[w]
           n == Len(mw.lines)
           idx == mw.top + mw.lnum
           other == s.sel.active /\ s.sel.owner # w
           s1 == IF other THEN SelectClear(s, s.sel.owner) ELSE s
           lines == IF s1.sel.active THEN s1.sel.lines ELSE [i \in 1..n |-> FALSE]
           sl == [owner |-> w, enabled |-> TRUE, active |-> TRUE,
                  aditv |-> ~lines[idx + 1], head |-> idx, top |-> mw.top, lnum |-> mw.lnum,
                  lines |-> [lines EXCEPT ![idx + 1] = TRUE]]
           t == SelectToggle(s, w)
<1>1. /\ mw \in ModelType /\ s.sel \in SelectionType
      /\ (\A v \in Windows : Win(s, v, q, T)) /\ SelectionOK(s)
  BY StateFacts, SafeFacts
<1>2. n \in Nat /\ mw.top \in Int /\ mw.lnum \in Int /\ idx \in Int
  BY <1>1, ModelFacts
<1>3. /\ s1 \in StateType /\ s1.m = s.m /\ s1.lis = s.lis /\ s1.fault = s.fault
      /\ ~other => s1 = s
      /\ other => ~s1.sel.enabled /\ ~s1.sel.active
  BY ClearFacts
<1>4. t = IF n < 1 THEN s
          ELSE IF other /\ s.m[s.sel.owner].key = NULL THEN Fault(s, "owner", w)
          ELSE IF s1.sel.enabled THEN [s1 EXCEPT !.sel.owner = w, !.sel.enabled = FALSE]
          ELSE IF idx + 1 \notin DOMAIN lines THEN Fault(s, "bounds", w)
          ELSE [s1 EXCEPT !.sel = sl]
  BY DEF SelectToggle, Count, Index
<1> HIDE DEF s1, t
<1>5. s1.sel.active => s1 = s /\ s.sel.active /\ s.sel.owner = w
  BY <1>3
<1>6. w # Dt /\ s1.sel.active => Within(s.sel, mw)
  BY <1>1, <1>5, SelFacts
<1>7. PICK k \in Nat : lines \in [1..k -> BOOLEAN] /\ lines \in Seq(BOOLEAN) /\ (w # Dt => k = n)
  <2>1. CASE s1.sel.active
    <3>1. lines = s.sel.lines /\ s.sel.lines \in Seq(BOOLEAN)
      BY <1>1, <1>5, <2>1 DEF SelectionType
    <3>2. Len(lines) \in Nat /\ lines \in [1..Len(lines) -> BOOLEAN]
      BY <3>1, LenProperties
    <3>3. w # Dt => Len(lines) = n
      BY <1>6, <2>1, <3>1 DEF Within
    <3>. QED
      BY <3>1, <3>2, <3>3
  <2>2. CASE ~s1.sel.active
    <3>1. lines \in [1..n -> BOOLEAN]
      BY <2>2
    <3> HIDE DEF lines
    <3>2. lines \in Seq(BOOLEAN)
      BY <1>2, <3>1, IsASeq
    <3>. QED
      BY <1>2, <3>1, <3>2
  <2>. QED
    BY <2>1, <2>2
<1>8. w # Dt /\ idx + 1 \in 1..n => OnLine(mw)
  <2>1. w # Dt => OnLine(mw) \/ Astray(mw) \/ (mw.lines = <<>> /\ mw.top = 0 /\ mw.lnum = 0)
    BY <1>1 DEF Win, WindowOK, Steady
  <2>2. mw.lines = <<>> => n = 0
    BY <1>1, ModelFacts
  <2>. QED
    BY <1>2, <2>1, <2>2 DEF Astray
<1>9. CASE n < 1
  BY <1>4, <1>9 DEF t
<1>10. CASE n >= 1 /\ other /\ s.m[s.sel.owner].key = NULL
  <2>1. t = Fault(s, "owner", w)
    BY <1>2, <1>4, <1>10
  <2>2. t \in StateType /\ t.m = s.m /\ t.lis = s.lis /\ t.sel = s.sel /\ t.fault = <<"owner", w>>
    BY <2>1, FaultFacts DEF Faults
  <2>3. Known(t, q)
    BY <1>10, <2>2 DEF Known
  <2>. QED
    BY <1>1, <2>2, <2>3, SelOnly DEF t
<1>11. CASE n >= 1 /\ ~(other /\ s.m[s.sel.owner].key = NULL) /\ s1.sel.enabled
  <2>1. s1 = s /\ s.sel.enabled /\ s.sel.active /\ s.sel.owner = w
    BY <1>1, <1>3, <1>11, SelFacts
  <2>2. t = [s EXCEPT !.sel.owner = w, !.sel.enabled = FALSE]
    BY <1>2, <1>4, <1>11, <2>1
  <2>3. /\ t \in StateType /\ t.m = s.m /\ t.lis = s.lis /\ t.fault = s.fault
        /\ t.sel = [s.sel EXCEPT !.owner = w, !.enabled = FALSE]
    BY <1>1, <2>2, StateFacts DEF StateType, SelectionType
  <2>4. /\ t.sel.owner = w /\ t.sel.active /\ t.sel.lines = s.sel.lines /\ ~t.sel.enabled
        /\ t.sel.head = s.sel.head /\ t.sel.top = s.sel.top /\ t.sel.lnum = s.sel.lnum
    BY <1>1, <2>1, <2>3 DEF SelectionType
  <2>5. SelectionOK(t)
    BY <1>1, <2>1, <2>3, <2>4, SelFacts DEF Within
  <2>6. Known(t, q)
    BY <2>3 DEF Known
  <2>. QED
    BY <1>1, <2>3, <2>5, <2>6, SelOnly DEF t
<1>12. CASE /\ n >= 1 /\ ~(other /\ s.m[s.sel.owner].key = NULL) /\ ~s1.sel.enabled
            /\ idx + 1 \notin DOMAIN lines
  <2>1. t = Fault(s, "bounds", w)
    BY <1>2, <1>4, <1>12
  <2>2. t \in StateType /\ t.m = s.m /\ t.lis = s.lis /\ t.sel = s.sel /\ t.fault = <<"bounds", w>>
    BY <2>1, FaultFacts DEF Faults
  <2>3. w = Dt \/ Astray(mw)
    <3>1. w # Dt => OnLine(mw) \/ Astray(mw)
      BY <1>1, <1>2, <1>12, ModelFacts DEF Win, WindowOK, Steady
    <3>2. w # Dt => ~(idx + 1 \in 1..n)
      BY <1>7, <1>12
    <3>3. OnLine(mw) => idx + 1 \in 1..n
      BY <1>2 DEF OnLine
    <3>. QED
      BY <3>1, <3>2, <3>3
  <2>4. Known(t, q)
    BY <2>2, <2>3 DEF Known
  <2>. QED
    BY <1>1, <2>2, <2>4, SelOnly DEF t
<1>13. CASE /\ n >= 1 /\ ~(other /\ s.m[s.sel.owner].key = NULL) /\ ~s1.sel.enabled
            /\ idx + 1 \in DOMAIN lines
  <2>1. t = [s1 EXCEPT !.sel = sl]
    BY <1>2, <1>4, <1>13
  <2>2. idx + 1 \in 1..k
    BY <1>7, <1>13
  <2> DEFINE ls == [lines EXCEPT ![idx + 1] = TRUE]
  <2>3. ls \in Seq(BOOLEAN) /\ Len(ls) = k
    <3>1. ls \in [1..k -> BOOLEAN]
      BY <1>7
    <3> HIDE DEF ls
    <3>. QED
      BY <3>1, IsASeq, LenProperties
  <2>4. sl = [owner |-> w, enabled |-> TRUE, active |-> TRUE, aditv |-> ~lines[idx + 1],
              head |-> idx, top |-> mw.top, lnum |-> mw.lnum, lines |-> ls]
    OBVIOUS
  <2> HIDE DEF ls, sl, lines
  <2>5. sl \in SelectionType
    BY <1>2, <2>3, <2>4 DEF SelectionType
  <2>6. t \in StateType /\ t.m = s.m /\ t.lis = s.lis /\ t.fault = s.fault /\ t.sel = sl
    <3> DEFINE z == WithSel(s1, sl)
    <3>1. z \in StateType /\ z.m = s1.m /\ z.lis = s1.lis /\ z.fault = s1.fault /\ z.sel = sl
      BY <1>3, <2>5, WithSelFacts
    <3>2. t = z
      BY <2>1 DEF WithSel
    <3> HIDE DEF z
    <3>. QED
      BY <1>3, <3>1, <3>2
  <2>7. w # Dt => Within(sl, mw)
    <3>1. w # Dt => k = n /\ OnLine(mw)
      BY <1>7, <1>8, <2>2
    <3>. QED
      BY <1>2, <2>2, <2>3, <2>4, <3>1 DEF Within, OnLine
  <2>8. sl.owner = w /\ sl.active
    BY <2>4
  <2>9. SelectionOK(t)
    BY <2>6, <2>7, <2>8, SelFacts
  <2>10. Known(t, q)
    BY <2>6 DEF Known
  <2>. QED
    BY <1>1, <2>6, <2>9, <2>10, SelOnly DEF t
<1>. QED
  BY <1>2, <1>9, <1>10, <1>11, <1>12, <1>13 DEF t

(* What draw_screen does to a state.                                       *)
Drawn(s, w) ==
  LET shown == {i \in s.m[w].top..(s.m[w].top + s.m[w].size - 1) : Line(s, w, i) # NULL}
      s1 == Deref(s, {Line(s, w, i) : i \in shown}, w)
  IN  IF s.sel.active /\ s.sel.owner = w /\ \E i \in shown : i + 1 \notin DOMAIN s.sel.lines
      THEN Fault(s1, "bounds", w) ELSE s1

LEMMA DrawnSafe ==
  ASSUME NEW s \in StateType, NEW w \in Windows, NEW q, NEW T, TblType(T),
         s.fault[1] = "none", Safe(s, q, T)
  PROVE  LET t == Drawn(s, w) IN
         t \in StateType /\ t.m = s.m /\ t.lis = s.lis /\ Safe(t, q, T)
<1> DEFINE mw == s.m[w]
           shown == {i \in mw.top..(mw.top + mw.size - 1) : Line(s, w, i) # NULL}
           read == {Line(s, w, i) : i \in shown}
           s1 == Deref(s, read, w)
           out == s.sel.active /\ s.sel.owner = w /\ \E i \in shown : i + 1 \notin DOMAIN s.sel.lines
           t == IF out THEN Fault(s1, "bounds", w) ELSE s1
<1>1. /\ mw \in ModelType /\ s.sel \in SelectionType
      /\ (\A v \in Windows : Win(s, v, q, T)) /\ SelectionOK(s)
  BY StateFacts, SafeFacts
<1>2. \A i \in shown : /\ i + 1 \in 1..Len(mw.lines) /\ Line(s, w, i) \in ToSet(mw.lines)
  <2> SUFFICES ASSUME NEW i \in shown
               PROVE  i + 1 \in 1..Len(mw.lines) /\ Line(s, w, i) \in ToSet(mw.lines)
    OBVIOUS
  <2>1. i \in Int /\ Line(s, w, i) # NULL
    BY <1>1, ModelFacts
  <2>2. i >= 0 /\ i < Len(mw.lines) /\ Len(mw.lines) \in Nat /\ Line(s, w, i) \in ToSet(mw.lines)
    BY <2>1, LineFacts
  <2>. QED
    BY <2>1, <2>2
<1> HIDE DEF shown
<1>3. /\ s1 \in StateType /\ s1.m = s.m /\ s1.lis = s.lis /\ s1.sel = s.sel
      /\ s1.fault = IF Freed \in read THEN <<"freed", w>> ELSE s.fault
  BY DerefFacts
<1>4. Freed \in read => w = Dt \/ w \in q \/ mw.blocking
  <2> SUFFICES ASSUME Freed \in read, w # Dt, w \notin q, ~mw.blocking PROVE FALSE
    OBVIOUS
  <2>1. Steady(mw, FALSE, T)
    BY <1>1 DEF Win, WindowOK, Steady
  <2>2. Freed \notin ToSet(mw.lines)
    BY <1>1, <2>1, NoFreed
  <2>. QED
    BY <1>2, <2>2
<1>5. out => w = Dt
  <2> SUFFICES ASSUME out, w # Dt PROVE FALSE
    OBVIOUS
  <2>1. Within(s.sel, mw) /\ s.sel.lines \in Seq(BOOLEAN)
    BY <1>1, SelFacts DEF SelectionType
  <2>2. DOMAIN s.sel.lines = 1..Len(s.sel.lines)
    BY <2>1, LenProperties
  <2>3. mw.blocking => Len(mw.lines) = 0
    BY <1>1, <2>1, ModelFacts DEF Within
  <2>. QED
    BY <1>2, <2>1, <2>2, <2>3 DEF Within
<1> HIDE DEF s1, out, read
<1>6. /\ t \in StateType /\ t.m = s.m /\ t.lis = s.lis /\ t.sel = s.sel
      /\ \/ t.fault = s1.fault
         \/ out /\ t.fault = <<"bounds", w>>
  BY <1>3, FaultFacts DEF Faults
<1> HIDE DEF t
<1>7. Known(t, q)
  BY <1>3, <1>4, <1>5, <1>6 DEF Known
<1>8. SelectionOK(t)
  BY <1>1, <1>6, SelFacts
<1>9. Safe(t, q, T)
  BY <1>1, <1>6, <1>7, <1>8, SelOnly
<1>. QED
  BY <1>6, <1>9 DEF Drawn, t, out, s1, read, shown

(* A window of another size keeps the line its cursor is on.               *)
Resized(mw, size) ==
  LET grow == size > mw.size /\ mw.top + size > Len(mw.lines)
      top  == Maximum(1 + mw.top + mw.lnum - size, 0)
  IN  IF mw.lnum >= size \/ grow
      THEN [mw EXCEPT !.size = size, !.top = top, !.lnum = @ + mw.top - top]
      ELSE [mw EXCEPT !.size = size]

LEMMA KeptInSight ==
  ASSUME NEW x \in Int, NEW y \in Int, NEW a \in Int, NEW b \in Int, NEW size \in Nat \ {0},
         a + b = x + y, (a = x /\ b = y) \/ a = Maximum(1 + x + y - size, 0)
  PROVE  /\ x >= 0 /\ y >= 0 => a >= 0 /\ b >= 0
         /\ x = 0 /\ y = -1 => a = 0 /\ b = -1
         /\ x = 0 /\ y = 0 => a = 0 /\ b = 0
BY DEF Maximum

LEMMA ResizedSafe ==
  ASSUME NEW s \in StateType, NEW w \in Windows, NEW size \in Sizes, NEW q, NEW T,
         s.fault[1] = "none", Safe(s, q, T)
  PROVE  LET t == Put(s, w, Resized(s.m[w], size)) IN
         Edited(t, s, w, q, T)
<1> DEFINE mw == s.m[w]
           r == Resized(mw, size)
           t == Put(s, w, r)
<1>1. /\ mw \in ModelType
      /\ (\A v \in Windows : Win(s, v, q, T)) /\ SelectionOK(s)
  BY StateFacts, SafeFacts
<1>2. mw.top \in Int /\ mw.lnum \in Int /\ Len(mw.lines) \in Nat /\ size \in Nat \ {0}
  BY <1>1, ModelFacts, ListsAssumption
<1>3. PICK a \in Int, b \in Int :
        /\ r = [mw EXCEPT !.size = size, !.top = a, !.lnum = b] /\ a + b = mw.top + mw.lnum
        /\ (a = mw.top /\ b = mw.lnum) \/ a = Maximum(1 + mw.top + mw.lnum - size, 0)
  <2> DEFINE top == Maximum(1 + mw.top + mw.lnum - size, 0)
  <2>0. top \in Int
    BY <1>2 DEF Maximum
  <2>1. mw.lnum + mw.top - top \in Int /\ top + (mw.lnum + mw.top - top) = mw.top + mw.lnum
    <3> HIDE DEF top, mw
    <3>. QED
      BY <1>2, <2>0
  <2>2. \/ r = [mw EXCEPT !.size = size, !.top = top, !.lnum = mw.lnum + mw.top - top]
        \/ r = [mw EXCEPT !.size = size]
    BY <1>1 DEF Resized, ModelType
  <2>3. [mw EXCEPT !.size = size] = [mw EXCEPT !.size = size, !.top = mw.top, !.lnum = mw.lnum]
    BY <1>1 DEF ModelType
  <2> HIDE DEF top, r
  <2>. QED
    BY <1>2, <2>0, <2>1, <2>2, <2>3 DEF top
<1> HIDE DEF r
<1>4. /\ r \in ModelType /\ r.top = a /\ r.lnum = b
      /\ r.key = mw.key /\ r.blocking = mw.blocking /\ r.cur = mw.cur /\ r.head = mw.head
      /\ r.lis = mw.lis /\ r.pfval = mw.pfval /\ r.ptop = mw.ptop /\ r.plnum = mw.plnum
      /\ r.lines = mw.lines /\ r.sort = mw.sort /\ r.filter = mw.filter
  BY <1>1, <1>3 DEF ModelType
<1>5. /\ Sane(mw.top, mw.lnum) => Sane(a, b)
      /\ OnLine(mw) => OnLine(r)
      /\ Astray(mw) => Astray(r)
      /\ mw.top = 0 /\ mw.lnum = 0 => r.top = 0 /\ r.lnum = 0
  <2> HIDE DEF mw
  <2>1. /\ mw.top >= 0 /\ mw.lnum >= 0 => a >= 0 /\ b >= 0
        /\ mw.top = 0 /\ mw.lnum = -1 => a = 0 /\ b = -1
        /\ mw.top = 0 /\ mw.lnum = 0 => a = 0 /\ b = 0
    BY <1>2, <1>3, KeptInSight
  <2>. QED
    BY <1>3, <1>4, <2>1 DEF Sane, OnLine, Astray
<1>6. w # Dt => WindowOK(r, w \in q, T)
  <2> SUFFICES ASSUME w # Dt PROVE WindowOK(r, w \in q, T)
    OBVIOUS
  <2>1. WindowOK(mw, w \in q, T)
    BY <1>1 DEF Win
  <2>2. InSync(mw, T) => InSync(r, T)
    BY <1>4 DEF InSync, InOrder
  <2>3. Steady(r, w \in q, T)
    BY <1>4, <1>5, <2>1, <2>2 DEF WindowOK, Steady
  <2>4. ASSUME ~r.blocking, w \notin q, OnLine(r) PROVE r.cur = r.lines[r.top + r.lnum + 1]
    <3>1. OnLine(mw)
      <4>1. mw.lines = <<>> => Len(mw.lines) = 0
        BY <1>1, ModelFacts
      <4>2. OnLine(mw) \/ Astray(mw) \/ (mw.lines = <<>> /\ mw.top = 0 /\ mw.lnum = 0)
        BY <1>4, <2>1, <2>4 DEF WindowOK, Steady
      <4>3. ~Astray(r) /\ ~(Len(mw.lines) = 0 /\ r.top = 0 /\ r.lnum = 0)
        BY <1>4, <2>4 DEF OnLine, Astray
      <4>. QED
        BY <1>5, <4>1, <4>2, <4>3
    <3>. QED
      BY <1>3, <1>4, <2>1, <2>4, <3>1 DEF WindowOK
  <2>. QED
    BY <2>3, <2>4 DEF WindowOK
<1>7. Tied(r, s.lis)
  <2>1. Tied(mw, s.lis)
    BY <1>1 DEF Win
  <2>. QED
    BY <1>4, <2>1 DEF Tied
<1>8. /\ t \in StateType /\ Apart(t, s, w) /\ t.m[w] = r /\ t.lis = s.lis /\ t.sel = s.sel /\ t.fault = s.fault
  BY <1>4, PutFacts
<1>9. SelectionOK(t)
  <2>1. s.sel.active /\ s.sel.owner = w /\ w # Dt => Within(s.sel, r)
    BY <1>1, <1>4, <1>5, SelFacts DEF Within
  <2>. QED
    BY <1>1, <1>4, <2>1, PutSelection, SelFacts
<1> HIDE DEF t
<1>10. Rest(s, w, q, T) /\ Win(t, w, q, T) /\ Known(t, q)
  BY <1>1, <1>4, <1>6, <1>7, <1>8 DEF Rest, Win, Known
<1>11. Safe(t, q, T)
  BY <1>8, <1>9, <1>10, OneWindow
<1>. QED
  BY <1>4, <1>8, <1>11 DEF Edited, t, r

-----------------------------------------------------------------------------
(* Sorting, and where the cursor is put.                                   *)
LEMMA SortedLines ==
  ASSUME NEW lines \in Seq(Recs \cup {Freed}), Len(lines) > 1 => Freed \notin ToSet(lines),
         NEW sort \in [o: Sorts, rev: BOOLEAN]
  PROVE  /\ Sorted(lines, sort) \in Seq(Recs \cup {Freed})
         /\ Len(Sorted(lines, sort)) = Len(lines) /\ ToSet(Sorted(lines, sort)) = ToSet(lines)
         /\ \A i, j \in DOMAIN Sorted(lines, sort) :
              i < j => ~Before(sort, Sorted(lines, sort)[j], Sorted(lines, sort)[i])
<1>1. Len(lines) \in Nat /\ DOMAIN lines = 1..Len(lines) /\ ToSet(lines) \subseteq Recs \cup {Freed}
  BY SeqFacts
<1>2. CASE Len(lines) > 1
  <2>1. lines \in Seq(Recs)
    <3>1. \A i \in 1..Len(lines) : lines[i] \in Recs
      BY <1>1, <1>2 DEF ToSet
    <3>2. lines \in [1..Len(lines) -> Recs]
      BY <1>1, <3>1, LenProperties
    <3>. QED
      BY <1>1, <3>2, IsASeq
  <2>2. /\ Sorted(lines, sort) \in Seq(Recs)
        /\ Len(Sorted(lines, sort)) = Len(lines) /\ ToSet(Sorted(lines, sort)) = ToSet(lines)
        /\ \A i, j \in DOMAIN Sorted(lines, sort) :
             i < j => ~Before(sort, Sorted(lines, sort)[j], Sorted(lines, sort)[i])
    BY <2>1, SortedFacts
  <2>3. Sorted(lines, sort) \in Seq(Recs \cup {Freed})
    BY <2>2, WiderSeq
  <2>. QED
    BY <2>2, <2>3
<1>3. CASE Len(lines) <= 1
  <2>1. Sorted(lines, sort) = lines
    BY <1>3, SortedSingle
  <2>2. \A i, j \in DOMAIN lines : ~(i < j)
    BY <1>1, <1>3
  <2>. QED
    BY <2>1, <2>2
<1>. QED
  BY <1>1, <1>2, <1>3

Marked(mw, p, l) == [mw EXCEPT !.ptop = p, !.plnum = l]

LEMMA RefindFacts ==
  ASSUME NEW mw \in ModelType
  PROVE  \E p, l \in Int : /\ RefindLine(mw) = Marked(mw, p, l)
                           /\ Sane(mw.ptop, mw.plnum) => Sane(p, l)
<1> DEFINE found == {i \in DOMAIN mw.lines : mw.lines[i] = mw.pfval}
           at    == (CHOOSE i \in found : TRUE) - 1
           top   == Maximum(0, mw.ptop + (at - (mw.ptop + mw.plnum)))
           row   == Maximum(0, at - top)
<1>1. mw.ptop \in Int /\ mw.plnum \in Int /\ DOMAIN mw.lines \subseteq Int
  BY ModelFacts
<1>2. mw = Marked(mw, mw.ptop, mw.plnum)
  BY DEF Marked, ModelType
<1>3. CASE found = {} \/ at = mw.ptop + mw.plnum
  <2>1. RefindLine(mw) = mw
    BY <1>3 DEF RefindLine
  <2>. QED
    BY <1>1, <1>2, <2>1
<1>4. CASE ~(found = {} \/ at = mw.ptop + mw.plnum)
  <2>1. RefindLine(mw) = Marked(mw, top, row)
    BY <1>4 DEF RefindLine, Marked
  <2>2. at \in Int
    <3>1. (CHOOSE i \in found : TRUE) \in Int
      BY <1>1, <1>4
    <3>. QED
      BY <3>1
  <2> HIDE DEF at
  <2>3. top \in Int /\ row \in Int /\ top >= 0 /\ row >= 0
    BY <1>1, <2>2 DEF Maximum
  <2> HIDE DEF top, row
  <2>4. Sane(top, row)
    BY <2>3 DEF Sane
  <2>. QED
    BY <2>1, <2>3, <2>4
<1>. QED
  BY <1>3, <1>4

LEMMA RefitFacts ==
  ASSUME NEW mw \in ModelType
  PROVE  \E p, l \in Int :
           /\ Refit(mw) = Marked(mw, p, l)
           /\ Sane(mw.ptop, mw.plnum) =>
                IF Len(mw.lines) = 0 THEN p = 0 /\ l = -1
                ELSE (p = 0 /\ l = -1) \/ (p >= 0 /\ l >= 0 /\ p + l < Len(mw.lines))
<1> DEFINE count == Len(mw.lines)
           size == mw.size
           x == mw.ptop
           y == mw.plnum
           cut == count - x < Minimum(count, size)
           pa == IF cut THEN count - size ELSE x
           la == IF cut THEN y + (x - (count - size)) ELSE y
           lb == IF la > size THEN size - 1 ELSE la
           pc == IF size > count THEN 0 ELSE pa
           lc == IF size > count THEN lb + pa ELSE lb
           l  == IF pc + lc > count - 1 THEN count - pc - 1 ELSE lc
<1>1. x \in Int /\ y \in Int /\ count \in Nat /\ size \in Nat \ {0}
  BY ModelFacts
<1> DEFINE a == IF cut THEN [mw EXCEPT !.ptop = count - size, !.plnum = @ + (x - (count - size))] ELSE mw
           b == IF a.plnum > mw.size THEN [a EXCEPT !.plnum = mw.size - 1] ELSE a
           c == IF mw.size > count THEN [b EXCEPT !.ptop = 0, !.plnum = @ + b.ptop] ELSE b
           d == IF c.ptop + c.plnum > count - 1 THEN [c EXCEPT !.plnum = count - c.ptop - 1] ELSE c
<1>2. Refit(mw) = d
  BY DEF Refit
<1> HIDE DEF cut
<1>3. a = Marked(mw, pa, la) /\ a.ptop = pa /\ a.plnum = la
  BY DEF Marked, ModelType
<1> HIDE DEF a, pa, la
<1>4. b = Marked(mw, pa, lb) /\ b.ptop = pa /\ b.plnum = lb
  BY <1>3 DEF Marked, ModelType
<1> HIDE DEF b, lb
<1>5. c = Marked(mw, pc, lc) /\ c.ptop = pc /\ c.plnum = lc
  BY <1>4 DEF Marked, ModelType
<1> HIDE DEF c, pc, lc
<1>6. d = Marked(mw, pc, l)
  BY <1>5 DEF Marked, ModelType
<1> HIDE DEF d, l, x, y, count, size
<1>7. pa \in Int /\ la \in Int
  BY <1>1 DEF pa, la
<1>8. lb \in Int /\ pc \in Int /\ lc \in Int /\ l \in Int
  BY <1>1, <1>7 DEF lb, pc, lc, l
<1>9. ASSUME Sane(x, y)
      PROVE  IF count = 0 THEN pc = 0 /\ l = -1
             ELSE (pc = 0 /\ l = -1) \/ (pc >= 0 /\ l >= 0 /\ pc + l < count)
  <2>1. CASE size > count
    BY <1>1, <1>7, <1>8, <1>9, <2>1 DEF Sane, pa, la, lb, pc, lc, l, cut, Minimum
  <2>2. CASE size <= count
    BY <1>1, <1>7, <1>8, <1>9, <2>2 DEF Sane, pa, la, lb, pc, lc, l, cut, Minimum
  <2>. QED
    BY <1>1, <2>1, <2>2
<1>. QED
  BY <1>2, <1>6, <1>8, <1>9 DEF x, y, count

LEMMA PrevFacts ==
  ASSUME NEW s \in StateType, NEW w \in Windows
  PROVE  LET t == ModelSetPrev(s, w)
             mw == s.m[w]
         IN  /\ t \in StateType /\ Apart(t, s, w) /\ t.sel = s.sel
             /\ t.fault = IF mw.cur = Freed /\ s.fault[1] = "none" THEN <<"freed", w>> ELSE s.fault
             /\ t.m[w] = [mw EXCEPT !.pfval = IF mw.cur = NULL THEN mw.pfval ELSE mw.cur,
                                    !.ptop = mw.top, !.plnum = mw.lnum]
<1> DEFINE mw == s.m[w]
           n == [mw EXCEPT !.pfval = IF mw.cur = NULL THEN mw.pfval ELSE mw.cur,
                           !.ptop = mw.top, !.plnum = mw.lnum]
           s1 == Deref(s, {mw.cur}, w)
<1>1. mw \in ModelType
  BY StateFacts
<1>2. n \in ModelType
  BY <1>1 DEF ModelType
<1>3. /\ s1 \in StateType /\ s1.m = s.m /\ s1.lis = s.lis /\ s1.sel = s.sel
      /\ s1.fault = IF mw.cur = Freed /\ s.fault[1] = "none" THEN <<"freed", w>> ELSE s.fault
  BY DerefFacts
<1>4. ModelSetPrev(s, w) = Put(s1, w, n)
  <2>1. n = [mw EXCEPT !.pfval = IF mw.cur = NULL THEN @ ELSE mw.cur, !.ptop = mw.top, !.plnum = mw.lnum]
    OBVIOUS
  <2> HIDE DEF n
  <2>. QED
    BY <2>1 DEF ModelSetPrev, Put
<1> HIDE DEF n, s1
<1>5. LET t == Put(s1, w, n) IN
      /\ t \in StateType /\ Apart(t, s1, w) /\ t.sel = s1.sel /\ t.fault = s1.fault /\ t.m[w] = n
  BY <1>2, <1>3, PutFacts
<1>. QED
  BY <1>3, <1>4, <1>5 DEF Apart, n

LEMMA MarkedFacts ==
  ASSUME NEW mw \in ModelType, NEW p \in Int, NEW l \in Int
  PROVE  LET c == Marked(mw, p, l) IN
         /\ c \in ModelType /\ c.ptop = p /\ c.plnum = l
         /\ c.key = mw.key /\ c.blocking = mw.blocking /\ c.cur = mw.cur /\ c.head = mw.head
         /\ c.lis = mw.lis /\ c.lines = mw.lines /\ c.sort = mw.sort /\ c.filter = mw.filter
         /\ c.size = mw.size /\ c.top = mw.top /\ c.lnum = mw.lnum
BY DEF Marked, ModelType

LEMMA PlacedFields ==
  ASSUME NEW mw \in ModelType, NEW p \in Int, NEW l \in Int
  PROVE  LET c == Placed(mw, p, l) IN
         /\ c \in ModelType /\ c.ptop = mw.ptop /\ c.plnum = mw.plnum
         /\ c.key = mw.key /\ c.blocking = mw.blocking /\ c.cur = mw.cur /\ c.head = mw.head
         /\ c.lis = mw.lis /\ c.lines = mw.lines /\ c.sort = mw.sort /\ c.filter = mw.filter
         /\ c.size = mw.size /\ c.top = p /\ c.lnum = l
BY DEF Placed, ModelType

SameBut(nm, mw) ==
  /\ nm.key = mw.key /\ nm.blocking = mw.blocking /\ nm.head = mw.head /\ nm.lis = mw.lis
  /\ nm.sort = mw.sort /\ nm.filter = mw.filter /\ nm.size = mw.size

(* What model_sort leaves behind.                                          *)
Resorted(nm, mw) ==
  /\ ToSet(nm.lines) = ToSet(mw.lines) /\ Len(nm.lines) = Len(mw.lines) /\ InOrder(nm)
  /\ nm.cur = IF At(nm) = NULL THEN mw.cur ELSE At(nm)
  /\ OnLine(nm) => nm.cur = nm.lines[nm.top + nm.lnum + 1]
  /\ Sane(IF mw.blocking THEN mw.ptop ELSE mw.top, IF mw.blocking THEN mw.plnum ELSE mw.lnum)
     => /\ Sane(nm.ptop, nm.plnum) /\ Sane(nm.top, nm.lnum) /\ (OnLine(nm) \/ Astray(nm))

LEMMA SortResult ==
  ASSUME NEW s \in StateType, NEW w \in Windows, s.fault[1] = "none"
  PROVE  LET t == ModelSort(s, w)
             mw == s.m[w]
             nm == t.m[w]
         IN  /\ t \in StateType /\ Apart(t, s, w) /\ SameBut(nm, mw)
             /\ \/ /\ t.fault = <<"freed", w>>
                   /\ Freed \in ToSet(mw.lines) \/ (~mw.blocking /\ mw.cur = Freed)
                \/ /\ t.fault = <<"value", w>> /\ nm.cur = mw.cur
                   /\ IF mw.blocking THEN mw.pfval = NULL ELSE mw.cur = NULL
                \/ t.fault = s.fault /\ t.sel = SelectClear(s, w).sel /\ Resorted(nm, mw)
<1> DEFINE mw == s.m[w]
           s1 == IF mw.blocking THEN s ELSE ModelSetPrev(s, w)
           m1 == s1.m[w]
           read == IF Len(m1.lines) > 1 THEN Deref(s1, ToSet(m1.lines), w) ELSE s1
           nullval == m1.pfval = NULL /\ \E k \in (IF w = Dt THEN {Procs} ELSE Dirs) : tbl[k] # <<>>
           srt == [m1 EXCEPT !.lines = Sorted(@, m1.sort)]
           fit == Refit(RefindLine(srt))
           t == ModelSort(s, w)
<1>1. mw \in ModelType
  BY StateFacts
<1>2. /\ s1 \in StateType /\ Apart(s1, s, w) /\ s1.sel = s.sel
      /\ \/ s1.fault = s.fault
         \/ s1.fault = <<"freed", w>> /\ ~mw.blocking /\ mw.cur = Freed
      /\ SameBut(m1, mw) /\ m1.cur = mw.cur /\ m1.lines = mw.lines
      /\ m1.pfval = NULL => IF mw.blocking THEN mw.pfval = NULL ELSE mw.cur = NULL
      /\ m1.ptop = (IF mw.blocking THEN mw.ptop ELSE mw.top)
      /\ m1.plnum = (IF mw.blocking THEN mw.plnum ELSE mw.lnum)
  <2>1. CASE mw.blocking
    BY <2>1 DEF Apart, SameBut
  <2>2. CASE ~mw.blocking
    <3> DEFINE p == ModelSetPrev(s, w)
    <3>1. /\ p \in StateType /\ Apart(p, s, w) /\ p.sel = s.sel
          /\ p.fault = IF mw.cur = Freed /\ s.fault[1] = "none" THEN <<"freed", w>> ELSE s.fault
          /\ p.m[w] = [mw EXCEPT !.pfval = IF mw.cur = NULL THEN mw.pfval ELSE mw.cur,
                                 !.ptop = mw.top, !.plnum = mw.lnum]
      BY PrevFacts
    <3>2. s1 = p
      BY <2>2
    <3> HIDE DEF p, s1
    <3>3. /\ SameBut(p.m[w], mw) /\ p.m[w].cur = mw.cur /\ p.m[w].lines = mw.lines
          /\ p.m[w].pfval = IF mw.cur = NULL THEN mw.pfval ELSE mw.cur
          /\ p.m[w].ptop = mw.top /\ p.m[w].plnum = mw.lnum
      BY <1>1, <3>1 DEF SameBut, ModelType
    <3>. QED
      BY <2>2, <3>1, <3>2, <3>3
  <2>. QED
    BY <2>1, <2>2
<1>3. m1 \in ModelType /\ s1.m \in [Windows -> ModelType]
  BY <1>2, StateFacts
<1> HIDE DEF s1
<1>4. t = IF read.fault[1] # "none" THEN read
          ELSE IF nullval THEN Fault(s1, "value", w)
          ELSE BufFullInvalidate([s1 EXCEPT !.m[w] = fit], w, fit.ptop, fit.plnum)
  BY DEF ModelSort, s1
<1>5. /\ read \in StateType /\ read.m = s1.m /\ read.lis = s1.lis /\ read.sel = s1.sel
      /\ \/ read.fault = s1.fault
         \/ read.fault = <<"freed", w>> /\ Freed \in ToSet(m1.lines)
      /\ read.fault[1] = "none" /\ Len(m1.lines) > 1 => Freed \notin ToSet(m1.lines)
  <2>1. CASE Len(m1.lines) > 1
    <3> DEFINE r == Deref(s1, ToSet(m1.lines), w)
    <3>1. /\ r \in StateType /\ r.m = s1.m /\ r.lis = s1.lis /\ r.sel = s1.sel
          /\ r.fault = IF Freed \in ToSet(m1.lines) /\ s1.fault[1] = "none"
                                      THEN <<"freed", w>> ELSE s1.fault
      BY <1>2, DerefFacts
    <3>2. read = r
      BY <2>1
    <3> HIDE DEF r, read
    <3>. QED
      BY <3>1, <3>2
  <2>2. CASE ~(Len(m1.lines) > 1)
    BY <1>2, <2>2
  <2>. QED
    BY <2>1, <2>2
<1> HIDE DEF read, nullval, t
<1>6. CASE read.fault[1] # "none"
  <2>1. t = read
    BY <1>4, <1>6
  <2>2. read.fault = <<"freed", w>> /\ (Freed \in ToSet(mw.lines) \/ (~mw.blocking /\ mw.cur = Freed))
    BY <1>2, <1>5, <1>6
  <2>. QED
    BY <1>2, <1>5, <2>1, <2>2 DEF Apart, t
<1>7. CASE read.fault[1] = "none" /\ nullval
  <2>1. t = Fault(s1, "value", w)
    BY <1>4, <1>7
  <2>2. s1.fault[1] = "none"
    BY <1>5, <1>7, <1>2
  <2>3. t \in StateType /\ t.m = s1.m /\ t.lis = s1.lis /\ t.sel = s1.sel /\ t.fault = <<"value", w>>
    BY <1>2, <2>1, <2>2, FaultFacts DEF Faults
  <2>. QED
    BY <1>2, <1>7, <2>3 DEF Apart, t, nullval
<1>8. CASE read.fault[1] = "none" /\ ~nullval
  <2>1. t = BufFullInvalidate([s1 EXCEPT !.m[w] = fit], w, fit.ptop, fit.plnum)
    BY <1>4, <1>8
  <2>2. s1.fault = s.fault
    <3>1. read.fault = s1.fault
      BY <1>5, <1>8
    <3>. QED
      BY <1>2, <1>8, <3>1
  <2> DEFINE out == Sorted(m1.lines, m1.sort)
  <2>3. /\ out \in Seq(Recs \cup {Freed}) /\ Len(out) = Len(m1.lines) /\ ToSet(out) = ToSet(m1.lines)
        /\ \A i, j \in DOMAIN out : i < j => ~Before(m1.sort, out[j], out[i])
    BY <1>3, <1>5, <1>8, SortedLines, ModelFacts
  <2>4. /\ srt \in ModelType /\ srt.lines = out /\ SameBut(srt, m1) /\ srt.cur = m1.cur
        /\ srt.ptop = m1.ptop /\ srt.plnum = m1.plnum
    <3>1. srt = [m1 EXCEPT !.lines = out]
      OBVIOUS
    <3> HIDE DEF out, srt
    <3>. QED
      BY <1>3, <2>3, <3>1 DEF SameBut, ModelType
  <2> HIDE DEF srt, out
  <2>5. PICK p1 \in Int, l1 \in Int : /\ RefindLine(srt) = Marked(srt, p1, l1)
                                      /\ Sane(srt.ptop, srt.plnum) => Sane(p1, l1)
    BY <2>4, RefindFacts
  <2> DEFINE rf == Marked(srt, p1, l1)
  <2>6. /\ rf \in ModelType /\ rf.ptop = p1 /\ rf.plnum = l1 /\ rf.lines = out
        /\ SameBut(rf, m1) /\ rf.cur = m1.cur
    BY <2>4, MarkedFacts DEF SameBut
  <2> HIDE DEF rf
  <2>7. PICK p \in Int, l \in Int :
           /\ Refit(rf) = Marked(rf, p, l)
           /\ Sane(p1, l1) =>
                IF Len(out) = 0 THEN p = 0 /\ l = -1
                ELSE (p = 0 /\ l = -1) \/ (p >= 0 /\ l >= 0 /\ p + l < Len(out))
    BY <2>6, RefitFacts
  <2>8. fit = Marked(rf, p, l)
    BY <2>5, <2>7 DEF rf
  <2> HIDE DEF fit
  <2>9. /\ fit \in ModelType /\ fit.ptop = p /\ fit.plnum = l /\ fit.lines = out
        /\ SameBut(fit, m1) /\ fit.cur = m1.cur
    BY <2>6, <2>8, MarkedFacts DEF SameBut
  <2> DEFINE z == SelectClear(s1, w)
             c == Placed(fit, p, l)
  <2>10. /\ z \in StateType /\ z.m = s1.m /\ z.lis = s1.lis /\ z.fault = s1.fault /\ ~Extends(z, w)
    BY <1>2, ClearFacts
  <2>11. /\ c \in ModelType /\ c.lines = out /\ SameBut(c, m1) /\ c.cur = m1.cur
         /\ c.ptop = p /\ c.plnum = l /\ c.top = p /\ c.lnum = l
    BY <2>9, PlacedFields DEF SameBut
  <2>12. t = BufCursMove(Put(z, w, c), w)
    <3>1. [s1 EXCEPT !.m[w] = fit] = Put(s1, w, fit)
      BY DEF Put
    <3>2. SelectClear(Put(s1, w, fit), w) = Put(z, w, fit)
      <4>1. Put(s1, w, fit).sel = s1.sel
        BY <1>2, <2>9, PutFacts
      <4>. QED
        BY <1>2, <4>1, StateFacts DEF SelectClear, Put
    <3>3. [Put(z, w, fit) EXCEPT !.m[w].top = p, !.m[w].lnum = l] = Put(z, w, c)
      <4> DEFINE y == Put(z, w, fit)
      <4>1. y \in StateType /\ y.m[w] = fit
        BY <2>9, <2>10, PutFacts
      <4>2. Put(y, w, c) = Put(z, w, c)
        BY <2>10, PutTwice
      <4> HIDE DEF y
      <4>3. y.m \in [Windows -> ModelType] /\ y = [m |-> y.m, lis |-> y.lis, sel |-> y.sel, fault |-> y.fault]
        BY <4>1, StateFacts
      <4>4. [y EXCEPT !.m[w].top = p, !.m[w].lnum = l] = Put(y, w, Placed(y.m[w], p, l))
        BY <4>3 DEF Put, Placed, ModelType
      <4>. QED
        BY <4>1, <4>2, <4>4 DEF y
    <3>. QED
      BY <2>1, <2>9, <3>1, <3>2, <3>3 DEF BufFullInvalidate, BufMoveInvalid
  <2> HIDE DEF z, c
  <2>13. /\ Apart(t, z, w) /\ t.m[w] = ReadAt(c) /\ t.sel = z.sel
         /\ \/ t.fault = z.fault
            \/ t.fault = <<"freed", w>> /\ At(c) = Freed
    BY <2>10, <2>11, <2>12, MoveFacts
  <2>14. z.sel = SelectClear(s, w).sel
    BY <1>2 DEF z, SelectClear, StateType
  <2> DEFINE nm == ReadAt(c)
  <2>15. /\ nm \in ModelType /\ nm = [c EXCEPT !.cur = nm.cur]
         /\ nm.cur = IF At(c) = NULL THEN c.cur ELSE At(c)
         /\ At(c) # NULL => At(c) \in ToSet(out)
         /\ OnLine(c) => At(c) = out[p + l + 1] /\ At(c) # NULL
    BY <2>11, AtFacts
  <2> HIDE DEF nm
  <2>16. /\ nm.lines = out /\ SameBut(nm, mw) /\ nm.top = p /\ nm.lnum = l /\ nm.ptop = p /\ nm.plnum = l
         /\ nm.sort = m1.sort
    BY <1>2, <2>11, <2>15 DEF SameBut, ModelType
  <2>17. (OnLine(nm) <=> OnLine(c)) /\ At(nm) = At(c)
    BY <2>11, <2>16 DEF OnLine, At
  <2>18. Resorted(nm, mw)
    <3>1. ToSet(nm.lines) = ToSet(mw.lines) /\ Len(nm.lines) = Len(mw.lines)
      BY <1>2, <2>3, <2>16
    <3>2. InOrder(nm)
      BY <2>3, <2>16 DEF InOrder
    <3>3. nm.cur = (IF At(nm) = NULL THEN mw.cur ELSE At(nm))
          /\ (OnLine(nm) => nm.cur = nm.lines[nm.top + nm.lnum + 1])
      BY <1>2, <2>11, <2>15, <2>16, <2>17
    <3>4. ASSUME Sane(m1.ptop, m1.plnum)
          PROVE  Sane(p, l) /\ (OnLine(nm) \/ Astray(nm))
      BY <2>4, <2>5, <2>7, <2>16, <3>4 DEF Sane, OnLine, Astray
    <3>. QED
      BY <1>2, <2>16, <3>1, <3>2, <3>3, <3>4 DEF Resorted
  <2>19. t \in StateType /\ Apart(t, s, w)
    BY <1>2, <2>10, <2>13 DEF Apart
  <2>20. At(c) = Freed => Freed \in ToSet(mw.lines)
    <3>1. Freed # NULL
      BY ListsAssumption
    <3>. QED
      BY <1>2, <2>3, <2>15, <3>1
  <2>. QED
    BY <2>2, <2>10, <2>13, <2>14, <2>16, <2>18, <2>19, <2>20 DEF t, nm
<1>. QED
  BY <1>6, <1>7, <1>8

(* Lines that may be in any order, before they are sorted.                 *)
Unordered(mw, unsaid, T) ==
  /\ mw.key \in Dirs \cup {NULL} /\ mw.lis \in Dirs \cup {NULL}
  /\ Sane(mw.top, mw.lnum) /\ Sane(mw.ptop, mw.plnum)
  /\ mw.blocking => unsaid
  /\ ~mw.blocking => mw.key # NULL
  /\ ~unsaid => /\ mw.head \in {mw.key, NULL} /\ mw.cur \in ToSet(T[mw.key]) \cup {NULL}
                /\ ToSet(mw.lines) = ToSet(Matching(T[mw.key], mw.filter))

LEMMA SortSafe ==
  ASSUME NEW s \in StateType, NEW w \in Windows, NEW q, NEW T, TblType(T),
         s.fault[1] = "none", Rest(s, w, q, T), Tied(s.m[w], s.lis),
         w = Dt => s.m[w].key \in {Procs, NULL}, w # Dt => Unordered(s.m[w], w \in q, T),
         s.sel.enabled => s.sel.active, s.sel.active => s.sel.owner \in Windows,
         s.sel.active /\ s.sel.owner # w /\ s.sel.owner # Dt => Within(s.sel, s.m[s.sel.owner])
  PROVE  LET t == ModelSort(s, w) IN
         Edited(t, s, w, q, T)
<1> DEFINE t == ModelSort(s, w)
           mw == s.m[w]
           nm == t.m[w]
<1>1. /\ t \in StateType /\ Apart(t, s, w) /\ SameBut(nm, mw)
      /\ \/ /\ t.fault = <<"freed", w>>
            /\ Freed \in ToSet(mw.lines) \/ (~mw.blocking /\ mw.cur = Freed)
         \/ /\ t.fault = <<"value", w>> /\ nm.cur = mw.cur
            /\ IF mw.blocking THEN mw.pfval = NULL ELSE mw.cur = NULL
         \/ t.fault = s.fault /\ t.sel = SelectClear(s, w).sel /\ Resorted(nm, mw)
  BY SortResult
<1>2. mw \in ModelType /\ nm \in ModelType
  BY <1>1, StateFacts
<1> HIDE DEF t, mw, nm
<1>3. ASSUME w # Dt, w \notin q
      PROVE  /\ Freed \notin ToSet(mw.lines) /\ mw.cur # Freed /\ ~mw.blocking /\ mw.key \in Keys
             /\ ToSet(mw.lines) \subseteq ToSet(T[mw.key])
  <2>1. Unordered(mw, FALSE, T)
    BY <1>3 DEF mw, Unordered
  <2>2. ~mw.blocking /\ mw.key \in Keys
    BY <2>1 DEF Unordered, Keys
  <2>3. /\ ToSet(Matching(T[mw.key], mw.filter)) \subseteq ToSet(T[mw.key])
        /\ Freed \notin ToSet(T[mw.key])
    BY <2>2, MatchFacts, TableFacts
  <2>4. Freed # NULL
    BY ListsAssumption
  <2>. QED
    BY <2>1, <2>2, <2>3, <2>4 DEF Unordered
<1>4. Known(t, q)
  <2>1. CASE t.fault = <<"freed", w>> /\ (Freed \in ToSet(mw.lines) \/ (~mw.blocking /\ mw.cur = Freed))
    BY <1>3, <2>1 DEF Known
  <2>2. CASE /\ t.fault = <<"value", w>> /\ nm.cur = mw.cur
             /\ IF mw.blocking THEN mw.pfval = NULL ELSE mw.cur = NULL
    BY <1>1, <2>2 DEF Known, SameBut, nm
  <2>3. CASE t.fault = s.fault
    BY <2>3 DEF Known
  <2>. QED
    BY <1>1, <2>1, <2>2, <2>3
<1>5. ASSUME t.fault[1] = "none" PROVE Win(t, w, q, T) /\ SelectionOK(t)
  <2>1. t.sel = SelectClear(s, w).sel /\ Resorted(nm, mw)
    BY <1>1, <1>5
  <2>2. /\ ToSet(nm.lines) = ToSet(mw.lines) /\ Len(nm.lines) = Len(mw.lines) /\ InOrder(nm)
        /\ nm.cur = IF At(nm) = NULL THEN mw.cur ELSE At(nm)
        /\ OnLine(nm) => nm.cur = nm.lines[nm.top + nm.lnum + 1]
        /\ At(nm) # NULL => At(nm) \in ToSet(nm.lines) /\ nm.lines # <<>>
        /\ nm.lines = <<>> <=> Len(nm.lines) = 0
        /\ mw.lines = <<>> <=> Len(mw.lines) = 0
    BY <1>2, <2>1, AtFacts, ModelFacts DEF Resorted
  <2>3. Tied(nm, t.lis)
    <3>1. Tied(mw, s.lis) /\ t.lis = s.lis
      BY <1>1 DEF Apart, mw
    <3>. QED
      BY <1>1, <2>2, <3>1 DEF Tied, SameBut
  <2>4. ASSUME w # Dt PROVE WindowOK(nm, w \in q, T)
    <3>1. Unordered(mw, w \in q, T)
      BY <2>4 DEF mw
    <3>2. Sane(nm.ptop, nm.plnum) /\ Sane(nm.top, nm.lnum) /\ (OnLine(nm) \/ Astray(nm))
      <4>1. Sane(IF mw.blocking THEN mw.ptop ELSE mw.top, IF mw.blocking THEN mw.plnum ELSE mw.lnum)
        BY <3>1 DEF Unordered
      <4>. QED
        BY <2>1, <4>1 DEF Resorted
    <3>3. ASSUME w \notin q PROVE InSync(nm, T)
      <4>1. /\ mw.head \in {mw.key, NULL} /\ mw.cur \in ToSet(T[mw.key]) \cup {NULL}
            /\ ToSet(mw.lines) = ToSet(Matching(T[mw.key], mw.filter))
        BY <3>1, <3>3 DEF Unordered
      <4>2. nm.cur \in ToSet(T[mw.key]) \cup {NULL}
        BY <1>3, <2>2, <2>4, <3>3, <4>1
      <4>. QED
        BY <1>1, <2>2, <4>1, <4>2 DEF InSync, SameBut
    <3>4. Steady(nm, w \in q, T)
      BY <1>1, <3>1, <3>2, <3>3 DEF Unordered, Steady, SameBut
    <3>. QED
      BY <2>2, <3>4 DEF WindowOK
  <2>5. w = Dt => nm.key \in {Procs, NULL}
    BY <1>1 DEF SameBut, mw
  <2>6. Win(t, w, q, T)
    BY <2>3, <2>4, <2>5 DEF Win, nm
  <2>7. SelectionOK(t)
    <3> DEFINE z == SelectClear(s, w)
    <3>1. /\ s.sel.owner # w => z = s
          /\ s.sel.owner = w => ~z.sel.enabled /\ ~z.sel.active
          /\ z.sel.owner = s.sel.owner
      BY ClearFacts
    <3> HIDE DEF z
    <3>2. t.sel = z.sel
      BY <2>1 DEF z
    <3>. QED
      BY <1>1, <3>1, <3>2, SelFacts DEF Apart
  <2>. QED
    BY <2>6, <2>7
<1>6. Safe(t, q, T)
  BY <1>1, <1>4, <1>5, OneWindow
<1>. QED
  BY <1>1, <1>6 DEF Edited, t, mw, nm, SameBut

LEMMA SortedAgain ==
  ASSUME NEW s \in StateType, NEW w \in Windows, NEW q, NEW T, TblType(T),
         s.fault[1] = "none", Safe(s, q, T), ~s.m[w].blocking, NEW o \in Sorts, NEW rev \in BOOLEAN
  PROVE  LET t == ModelSort([s EXCEPT !.m[w].sort = [o |-> o, rev |-> rev]], w) IN
         Edited(t, s, w, q, T)
<1> DEFINE mw == s.m[w]
           nm == [mw EXCEPT !.sort = [o |-> o, rev |-> rev]]
           z == Put(s, w, nm)
<1>1. /\ mw \in ModelType
      /\ (\A v \in Windows : Win(s, v, q, T)) /\ SelectionOK(s)
  BY StateFacts, SafeFacts
<1>2. /\ nm \in ModelType /\ nm.key = mw.key /\ nm.blocking = mw.blocking /\ nm.cur = mw.cur
      /\ nm.head = mw.head /\ nm.lis = mw.lis /\ nm.ptop = mw.ptop /\ nm.plnum = mw.plnum
      /\ nm.lines = mw.lines /\ nm.filter = mw.filter /\ nm.top = mw.top /\ nm.lnum = mw.lnum
  BY <1>1 DEF ModelType
<1>3. [s EXCEPT !.m[w].sort = [o |-> o, rev |-> rev]] = z
  BY DEF Put
<1> HIDE DEF nm
<1>4. z \in StateType /\ Apart(z, s, w) /\ z.m[w] = nm /\ z.lis = s.lis /\ z.sel = s.sel /\ z.fault = s.fault
  BY <1>2, PutFacts
<1> HIDE DEF z
<1>5. Tied(nm, s.lis) /\ (w = Dt => nm.key \in {Procs, NULL}) /\ (w # Dt => Unordered(nm, w \in q, T))
  BY <1>1, <1>2 DEF Win, WindowOK, Steady, Unordered, InSync, Tied
<1>6. Rest(z, w, q, T)
  BY <1>1, <1>4 DEF Rest, Win, Apart
<1>7. /\ z.sel.enabled => z.sel.active
      /\ z.sel.active => z.sel.owner \in Windows
      /\ z.sel.active /\ z.sel.owner # w /\ z.sel.owner # Dt => Within(z.sel, z.m[z.sel.owner])
  BY <1>1, <1>4, SelFacts DEF Apart
<1>8. LET t == ModelSort(z, w) IN
      Edited(t, z, w, q, T)
  BY <1>4, <1>5, <1>6, <1>7, SortSafe
<1>. QED
  BY <1>2, <1>3, <1>4, <1>8 DEF Edited, Apart

(* A filter that is typed.  Who waits has lines of another directory then. *)
LEMMA FilteredSafe ==
  ASSUME NEW s \in StateType, NEW w \in Windows, NEW q, TblType(tbl), s.fault[1] = "none",
         Safe(s, q, tbl), NEW pattern \in SUBSET Names
  PROVE  LET f == FilterBuild(s, w, pattern)
             t == IF f.fault[1] = "none" THEN ModelSort(f, w) ELSE f
             r == IF s.m[w].blocking THEN q \cup {w} ELSE q
         IN  Edited(t, s, w, r, tbl)
<1> DEFINE mw == s.m[w]
           f == FilterBuild(s, w, pattern)
           t == IF f.fault[1] = "none" THEN ModelSort(f, w) ELSE f
           r == IF mw.blocking THEN q \cup {w} ELSE q
           m1 == [mw EXCEPT !.filter = pattern]
           m2 == [mw EXCEPT !.filter = pattern, !.lines = Matching(tbl[mw.head], pattern)]
           s1 == Put(s, w, m1)
           s2 == Put(s, w, m2)
<1>1. /\ mw \in ModelType
      /\ (\A v \in Windows : Win(s, v, q, tbl)) /\ SelectionOK(s)
  BY StateFacts, SafeFacts
<1>2. m1 \in ModelType /\ m1.head = mw.head /\ m1.key = mw.key
  BY <1>1 DEF ModelType
<1>3. f = IF mw.head = NULL THEN Fault(s1, "head", w)
          ELSE IF mw.head = Freed THEN Fault(s1, "freed", w) ELSE s2
  <2>1. [s EXCEPT !.m[w].filter = pattern] = s1
    BY DEF Put
  <2>2. [s1 EXCEPT !.m[w].lines = Matching(tbl[mw.head], pattern)] = s2
    <3>1. /\ s1 \in StateType /\ s1.m[w] = m1
          /\ \A x : Put(s1, w, x) = Put(s, w, x)
      BY <1>2, PutFacts, PutTwice
    <3> HIDE DEF s1
    <3>2. [s1 EXCEPT !.m[w].lines = Matching(tbl[mw.head], pattern)]
          = Put(s1, w, [s1.m[w] EXCEPT !.lines = Matching(tbl[mw.head], pattern)])
      BY DEF Put
    <3>3. [m1 EXCEPT !.lines = Matching(tbl[mw.head], pattern)] = m2
      BY <1>1 DEF ModelType
    <3>. QED
      BY <3>1, <3>2, <3>3
  <2> HIDE DEF s1, s2
  <2>. QED
    BY <2>1, <2>2 DEF FilterBuild
<1> HIDE DEF m1, s1
<1>4. /\ s1 \in StateType /\ Apart(s1, s, w) /\ s1.m[w] = m1 /\ s1.sel = s.sel /\ s1.fault = s.fault
  BY <1>2, PutFacts DEF s1
<1>5. \A v \in Windows \ {w} : v \in r <=> v \in q
  OBVIOUS
<1>6. Rest(s, w, r, tbl)
  BY <1>1, <1>5 DEF Rest, Win
<1> HIDE DEF r
<1>7. CASE mw.head \in {NULL, Freed}
  <2>1. PICK what \in {"head", "freed"} :
          /\ f = Fault(s1, what, w)
          /\ (what = "head" /\ mw.head = NULL) \/ (what = "freed" /\ mw.head = Freed)
    BY <1>3, <1>7
  <2> HIDE DEF f, s2
  <2>2. f \in StateType /\ f.m = s1.m /\ f.lis = s1.lis /\ f.fault = <<what, w>>
    <3>1. what \in Faults
      BY DEF Faults
    <3> DEFINE g == Fault(s1, what, w)
    <3>2. /\ g \in StateType /\ g.m = s1.m /\ g.lis = s1.lis
          /\ g.fault = IF s1.fault[1] = "none" THEN <<what, w>> ELSE s1.fault
      BY <1>4, <3>1, FaultFacts
    <3> HIDE DEF g
    <3>3. f = g
      BY <2>1 DEF g
    <3>. QED
      BY <1>4, <3>2, <3>3
  <2>3. t = f /\ f.m[w].head = mw.head
    BY <1>2, <1>4, <2>2
  <2>4. mw.head = Freed => w = Dt \/ w \in r
    <3> SUFFICES ASSUME mw.head = Freed, w # Dt, w \notin r PROVE FALSE
      OBVIOUS
    <3>1. ~mw.blocking /\ w \notin q
      BY DEF r
    <3>2. mw.head \in {mw.key, NULL} /\ mw.key \in Dirs \cup {NULL}
      BY <1>1, <3>1 DEF Win, WindowOK, Steady, InSync
    <3>. QED
      BY <3>2, ListsAssumption DEF Keys
  <2>5. Known(f, r)
    BY <2>1, <2>2, <2>3, <2>4 DEF Known
  <2>6. Safe(f, r, tbl)
    BY <2>1, <2>2, <2>5, SafeFacts
  <2>. QED
    BY <1>2, <1>4, <2>2, <2>3, <2>6 DEF Edited, Apart, f, r
<1>8. CASE mw.head \notin {NULL, Freed}
  <2>1. mw.head \in Keys
    BY <1>1, <1>8 DEF ModelType
  <2>2. f = s2
    BY <1>3, <1>8
  <2>3. Matching(tbl[mw.head], pattern) \in Seq(Recs \cup {Freed})
    BY <2>1, MatchFacts
  <2>4. /\ m2 \in ModelType /\ m2.key = mw.key /\ m2.blocking = mw.blocking /\ m2.cur = mw.cur
        /\ m2.head = mw.head /\ m2.lis = mw.lis /\ m2.ptop = mw.ptop /\ m2.plnum = mw.plnum
        /\ m2.lines = Matching(tbl[mw.head], pattern) /\ m2.filter = pattern
        /\ m2.top = mw.top /\ m2.lnum = mw.lnum
    BY <1>1, <2>3 DEF ModelType
  <2> HIDE DEF m2, f
  <2>5. s2 \in StateType /\ Apart(s2, s, w) /\ s2.m[w] = m2 /\ s2.lis = s.lis /\ s2.sel = s.sel /\ s2.fault = s.fault
    BY <2>4, PutFacts
  <2> HIDE DEF s2
  <2>6. Tied(m2, s.lis)
    BY <1>1, <1>8, <2>4 DEF Win, Tied
  <2>7. w = Dt => m2.key \in {Procs, NULL}
    BY <1>1, <2>4 DEF Win
  <2>8. ASSUME w # Dt PROVE Unordered(m2, w \in r, tbl)
    <3>1. Steady(mw, w \in q, tbl)
      BY <1>1, <2>8 DEF Win, WindowOK
    <3>2. w \in r <=> w \in q \/ mw.blocking
      BY DEF r
    <3>3. ASSUME w \notin r PROVE mw.head = mw.key /\ mw.cur \in ToSet(tbl[mw.key]) \cup {NULL}
      BY <1>8, <3>1, <3>2, <3>3 DEF Steady, InSync
    <3>. QED
      BY <2>4, <3>1, <3>2, <3>3 DEF Unordered, Steady
  <2>9. Rest(s2, w, r, tbl)
    BY <1>6, <2>5 DEF Rest, Win, Apart
  <2>10. /\ s2.sel.enabled => s2.sel.active
         /\ s2.sel.active => s2.sel.owner \in Windows
         /\ s2.sel.active /\ s2.sel.owner # w /\ s2.sel.owner # Dt => Within(s2.sel, s2.m[s2.sel.owner])
    BY <1>1, <2>5, SelFacts DEF Apart
  <2>11. LET x == ModelSort(s2, w) IN
         Edited(x, s2, w, r, tbl)
    BY <2>5, <2>6, <2>7, <2>8, <2>9, <2>10, SortSafe
  <2>12. t = ModelSort(s2, w)
    BY <2>2, <2>5
  <2>. QED
    BY <2>4, <2>5, <2>11, <2>12 DEF Edited, Apart, f, r
<1>. QED
  BY <1>7, <1>8

-----------------------------------------------------------------------------
(* One window after the other: the function a fold over a finite set is    *)
(* defined by exists, when its steps stay in a set.                        *)
Picked(U) == CHOOSE x \in U : TRUE

IsStep(op, W, X) == op \in [X \X W -> X]
IsFold(g, W, X, s, op) ==
  /\ g \in [SUBSET W -> X]
  /\ \A U \in SUBSET W : g[U] = IF U = {} THEN s ELSE op[<<g[U \ {Picked(U)}], Picked(U)>>]

LEMMA FoldExists ==
  ASSUME NEW W, IsFiniteSet(W), NEW X, NEW s \in X, NEW op, IsStep(op, W, X)
  PROVE  \E g : IsFold(g, W, X, s, op)
<1> DEFINE Step(g, U) == IF U = {} THEN s ELSE op[<<g[U \ {Picked(U)}], Picked(U)>>]
           Sets(n) == {U \in SUBSET W : Cardinality(U) <= n}
           Is(n, g) == g \in [Sets(n) -> X] /\ g = [U \in Sets(n) |-> Step(g, U)]
           N == Cardinality(W)
<1>1. N \in Nat
  BY FS_CardinalityType
<1>2. \A U \in SUBSET W : /\ IsFiniteSet(U) /\ Cardinality(U) \in Nat /\ Cardinality(U) <= N
                          /\ Cardinality(U) = 0 <=> U = {}
  BY FS_Subset, FS_CardinalityType, FS_EmptySet
<1>3. \A U \in SUBSET W : U # {} => /\ Picked(U) \in U /\ Picked(U) \in W /\ U \ {Picked(U)} \in SUBSET W
                                    /\ Cardinality(U \ {Picked(U)}) = Cardinality(U) - 1
  <2> SUFFICES ASSUME NEW U \in SUBSET W, U # {}
               PROVE  /\ Picked(U) \in U /\ Picked(U) \in W /\ U \ {Picked(U)} \in SUBSET W
                      /\ Cardinality(U \ {Picked(U)}) = Cardinality(U) - 1
    OBVIOUS
  <2>1. Picked(U) \in U
    BY DEF Picked
  <2>2. Cardinality(U \ {Picked(U)}) = Cardinality(U) - 1
    BY <1>2, <2>1, FS_RemoveElement
  <2>. QED
    BY <2>1, <2>2
<1>4. \A n \in Nat : \E g : Is(n, g)
  <2> DEFINE Bad == {n \in Nat : ~ \E g : Is(n, g)}
  <2>1. SUFFICES ASSUME Bad # {} PROVE FALSE
    OBVIOUS
  <2>2. PICK n \in Bad : \A k \in Bad : n <= k
    <3>1. Bad \subseteq Nat
      OBVIOUS
    <3> HIDE DEF Bad
    <3>. QED
      BY <2>1, <3>1, LeastNumber
  <2>3. n # 0
    <3> DEFINE g == [U \in Sets(0) |-> s]
    <3>1. \A U \in Sets(0) : U = {}
      BY <1>2
    <3>2. Is(0, g)
      BY <3>1
    <3> HIDE DEF g, Is
    <3>3. 0 \notin Bad
      BY <3>2
    <3> HIDE DEF Bad
    <3>. QED
      BY <2>2, <3>3
  <2>4. n \in Nat /\ n - 1 \in Nat /\ n - 1 \notin Bad
    <3>1. n \in Nat /\ n - 1 \in Nat /\ ~(n <= n - 1)
      BY <2>3
    <3> HIDE DEF Bad
    <3>. QED
      BY <2>2, <3>1
  <2>5. PICK g : Is(n - 1, g)
    BY <2>4
  <2> DEFINE h == [U \in Sets(n) |-> IF U \in Sets(n - 1) THEN g[U] ELSE Step(g, U)]
  <2>6. \A U \in Sets(n) : U # {} => U \ {Picked(U)} \in Sets(n - 1) /\ U \ {Picked(U)} \in Sets(n)
    BY <1>2, <1>3, <2>4
  <2>7. \A U \in Sets(n - 1) : U \in Sets(n)
    BY <1>2, <2>4
  <2> HIDE DEF Sets
  <2>8. ASSUME NEW U \in Sets(n) PROVE h[U] = Step(h, U) /\ h[U] \in X
    <3>1. Step(h, U) = Step(g, U)
      BY <2>6
    <3>2. U \in Sets(n - 1) => g[U] = Step(g, U) /\ g[U] \in X
      BY <2>5
    <3>3. Step(g, U) \in X
      <4>1. CASE U = {}
        BY <4>1
      <4>2. CASE U # {}
        <5>1. g[U \ {Picked(U)}] \in X
          BY <2>5, <2>6, <4>2
        <5>2. Picked(U) \in W
          BY <1>3, <4>2 DEF Sets
        <5>. QED
          BY <4>2, <5>1, <5>2 DEF IsStep
      <4>. QED
        BY <4>1, <4>2
    <3>. QED
      BY <3>1, <3>2, <3>3
  <2>9. Is(n, h)
    <3> HIDE DEF Step
    <3>1. h \in [Sets(n) -> X] /\ DOMAIN h = Sets(n)
      BY <2>8
    <3>2. h = [U \in Sets(n) |-> h[U]]
      OBVIOUS
    <3>3. \A U \in Sets(n) : h[U] = Step(h, U)
      BY <2>8
    <3> HIDE DEF h
    <3>. QED
      BY <3>1, <3>2, <3>3
  <2>. QED
    BY <2>4, <2>9
<1>5. PICK g : Is(N, g)
  BY <1>1, <1>4
<1>6. Sets(N) = SUBSET W
  BY <1>2
<1>7. g \in [SUBSET W -> X] /\ \A U \in SUBSET W : g[U] = Step(g, U)
  <2> HIDE DEF Sets, Step
  <2>. QED
    BY <1>5, <1>6
<1>. QED
  BY <1>7 DEF IsFold

-----------------------------------------------------------------------------
(* Flushing the models of a directory.                                     *)
FlushedBut(nm, mw, reopen) ==
  /\ nm.key = mw.key /\ nm.head = mw.head /\ nm.lis = mw.lis /\ nm.cur = mw.cur
  /\ nm.sort = mw.sort /\ nm.filter = mw.filter /\ nm.size = mw.size
  /\ nm.top = mw.top /\ nm.lnum = mw.lnum
  /\ IF reopen THEN nm.blocking /\ nm.lines = <<>> /\ nm.ptop = mw.top /\ nm.plnum = mw.lnum
     ELSE nm.blocking = mw.blocking /\ nm.lines = mw.lines /\ nm.ptop = mw.ptop /\ nm.plnum = mw.plnum

LEMMA FlushFacts ==
  ASSUME NEW s \in StateType, NEW w \in Windows, NEW reopen
  PROVE  LET t == ModelFlush(s, w, reopen) IN
         /\ t \in StateType /\ Apart(t, s, w) /\ t.sel = s.sel
         /\ FlushedBut(t.m[w], s.m[w], reopen)
         /\ \/ t.fault = s.fault
            \/ s.fault[1] = "none" /\ t.fault = <<"freed", w>> /\ reopen /\ s.m[w].cur = Freed
<1> DEFINE mw == s.m[w]
           m1 == [mw EXCEPT !.pfval = NULL]
           s1 == Put(s, w, m1)
           s2 == ModelSetPrev(s1, w)
           m2 == s2.m[w]
           m3 == [m2 EXCEPT !.lines = <<>>, !.blocking = TRUE]
           t == ModelFlush(s, w, reopen)
<1>1. mw \in ModelType
  BY StateFacts
<1>2. m1 \in ModelType /\ FlushedBut(m1, mw, FALSE)
  BY <1>1 DEF ModelType, FlushedBut
<1>3. [s EXCEPT !.m[w].pfval = NULL] = s1
  BY DEF Put
<1> HIDE DEF m1
<1>4. /\ s1 \in StateType /\ Apart(s1, s, w) /\ s1.m[w] = m1 /\ s1.sel = s.sel /\ s1.fault = s.fault
  BY <1>2, PutFacts
<1>5. t = IF reopen THEN [s2 EXCEPT !.m[w] = m3] ELSE s1
  BY <1>3 DEF ModelFlush, Flushed
<1> HIDE DEF s1, t
<1>6. /\ s2 \in StateType /\ Apart(s2, s1, w) /\ s2.sel = s1.sel
      /\ s2.fault = IF m1.cur = Freed /\ s1.fault[1] = "none" THEN <<"freed", w>> ELSE s1.fault
      /\ m2 = [m1 EXCEPT !.pfval = IF m1.cur = NULL THEN m1.pfval ELSE m1.cur,
                         !.ptop = m1.top, !.plnum = m1.lnum]
  BY <1>4, PrevFacts
<1>7. m2 \in ModelType
  BY <1>6, StateFacts
<1> HIDE DEF s2
<1>8. CASE ~reopen
  <2>1. FlushedBut(m1, mw, reopen)
    BY <1>2, <1>8 DEF FlushedBut
  <2>. QED
    BY <1>4, <1>5, <1>8, <2>1 DEF t
<1>9. CASE reopen
  <2>1. m3 \in ModelType /\ FlushedBut(m3, mw, reopen)
    <3>1. <<>> \in Seq(Recs \cup {Freed})
      OBVIOUS
    <3>2. m3 \in ModelType
      BY <1>7, <3>1 DEF ModelType
    <3>3. FlushedBut(m3, m1, reopen)
      BY <1>2, <1>6, <1>9 DEF ModelType, FlushedBut
    <3>. QED
      BY <1>2, <3>2, <3>3 DEF FlushedBut
  <2> HIDE DEF m3, m2
  <2>2. t = Put(s2, w, m3)
    BY <1>5, <1>9 DEF Put
  <2>3. t \in StateType /\ Apart(t, s2, w) /\ t.m[w] = m3 /\ t.sel = s2.sel /\ t.fault = s2.fault
    BY <1>6, <2>1, <2>2, PutFacts
  <2>4. m1.cur = mw.cur
    BY <1>2 DEF FlushedBut
  <2>. QED
    BY <1>4, <1>6, <1>9, <2>1, <2>3, <2>4 DEF Apart, t
<1>. QED
  BY <1>8, <1>9

LEMMA FlushAll ==
  ASSUME NEW s \in StateType, NEW d
  PROVE  LET r == FsFlushStream(s, d)
             W == Listeners(d)
         IN  /\ r \in StateType /\ r.lis = s.lis /\ r.sel = s.sel
             /\ \A v \in Windows \ W : r.m[v] = s.m[v]
             /\ \A v \in W : FlushedBut(r.m[v], s.m[v], ent[d].reopen)
             /\ \/ r.fault = s.fault
                \/ \E v \in W : /\ r.fault = <<"freed", v>> /\ s.fault[1] = "none"
                                /\ ent[d].reopen /\ s.m[v].cur = Freed
<1> DEFINE re == ent[d].reopen
           W == Listeners(d)
           Step(g, U) == IF U = {} THEN s ELSE ModelFlush(g[U \ {Picked(U)}], Picked(U), re)
           Is(g) == g = [U \in SUBSET W |-> Step(g, U)]
           Good(r, U) ==
             /\ r \in StateType /\ r.lis = s.lis /\ r.sel = s.sel
             /\ \A v \in Windows \ U : r.m[v] = s.m[v]
             /\ \A v \in U : FlushedBut(r.m[v], s.m[v], re)
             /\ \/ r.fault = s.fault
                \/ \E v \in U : r.fault = <<"freed", v>> /\ s.fault[1] = "none" /\ re /\ s.m[v].cur = Freed
<1>1. FsFlushStream(s, d) = (CHOOSE g : Is(g))[W]
  BY DEF FsFlushStream, ForEach, FoldSet, MapThenFoldSet, Picked
<1>2. W \subseteq Windows /\ IsFiniteSet(W)
  <2>1. W \subseteq Windows
    BY DEF Listeners
  <2>. QED
    BY <2>1, ListsAssumption, FS_Subset
<1> HIDE DEF W, re
<1>3. \A U \in SUBSET W : U # {} => Picked(U) \in U /\ U \ {Picked(U)} \in SUBSET W
  BY DEF Picked
<1>4. \E g : Is(g)
  <2> DEFINE op == [x \in StateType \X W |-> ModelFlush(x[1], x[2], re)]
  <2>1. op \in [StateType \X W -> StateType]
    BY <1>2, FlushFacts
  <2>2. \A x \in StateType, w \in W : op[<<x, w>>] = ModelFlush(x, w, re)
    OBVIOUS
  <2> HIDE DEF op
  <2>3. PICK g \in [SUBSET W -> StateType] :
          \A U \in SUBSET W : g[U] = IF U = {} THEN s ELSE op[<<g[U \ {Picked(U)}], Picked(U)>>]
    <3>1. IsStep(op, W, StateType)
      BY <2>1 DEF IsStep
    <3>2. \E g : IsFold(g, W, StateType, s, op)
      BY <1>2, <3>1, FoldExists
    <3>. QED
      BY <3>2 DEF IsFold
  <2>4. ASSUME NEW U \in SUBSET W PROVE g[U] = Step(g, U)
    <3>1. CASE U = {}
      BY <2>3, <3>1
    <3>2. CASE U # {}
      <4>1. g[U] = op[<<g[U \ {Picked(U)}], Picked(U)>>]
        BY <2>3, <3>2
      <4>2. g[U \ {Picked(U)}] \in StateType /\ Picked(U) \in W
        BY <1>3, <2>3, <3>2
      <4>. QED
        BY <2>2, <3>2, <4>1, <4>2
    <3>. QED
      BY <3>1, <3>2
  <2> HIDE DEF Step
  <2>5. Is(g)
    BY <2>3, <2>4
  <2>. QED
    BY <2>5
<1>5. PICK g : Is(g) /\ FsFlushStream(s, d) = g[W]
  <2> HIDE DEF Is
  <2>. QED
    BY <1>1, <1>4
<1>6. \A U \in SUBSET W : g[U] = Step(g, U)
  BY <1>5
<1> HIDE DEF Is
<1>7. \A U \in SUBSET W : Good(g[U], U)
  <2> DEFINE Bad == {U \in SUBSET W : ~Good(g[U], U)}
  <2>1. SUFFICES ASSUME Bad # {} PROVE FALSE
    OBVIOUS
  <2>2. PICK U \in Bad : \A V \in Bad : V \subseteq U => V = U
    <3>1. Bad \subseteq SUBSET W
      OBVIOUS
    <3> HIDE DEF Bad
    <3>. QED
      BY <1>2, <2>1, <3>1, SmallestSet
  <2>3. U \in SUBSET W /\ ~Good(g[U], U)
    BY <2>2
  <2>4. U # {}
    <3>1. ASSUME U = {} PROVE Good(g[U], U)
      BY <1>6, <3>1
    <3>. QED
      BY <2>3, <3>1
  <2> DEFINE w == Picked(U)
             r == g[U \ {w}]
             t == ModelFlush(r, w, re)
  <2>5. w \in U /\ w \in Windows /\ U \ {w} \in SUBSET W
    BY <1>2, <1>3, <2>3, <2>4
  <2>6. Good(r, U \ {w})
    <3>1. U \ {w} \notin Bad
      <4> HIDE DEF Bad
      <4>. QED
        BY <2>2, <2>5
    <3> HIDE DEF Good
    <3>. QED
      BY <2>5, <3>1
  <2>7. g[U] = t
    BY <1>6, <2>3, <2>4
  <2> HIDE DEF r, w, t
  <2>8. /\ t \in StateType /\ Apart(t, r, w) /\ t.sel = r.sel
        /\ FlushedBut(t.m[w], r.m[w], re)
        /\ \/ t.fault = r.fault
           \/ r.fault[1] = "none" /\ t.fault = <<"freed", w>> /\ re /\ r.m[w].cur = Freed
    BY <2>5, <2>6, FlushFacts DEF t
  <2>9. r.m[w] = s.m[w]
    BY <2>5, <2>6
  <2>10. \A v \in Windows \ {w} : t.m[v] = r.m[v]
    BY <2>8 DEF Apart
  <2>11. t \in StateType /\ t.lis = s.lis /\ t.sel = s.sel
    BY <2>6, <2>8 DEF Apart
  <2>12. \A v \in Windows \ U : t.m[v] = s.m[v]
    BY <2>5, <2>6, <2>10
  <2>13. \A v \in U : FlushedBut(t.m[v], s.m[v], re)
    <3> SUFFICES ASSUME NEW v \in U PROVE FlushedBut(t.m[v], s.m[v], re)
      OBVIOUS
    <3>1. CASE v = w
      BY <2>8, <2>9, <3>1
    <3>2. CASE v # w
      <4>1. v \in Windows \ {w} /\ v \in U \ {w}
        BY <1>2, <2>3, <3>2
      <4>. QED
        BY <2>6, <2>10, <4>1
    <3>. QED
      BY <3>1, <3>2
  <2>14. \/ t.fault = s.fault
         \/ \E v \in U : t.fault = <<"freed", v>> /\ s.fault[1] = "none" /\ re /\ s.m[v].cur = Freed
    <3>1. CASE t.fault = r.fault
      BY <2>6, <3>1
    <3>2. CASE r.fault[1] = "none" /\ t.fault = <<"freed", w>> /\ re /\ r.m[w].cur = Freed
      <4>1. s.fault[1] = "none"
        BY <2>6, <3>2
      <4>. QED
        BY <2>5, <2>9, <3>2, <4>1
    <3>. QED
      BY <2>8, <3>1, <3>2
  <2>15. Good(t, U)
    BY <2>11, <2>12, <2>13, <2>14
  <2>. QED
    BY <2>3, <2>7, <2>15
<1>. QED
  <2>1. Good(g[W], W)
    BY <1>7
  <2>. QED
    BY <1>5, <2>1 DEF W, re

-----------------------------------------------------------------------------
(* Freeing records.                                                        *)
FreedOf(r, gone) == IF r \in gone THEN Freed ELSE r

FreedBut(nm, mw, gone, keys) ==
  /\ nm.key = mw.key /\ nm.blocking = mw.blocking /\ nm.lis = mw.lis
  /\ nm.sort = mw.sort /\ nm.filter = mw.filter /\ nm.size = mw.size
  /\ nm.top = mw.top /\ nm.lnum = mw.lnum /\ nm.ptop = mw.ptop /\ nm.plnum = mw.plnum
  /\ nm.cur = FreedOf(mw.cur, gone)
  /\ nm.head = (IF mw.head \in keys THEN Freed ELSE mw.head)
  /\ Len(nm.lines) = Len(mw.lines) /\ (nm.lines = <<>> <=> mw.lines = <<>>)
  /\ ToSet(mw.lines) \cap gone = {} => nm.lines = mw.lines
  /\ DOMAIN nm.lines = DOMAIN mw.lines
  /\ \A i \in DOMAIN mw.lines : nm.lines[i] = FreedOf(mw.lines[i], gone)

ListenerFreed(nl, l, k, gone, keys) ==
  IF l[k] = NULL THEN nl[k] = NULL
  ELSE /\ nl[k] # NULL /\ nl[k].top = l[k].top /\ nl[k].lnum = l[k].lnum
       /\ nl[k].rec = IF k \in keys THEN NULL ELSE FreedOf(l[k].rec, gone)

LEMMA FreeFacts ==
  ASSUME NEW s \in StateType, NEW gone, gone \subseteq Recs, NEW keys, keys \subseteq Keys
  PROVE  LET t == Free(s, gone, keys) IN
         /\ t \in StateType /\ t.sel = s.sel /\ t.fault = s.fault
         /\ \A w \in Windows : FreedBut(t.m[w], s.m[w], gone, keys)
         /\ \A k \in Keys : ListenerFreed(t.lis, s.lis, k, gone, keys)
<1> DEFINE F(r) == IF r \in gone THEN Freed ELSE r
           lines(w) == [i \in DOMAIN s.m[w].lines |-> F(s.m[w].lines[i])]
           nm(w) == [s.m[w] EXCEPT !.lines = lines(w), !.cur = F(s.m[w].cur),
                                   !.head = IF s.m[w].head \in keys THEN Freed ELSE s.m[w].head]
           nl(k) == IF s.lis[k] = NULL THEN NULL
                    ELSE [s.lis[k] EXCEPT !.rec = IF k \in keys THEN NULL ELSE F(s.lis[k].rec)]
           t == Free(s, gone, keys)
           a == [w \in Windows |-> nm(w)]
           b == [k \in Keys |-> nl(k)]
<1>1. t = [s EXCEPT !.m = a, !.lis = b]
  BY DEF Free
<1> HIDE DEF t
<1>2. ASSUME NEW w \in Windows PROVE nm(w) \in ModelType /\ FreedBut(nm(w), s.m[w], gone, keys)
  <2> DEFINE mw == s.m[w]
             ls == lines(w)
  <2>1. mw \in ModelType
    BY StateFacts
  <2>2. mw.lines \in Seq(Recs \cup {Freed}) /\ Len(mw.lines) \in Nat /\ DOMAIN mw.lines = 1..Len(mw.lines)
        /\ (mw.lines = <<>> <=> Len(mw.lines) = 0)
        /\ \A i \in DOMAIN mw.lines : mw.lines[i] \in Recs \cup {Freed} /\ mw.lines[i] \in ToSet(mw.lines)
    BY <2>1, ModelFacts
  <2> HIDE DEF mw
  <2>3. ls = [i \in DOMAIN mw.lines |-> F(mw.lines[i])]
    BY DEF mw
  <2> HIDE DEF ls
  <2>4. ls \in [1..Len(mw.lines) -> Recs \cup {Freed}]
    BY <2>2, <2>3
  <2>5. ls \in Seq(Recs \cup {Freed}) /\ Len(ls) = Len(mw.lines) /\ DOMAIN ls = DOMAIN mw.lines
        /\ (ls = <<>> <=> Len(ls) = 0)
    BY <2>2, <2>4, IsASeq, LenProperties, EmptySeq
  <2>6. \A i \in DOMAIN mw.lines : ls[i] = FreedOf(mw.lines[i], gone)
    BY <2>3 DEF FreedOf
  <2>7. ToSet(mw.lines) \cap gone = {} => ls = mw.lines
    <3> SUFFICES ASSUME ToSet(mw.lines) \cap gone = {} PROVE ls = mw.lines
      OBVIOUS
    <3>1. \A i \in 1..Len(mw.lines) : ls[i] = mw.lines[i]
      BY <2>2, <2>6 DEF FreedOf
    <3>. QED
      BY <2>2, <2>5, <3>1, SeqEqual
  <2> DEFINE c == F(mw.cur)
             h == IF mw.head \in keys THEN Freed ELSE mw.head
  <2>8. c \in Recs \cup {NULL, Freed} /\ h \in Keys \cup {NULL, Freed} /\ c = FreedOf(mw.cur, gone)
    BY <2>1 DEF ModelType, FreedOf
  <2>9. nm(w) = [mw EXCEPT !.lines = ls, !.cur = c, !.head = h]
    BY DEF mw, ls
  <2> HIDE DEF c, h
  <2>10. [mw EXCEPT !.lines = ls, !.cur = c, !.head = h] \in ModelType
    BY <2>1, <2>5, <2>8 DEF ModelType
  <2>11. FreedBut([mw EXCEPT !.lines = ls, !.cur = c, !.head = h], mw, gone, keys)
    BY <2>1, <2>2, <2>5, <2>6, <2>7, <2>8 DEF ModelType, FreedBut, h
  <2>. QED
    BY <2>9, <2>10, <2>11 DEF mw
<1>3. ASSUME NEW k \in Keys
      PROVE  /\ nl(k) \in LisType \cup {NULL}
             /\ IF s.lis[k] = NULL THEN nl(k) = NULL
                ELSE /\ nl(k) # NULL
                     /\ nl(k).top = s.lis[k].top /\ nl(k).lnum = s.lis[k].lnum
                     /\ nl(k).rec = IF k \in keys THEN NULL ELSE FreedOf(s.lis[k].rec, gone)
  <2>1. s.lis[k] \in LisType \cup {NULL}
    BY StateFacts
  <2>2. CASE s.lis[k] = NULL
    BY <2>2
  <2>3. CASE s.lis[k] # NULL
    <3> DEFINE l == s.lis[k]
               r == IF k \in keys THEN NULL ELSE F(l.rec)
    <3>1. l \in LisType /\ nl(k) = [l EXCEPT !.rec = r]
      BY <2>1, <2>3
    <3>2. r \in Recs \cup {NULL, Freed} /\ r = IF k \in keys THEN NULL ELSE FreedOf(l.rec, gone)
      BY <3>1 DEF LisType, FreedOf
    <3> HIDE DEF l, r
    <3>3. /\ [l EXCEPT !.rec = r] \in LisType /\ [l EXCEPT !.rec = r].top = l.top
          /\ [l EXCEPT !.rec = r].lnum = l.lnum /\ [l EXCEPT !.rec = r].rec = r
      BY <3>1, <3>2 DEF LisType
    <3>4. \A x \in LisType : x # NULL
      <4>1. NULL \notin LisType
        BY ListsAssumption
      <4>. QED
        BY <4>1
    <3>. QED
      BY <2>3, <3>1, <3>2, <3>3, <3>4 DEF l
  <2>. QED
    BY <2>2, <2>3
<1> HIDE DEF nm, nl
<1>4. a \in [Windows -> ModelType] /\ b \in [Keys -> LisType \cup {NULL}]
  BY <1>2, <1>3
<1>5. (\A w \in Windows : a[w] = nm(w)) /\ (\A k \in Keys : b[k] = nl(k))
  OBVIOUS
<1> HIDE DEF a, b
<1>6. t \in StateType /\ t.sel = s.sel /\ t.fault = s.fault /\ t.m = a /\ t.lis = b
  <2>1. t.sel = s.sel /\ t.fault = s.fault /\ t.m = a /\ t.lis = b
    BY <1>1 DEF StateType
  <2>. QED
    BY <1>1, <1>4, <2>1 DEF StateType
<1>. QED
  <2>1. \A w \in Windows : t.m[w] = nm(w)
    BY <1>5, <1>6
  <2>2. \A k \in Keys : t.lis[k] = nl(k)
    BY <1>5, <1>6
  <2>3. \A k \in Keys : ListenerFreed(t.lis, s.lis, k, gone, keys)
    BY <1>3, <2>2 DEF ListenerFreed
  <2>. QED
    BY <1>2, <1>6, <2>1, <2>3 DEF t

-----------------------------------------------------------------------------
(* A directory is emptied: its models are flushed, its records freed.      *)
Emptied(t, d) == [t EXCEPT ![d] = <<>>]

LEMMA EmptiedTable ==
  ASSUME NEW t, TblType(t), NEW d \in Dirs
  PROVE  /\ TblType(Emptied(t, d)) /\ Emptied(t, d)[d] = <<>>
         /\ \A k \in Keys \ {d} : Emptied(t, d)[k] = t[k]
         /\ d \in Keys
BY DEF TblType, Emptied, Keys

LEMMA FreedTied ==
  ASSUME NEW mw \in ModelType, NEW nm, NEW l, NEW nl, NEW gone, NEW keys,
         gone \subseteq Recs, keys \subseteq Keys, FreedBut(nm, mw, gone, keys), Tied(mw, l),
         \A k \in Keys : l[k] # NULL => nl[k] # NULL
  PROVE  Tied(nm, nl)
<1>1. NULL \notin gone /\ NULL \notin keys
  BY ListsAssumption
<1>2. nm.key = mw.key /\ nm.lis = mw.lis /\ nm.cur = FreedOf(mw.cur, gone)
      /\ nm.head = (IF mw.head \in keys THEN Freed ELSE mw.head) /\ (nm.lines = <<>> <=> mw.lines = <<>>)
  BY DEF FreedBut
<1>3. mw.key \in Keys \cup {NULL} /\ mw.lis \in Keys \cup {NULL}
  BY DEF ModelType
<1>. QED
  BY <1>1, <1>2, <1>3 DEF Tied, FreedOf

LEMMA EmptiedWindow ==
  ASSUME NEW mw \in ModelType, NEW mid \in ModelType, NEW nm \in ModelType, TblType(tbl),
         NEW d \in Dirs, NEW re \in BOOLEAN, NEW unsaid \in BOOLEAN,
         WindowOK(mw, unsaid, tbl), FreedBut(nm, mid, ToSet(tbl[d]), {d}),
         mw.key # d => mid = mw, mw.key = d => FlushedBut(mid, mw, re)
  PROVE  WindowOK(nm, unsaid \/ (mw.key = d /\ ~re /\ ~mw.blocking), Emptied(tbl, d))
<1> DEFINE gone == ToSet(tbl[d])
           T == Emptied(tbl, d)
           now == unsaid \/ (mw.key = d /\ ~re /\ ~mw.blocking)
<1>1. gone \subseteq {d} \X Names /\ NULL \notin gone /\ d \in Keys /\ d # NULL /\ T[d] = <<>>
  BY TableFacts, EmptiedTable, ListsAssumption DEF Keys
<1>2. /\ nm.key = mid.key /\ nm.blocking = mid.blocking /\ nm.lis = mid.lis
      /\ nm.sort = mid.sort /\ nm.filter = mid.filter
      /\ nm.top = mid.top /\ nm.lnum = mid.lnum /\ nm.ptop = mid.ptop /\ nm.plnum = mid.plnum
      /\ nm.cur = FreedOf(mid.cur, gone) /\ nm.head = (IF mid.head \in {d} THEN Freed ELSE mid.head)
      /\ Len(nm.lines) = Len(mid.lines) /\ (nm.lines = <<>> <=> mid.lines = <<>>)
      /\ (ToSet(mid.lines) \cap gone = {} => nm.lines = mid.lines)
  BY DEF FreedBut
<1>3. Steady(mw, unsaid, tbl)
  BY DEF WindowOK
<1> SUFFICES WindowOK(nm, now, T)
  OBVIOUS
<1> HIDE DEF T
<1>4. CASE mw.key # d
  <2>1. mid = mw /\ (now <=> unsaid)
    BY <1>4
  <2>2. CASE mw.blocking \/ unsaid
    <3>1. Steady(nm, now, T)
      BY <1>2, <1>3, <2>1, <2>2 DEF Steady, OnLine, Astray
    <3>. QED
      BY <1>2, <2>1, <2>2, <3>1 DEF WindowOK
  <2>3. CASE ~mw.blocking /\ ~unsaid
    <3>1. mw.key \in Dirs /\ InSync(mw, tbl)
      BY <1>3, <2>3 DEF Steady
    <3>2. mw.key \in Keys /\ T[mw.key] = tbl[mw.key]
      BY <1>4, <3>1, EmptiedTable DEF T, Keys
    <3>3. ToSet(tbl[mw.key]) \cap gone = {} /\ ToSet(mw.lines) \cap gone = {} /\ mw.cur \notin gone
      <4>1. ToSet(tbl[mw.key]) \subseteq {mw.key} \X Names
        BY <3>2, TableFacts
      <4>2. ToSet(tbl[mw.key]) \cap gone = {}
        BY <1>1, <1>4, <4>1
      <4>3. ToSet(mw.lines) \subseteq ToSet(tbl[mw.key])
        <5>1. ToSet(mw.lines) = ToSet(Matching(tbl[mw.key], mw.filter))
          BY <3>1 DEF InSync
        <5>2. ToSet(Matching(tbl[mw.key], mw.filter)) \subseteq ToSet(tbl[mw.key])
          BY <3>2, MatchFacts
        <5>. QED
          BY <5>1, <5>2
      <4>. QED
        BY <1>1, <3>1, <4>2, <4>3 DEF InSync
    <3>4. nm.lines = mw.lines /\ nm.cur = mw.cur /\ nm.head = mw.head
      BY <1>1, <1>2, <1>4, <2>1, <3>1, <3>3 DEF InSync, FreedOf
    <3>5. InSync(nm, T)
      BY <1>2, <2>1, <3>1, <3>2, <3>4 DEF InSync, InOrder
    <3>6. Steady(nm, now, T)
      BY <1>2, <1>3, <2>1, <2>3, <3>1, <3>4, <3>5 DEF Steady, OnLine, Astray
    <3>. QED
      BY <1>2, <2>1, <3>4, <3>6 DEF WindowOK, OnLine
  <2>. QED
    BY <2>2, <2>3
<1>5. CASE mw.key = d
  <2>1. /\ mid.key = mw.key /\ mid.lis = mw.lis /\ mid.top = mw.top /\ mid.lnum = mw.lnum
        /\ IF re THEN mid.blocking /\ mid.lines = <<>> /\ mid.ptop = mw.top /\ mid.plnum = mw.lnum
           ELSE mid.blocking = mw.blocking /\ mid.lines = mw.lines /\ mid.ptop = mw.ptop /\ mid.plnum = mw.plnum
    BY <1>5 DEF FlushedBut
  <2>2. CASE re
    <3>1. Steady(nm, now, T) /\ nm.blocking
      BY <1>2, <1>3, <2>1, <2>2 DEF Steady
    <3>. QED
      BY <3>1 DEF WindowOK
  <2>3. CASE ~re
    <3>1. nm.blocking = mw.blocking /\ (now <=> unsaid \/ ~mw.blocking)
      BY <1>2, <1>5, <2>1, <2>3
    <3>2. Steady(nm, now, T)
      BY <1>2, <1>3, <1>5, <1>1, <2>1, <2>3, <3>1 DEF Steady, OnLine, Astray
    <3>. QED
      BY <3>1, <3>2 DEF WindowOK
  <2>. QED
    BY <2>2, <2>3
<1>. QED
  BY <1>4, <1>5

Told(d, re) == IF re THEN {} ELSE {w \in Listeners(d) : ~m[w].blocking}

(* Those who wait after a flush: all of them, or those who did.            *)
Waits(nm, mw, d, re) == nm.blocking <=> mw.blocking \/ (mw.key = d /\ re)

LEMMA EmptiedSafe ==
  ASSUME NEW s \in StateType, s.m = m, s.fault[1] = "none", TblType(tbl), NEW q, NEW d \in Dirs,
         Safe(s, q, tbl), \A k \in Dirs : LisOK(k, s.lis, tbl), ent[d].reopen \in BOOLEAN
  PROVE  LET r == TblDelVal(FsFlushStream(s, d), d)
             T == Emptied(tbl, d)
         IN  /\ r \in StateType /\ Safe(r, q \cup Told(d, ent[d].reopen), T)
             /\ \A k \in Dirs : LisOK(k, r.lis, T)
             /\ \A w \in Windows : /\ r.m[w].key = m[w].key
                                   /\ Waits(r.m[w], m[w], d, ent[d].reopen)
             /\ \A k \in Keys : s.lis[k] # NULL => r.lis[k] # NULL
<1> DEFINE re == ent[d].reopen
           W == Listeners(d)
           gone == ToSet(tbl[d])
           f == FsFlushStream(s, d)
           r == TblDelVal(f, d)
           T == Emptied(tbl, d)
           Q == q \cup Told(d, re)
<1>1. d \in Keys /\ d # NULL /\ d # Procs /\ gone \subseteq Recs /\ gone \subseteq {d} \X Names
      /\ NULL \notin gone
  BY TableFacts, ListsAssumption DEF Keys
<1>2. /\ f \in StateType /\ f.lis = s.lis /\ f.sel = s.sel
      /\ \A v \in Windows \ W : f.m[v] = s.m[v]
      /\ \A v \in W : FlushedBut(f.m[v], s.m[v], re)
      /\ \/ f.fault = s.fault
         \/ \E v \in W : /\ f.fault = <<"freed", v>> /\ re /\ s.m[v].cur = Freed
  BY FlushAll
<1> HIDE DEF f
<1>3. r = Free(f, gone, {d})
  BY DEF TblDelVal
<1> HIDE DEF r, gone
<1>4. /\ r \in StateType /\ r.sel = s.sel /\ r.fault = f.fault
      /\ \A w \in Windows : FreedBut(r.m[w], f.m[w], gone, {d})
      /\ \A k \in Keys : IF s.lis[k] = NULL THEN r.lis[k] = NULL
                         ELSE /\ r.lis[k] # NULL
                              /\ r.lis[k].top = s.lis[k].top /\ r.lis[k].lnum = s.lis[k].lnum
                              /\ r.lis[k].rec = IF k \in {d} THEN NULL ELSE FreedOf(s.lis[k].rec, gone)
  <2> DEFINE one == {d}
             t == Free(f, gone, one)
  <2>1. one \subseteq Keys /\ r = t
    BY <1>1, <1>3
  <2> HIDE DEF one
  <2>2. /\ t \in StateType /\ t.sel = f.sel /\ t.fault = f.fault
        /\ \A w \in Windows : FreedBut(t.m[w], f.m[w], gone, one)
        /\ \A k \in Keys : ListenerFreed(t.lis, f.lis, k, gone, one)
    BY <1>1, <1>2, <2>1, FreeFacts
  <2> HIDE DEF t
  <2>. QED
    <3>1. /\ r \in StateType /\ r.sel = s.sel /\ r.fault = f.fault
          /\ \A w \in Windows : FreedBut(r.m[w], f.m[w], gone, one)
          /\ \A k \in Keys : ListenerFreed(r.lis, s.lis, k, gone, one)
      BY <1>2, <2>1, <2>2
    <3>2. \A w \in Windows : FreedBut(r.m[w], f.m[w], gone, {d})
      BY <3>1 DEF one
    <3>3. \A k \in Keys : ListenerFreed(r.lis, s.lis, k, gone, {d})
      BY <3>1 DEF one
    <3>4. ASSUME NEW k \in Keys
          PROVE IF s.lis[k] = NULL THEN r.lis[k] = NULL
                ELSE /\ r.lis[k] # NULL
                     /\ r.lis[k].top = s.lis[k].top /\ r.lis[k].lnum = s.lis[k].lnum
                     /\ r.lis[k].rec = IF k \in {d} THEN NULL ELSE FreedOf(s.lis[k].rec, gone)
      BY <3>3 DEF ListenerFreed
    <3>. QED
      BY <3>1, <3>2, <3>4
<1>5. \A w \in Windows : s.m[w] \in ModelType /\ f.m[w] \in ModelType /\ r.m[w] \in ModelType
  BY <1>2, <1>4, StateFacts
<1>6. \A w \in Windows : w \in W <=> s.m[w].key = d
  BY DEF Listeners
<1>7. SelectionOK(s) /\ \A w \in Windows : Win(s, w, q, tbl)
  BY SafeFacts
<1>8. W \subseteq Windows /\ Told(d, re) = {w \in W : ~re /\ ~s.m[w].blocking}
  BY DEF Listeners, Told
<1> HIDE DEF W, T, re
<1>9. ASSUME NEW w \in Windows
      PROVE  r.m[w].key = m[w].key /\ Waits(r.m[w], m[w], d, re) /\ Win(r, w, Q, T)
             /\ (f.m[w].blocking /\ w \in W /\ re => r.m[w].lines = <<>>)
             /\ Len(r.m[w].lines) = Len(f.m[w].lines) /\ r.m[w].top = m[w].top /\ r.m[w].lnum = m[w].lnum
             /\ ((w \in W /\ re) \/ (f.m[w].lines = s.m[w].lines /\ f.m[w].blocking = s.m[w].blocking))
             /\ (r.m[w].lines = <<>> <=> f.m[w].lines = <<>>) /\ r.m[w].blocking = f.m[w].blocking
  <2> DEFINE mw == s.m[w]
             mid == f.m[w]
             nm == r.m[w]
  <2>1. FreedBut(nm, mid, gone, {d})
    BY <1>4
  <2>2. mw.key # d => mid = mw
    BY <1>2, <1>6
  <2>3. mw.key = d => FlushedBut(mid, mw, re)
    BY <1>2, <1>6
  <2>4. mw \in ModelType /\ mid \in ModelType /\ nm \in ModelType /\ mw = m[w]
    BY <1>5
  <2>5. Win(s, w, q, tbl)
    BY <1>7
  <2>6. w \in Q <=> (w \in q) \/ (mw.key = d /\ ~re /\ ~mw.blocking)
    BY <1>6, <1>8
  <2>7. Tied(mw, s.lis) /\ (w # Dt => WindowOK(mw, w \in q, tbl)) /\ (w = Dt => mw.key \in {Procs, NULL})
    BY <2>5 DEF Win
  <2> HIDE DEF mw, mid, nm, Q
  <2>8. nm.key = mid.key /\ nm.blocking = mid.blocking /\ Len(nm.lines) = Len(mid.lines)
        /\ (nm.lines = <<>> <=> mid.lines = <<>>) /\ nm.top = mid.top /\ nm.lnum = mid.lnum
    BY <2>1 DEF FreedBut
  <2>9. mid.key = mw.key /\ Waits(mid, mw, d, re) /\ mid.top = mw.top /\ mid.lnum = mw.lnum
        /\ (mw.key = d /\ re => mid.lines = <<>>)
        /\ ((mw.key = d /\ re) \/ (mid.lines = mw.lines /\ mid.blocking = mw.blocking))
    BY <2>2, <2>3 DEF FlushedBut, Waits
  <2>10. Tied(mid, s.lis)
    BY <2>2, <2>3, <2>7 DEF FlushedBut, Tied
  <2>11. Tied(nm, r.lis)
    <3>1. (\A k \in Keys : s.lis[k] # NULL => r.lis[k] # NULL) /\ {d} \subseteq Keys
      BY <1>1, <1>4
    <3> DEFINE l == s.lis
               nl == r.lis
    <3> HIDE DEF l, nl
    <3>2. (\A k \in Keys : l[k] # NULL => nl[k] # NULL) /\ Tied(mid, l)
      BY <2>10, <3>1 DEF l, nl
    <3>3. Tied(nm, nl)
      BY <1>1, <2>1, <2>4, <3>1, <3>2, FreedTied
    <3>. QED
      BY <3>3 DEF nl
  <2>12. w # Dt => WindowOK(nm, w \in Q, T)
    <3> SUFFICES ASSUME w # Dt PROVE WindowOK(nm, w \in Q, T)
      OBVIOUS
    <3> DEFINE u == w \in q
    <3>1. u \in BOOLEAN /\ WindowOK(mw, u, tbl) /\ re \in BOOLEAN
      BY <2>7 DEF re
    <3>2. (w \in Q) = (u \/ (mw.key = d /\ ~re /\ ~mw.blocking))
      BY <2>6
    <3> HIDE DEF u
    <3>3. WindowOK(nm, u \/ (mw.key = d /\ ~re /\ ~mw.blocking), T)
      BY <2>1, <2>2, <2>3, <2>4, <3>1, EmptiedWindow DEF gone, T
    <3>. QED
      BY <3>2, <3>3
  <2>13. w = Dt => nm.key \in {Procs, NULL}
    BY <2>7, <2>8, <2>9
  <2>14. Win(r, w, Q, T)
    BY <2>11, <2>12, <2>13 DEF Win, nm
  <2>15. nm.key = mw.key /\ Waits(nm, mw, d, re)
    BY <2>8, <2>9 DEF Waits
  <2>. QED
    BY <1>6, <2>4, <2>8, <2>9, <2>14, <2>15 DEF mw, mid, nm
<1>10. SelectionOK(r)
  <2>1. /\ s.sel.enabled => s.sel.active
        /\ s.sel.active => s.sel.owner \in Windows
        /\ s.sel.active /\ s.sel.owner # Dt => Within(s.sel, s.m[s.sel.owner])
    BY <1>7, SelFacts
  <2>2. ASSUME s.sel.active, s.sel.owner # Dt PROVE Within(s.sel, r.m[s.sel.owner])
    <3> DEFINE w == s.sel.owner
    <3>1. w \in Windows /\ Within(s.sel, s.m[w])
      BY <2>1, <2>2
    <3> HIDE DEF w
    <3>2. /\ ((w \in W /\ re) \/ (f.m[w].lines = s.m[w].lines /\ f.m[w].blocking = s.m[w].blocking))
          /\ (f.m[w].blocking /\ w \in W /\ re => r.m[w].lines = <<>>)
          /\ Len(r.m[w].lines) = Len(f.m[w].lines) /\ r.m[w].top = s.m[w].top /\ r.m[w].lnum = s.m[w].lnum
          /\ (r.m[w].lines = <<>> <=> f.m[w].lines = <<>>) /\ r.m[w].blocking = f.m[w].blocking
      BY <1>9, <3>1
    <3>3. CASE w \in W /\ re
      <4>1. FlushedBut(f.m[w], s.m[w], re)
        BY <1>2, <3>3
      <4>2. r.m[w].blocking /\ r.m[w].lines = <<>>
        BY <3>2, <3>3, <4>1 DEF FlushedBut
      <4>. QED
        BY <4>2 DEF Within, w
    <3>4. CASE f.m[w].lines = s.m[w].lines /\ f.m[w].blocking = s.m[w].blocking
      <4>1. /\ Len(r.m[w].lines) = Len(s.m[w].lines) /\ r.m[w].blocking = s.m[w].blocking
            /\ (r.m[w].lines = <<>> <=> s.m[w].lines = <<>>)
        BY <3>2, <3>4
      <4>. QED
        BY <3>1, <3>2, <4>1 DEF Within, OnLine, w
    <3>. QED
      BY <3>2, <3>3, <3>4
  <2>3. r.sel = s.sel
    BY <1>4
  <2>. QED
    BY <2>1, <2>2, <2>3, SelFacts
<1>11. Known(r, Q)
  <2>1. CASE f.fault = s.fault
    BY <1>4, <2>1 DEF Known
  <2>2. CASE \E v \in W : f.fault = <<"freed", v>> /\ re /\ s.m[v].cur = Freed
    <3>1. PICK v \in W : f.fault = <<"freed", v>> /\ re
      BY <2>2
    <3>2. v \in Windows /\ FlushedBut(f.m[v], s.m[v], re)
      BY <1>2, <1>8
    <3>3. r.m[v].blocking
      BY <1>9, <3>1, <3>2 DEF FlushedBut
    <3>4. r.fault[1] = "freed" /\ r.fault[2] = v
      BY <1>4, <3>1
    <3>. QED
      BY <3>3, <3>4 DEF Known
  <2>. QED
    BY <1>2, <2>1, <2>2
<1>12. Safe(r, Q, T)
  BY <1>9, <1>10, <1>11, SafeFacts
<1>13. ASSUME NEW k \in Dirs PROVE LisOK(k, r.lis, T)
  <2>1. k \in Keys /\ LisOK(k, s.lis, tbl)
    BY DEF Keys
  <2>2. SUFFICES ASSUME r.lis[k] # NULL
                 PROVE  /\ Sane(r.lis[k].top, r.lis[k].lnum)
                        /\ IF T[k] = <<>> THEN r.lis[k].rec = NULL ELSE r.lis[k].rec \in {k} \X Names
    BY DEF LisOK
  <2>3. /\ s.lis[k] # NULL /\ r.lis[k].top = s.lis[k].top /\ r.lis[k].lnum = s.lis[k].lnum
        /\ r.lis[k].rec = IF k \in {d} THEN NULL ELSE FreedOf(s.lis[k].rec, gone)
    BY <1>4, <2>1, <2>2
  <2>4. Sane(s.lis[k].top, s.lis[k].lnum)
        /\ IF tbl[k] = <<>> THEN s.lis[k].rec = NULL ELSE s.lis[k].rec \in {k} \X Names
    BY <2>1, <2>3 DEF LisOK
  <2>5. CASE k = d
    BY <2>3, <2>4, <2>5, EmptiedTable DEF T
  <2>6. CASE k # d
    <3>1. T[k] = tbl[k]
      BY <2>1, <2>6, EmptiedTable DEF T
    <3>2. s.lis[k].rec \notin gone
      BY <1>1, <2>4, <2>6
    <3>. QED
      BY <2>3, <2>4, <2>6, <3>1, <3>2 DEF FreedOf
  <2>. QED
    BY <2>5, <2>6
<1>. QED
  BY <1>4, <1>9, <1>12, <1>13 DEF T, re, r, f

-----------------------------------------------------------------------------
(* The listeners, one of them changed.                                     *)
PutLis(s, k, l) == [s EXCEPT !.lis = [s.lis EXCEPT ![k] = l]]

LEMMA PutLisFacts ==
  ASSUME NEW s \in StateType, NEW k \in Keys, NEW l \in LisType
  PROVE  LET t == PutLis(s, k, l) IN
         /\ t \in StateType /\ t.m = s.m /\ t.sel = s.sel /\ t.fault = s.fault
         /\ t.lis[k] = l /\ l # NULL /\ \A j \in Keys \ {k} : t.lis[j] = s.lis[j]
<1> DEFINE t == PutLis(s, k, l)
<1>1. t \in StateType /\ t.m = s.m /\ t.sel = s.sel /\ t.fault = s.fault
  BY DEF PutLis, StateType
<1>2. t.lis[k] = l /\ \A j \in Keys \ {k} : t.lis[j] = s.lis[j]
  BY DEF PutLis, StateType
<1>3. l # NULL
  BY ListsAssumption
<1>. QED
  BY <1>1, <1>2, <1>3

(* Listeners keep their records; a position may be reset.                  *)
LisKept(nl, l) ==
  \A k \in Keys :
    /\ nl[k] = NULL <=> l[k] = NULL
    /\ l[k] # NULL => /\ nl[k].rec = l[k].rec
                      /\ \/ nl[k].top = l[k].top /\ nl[k].lnum = l[k].lnum
                         \/ nl[k].top = 0 /\ nl[k].lnum = 0

LEMMA KeptFacts ==
  ASSUME NEW l, NEW nl, LisKept(nl, l)
  PROVE  /\ \A mw \in ModelType : Tied(mw, nl) <=> Tied(mw, l)
         /\ \A k \in Keys : \A T : LisOK(k, l, T) => LisOK(k, nl, T)
<1>1. ASSUME NEW mw \in ModelType PROVE Tied(mw, nl) <=> Tied(mw, l)
  <2>1. mw.key \in Keys \cup {NULL} /\ mw.lis \in Keys \cup {NULL}
    BY DEF ModelType
  <2>. QED
    BY <2>1 DEF Tied, LisKept
<1>2. ASSUME NEW k \in Keys, NEW T, LisOK(k, l, T) PROVE LisOK(k, nl, T)
  <2>1. SUFFICES ASSUME nl[k] # NULL
                 PROVE  /\ Sane(nl[k].top, nl[k].lnum)
                        /\ IF T[k] = <<>> THEN nl[k].rec = NULL ELSE nl[k].rec \in {k} \X Names
    BY DEF LisOK
  <2>2. /\ l[k] # NULL /\ nl[k].rec = l[k].rec
        /\ \/ nl[k].top = l[k].top /\ nl[k].lnum = l[k].lnum
           \/ nl[k].top = 0 /\ nl[k].lnum = 0
    BY <2>1 DEF LisKept
  <2>3. /\ Sane(l[k].top, l[k].lnum)
        /\ IF T[k] = <<>> THEN l[k].rec = NULL ELSE l[k].rec \in {k} \X Names
    BY <1>2, <2>2 DEF LisOK
  <2>. QED
    BY <2>2, <2>3 DEF Sane
<1>. QED
  BY <1>1, <1>2

(* A window whose event came, in a state that is safe but for this window. *)
Unblocked(mw) == [mw EXCEPT !.blocking = FALSE]
Unblock(s, w) == [s EXCEPT !.m[w].blocking = FALSE]

LEMMA UnblockedFacts ==
  ASSUME NEW s \in StateType, NEW w \in Windows
  PROVE  LET t == Unblock(s, w)
             mw == s.m[w]
             nm == t.m[w]
         IN  /\ t \in StateType /\ Apart(t, s, w) /\ t.sel = s.sel /\ t.fault = s.fault
             /\ nm.key = mw.key /\ nm.blocking = FALSE /\ nm.cur = mw.cur /\ nm.head = mw.head
             /\ nm.lis = mw.lis /\ nm.ptop = mw.ptop /\ nm.plnum = mw.plnum /\ nm.lines = mw.lines
             /\ nm.sort = mw.sort /\ nm.filter = mw.filter /\ nm.top = mw.top /\ nm.lnum = mw.lnum
<1> DEFINE mw == s.m[w]
           nm == Unblocked(mw)
           t == Put(s, w, nm)
<1>1. mw \in ModelType
  BY StateFacts
<1>2. /\ nm \in ModelType /\ nm.key = mw.key /\ nm.blocking = FALSE /\ nm.cur = mw.cur /\ nm.head = mw.head
      /\ nm.lis = mw.lis /\ nm.ptop = mw.ptop /\ nm.plnum = mw.plnum /\ nm.lines = mw.lines
      /\ nm.sort = mw.sort /\ nm.filter = mw.filter /\ nm.top = mw.top /\ nm.lnum = mw.lnum
  BY <1>1 DEF ModelType, Unblocked
<1>3. Unblock(s, w) = t
  BY DEF Put, Unblocked, Unblock
<1> HIDE DEF nm
<1>4. t \in StateType /\ Apart(t, s, w) /\ t.m[w] = nm /\ t.sel = s.sel /\ t.fault = s.fault
  BY <1>2, PutFacts
<1> HIDE DEF t
<1>. QED
  BY <1>2, <1>3, <1>4

Received(t, s, w, q, T) ==
  /\ t \in StateType /\ LisKept(t.lis, s.lis)
  /\ \A v \in Windows \ {w} : t.m[v] = s.m[v]
  /\ Known(t, q)
  /\ t.fault[1] = "none" =>
       /\ t.sel = SelectClear(s, w).sel \/ (w = Dt /\ t.sel = s.sel)
       /\ ~t.m[w].blocking /\ t.m[w].key = s.m[w].key
       /\ Win(t, w, IF s.m[w].lines = <<>> THEN q \ {w} ELSE q, T)

Bare(t, k) == t[k] = <<>>

LEMMA BareMatch ==
  ASSUME NEW t, TblType(t), NEW k \in Keys, Bare(t, k), NEW pattern
  PROVE  ToSet(Matching(t[k], pattern)) = {}
<1>1. t[k] = <<>> => ToSet(Matching(t[k], pattern)) = {}
  BY MatchFacts
<1>. QED
  BY <1>1 DEF Bare

LEMMA NullEntryReceived ==
  ASSUME NEW s \in StateType, NEW w \in Windows, NEW q, NEW T, TblType(T), s.fault[1] = "none",
         Win(s, w, q, T), s.m[w].blocking, NEW k \in Keys, s.m[w].key = k,
         s.lis[k] # NULL, w # Dt => Bare(T, k)
  PROVE  Received(ModelNullEntry(s, w, k), s, w, q, T)
<1> DEFINE mw == s.m[w]
           m1 == [mw EXCEPT !.head = NULL, !.cur = NULL]
           l1 == [s.lis[k] EXCEPT !.top = 0, !.lnum = 0]
           p  == Put(s, w, m1)
           s1 == PutLis(p, k, l1)
           sc == SelectClear(s1, w)
           c  == Placed(m1, 0, 0)
           s2 == BufCursMove(Put(sc, w, c), w)
           t  == ModelNullEntry(s, w, k)
<1>1. mw \in ModelType /\ s.lis[k] \in LisType /\ 0 \in Int
  BY StateFacts
<1>2. /\ m1 \in ModelType /\ m1.key = mw.key /\ m1.blocking = mw.blocking /\ m1.cur = NULL
      /\ m1.head = NULL /\ m1.lis = mw.lis /\ m1.ptop = mw.ptop /\ m1.plnum = mw.plnum
      /\ m1.lines = mw.lines /\ m1.sort = mw.sort /\ m1.filter = mw.filter
  BY <1>1 DEF ModelType
<1>3. l1 \in LisType /\ l1.rec = s.lis[k].rec /\ l1.top = 0 /\ l1.lnum = 0
  BY <1>1 DEF LisType
<1>4. [s EXCEPT !.m[w].head = NULL, !.m[w].cur = NULL, !.lis[k].top = 0, !.lis[k].lnum = 0] = s1
  BY <1>1 DEF Put, PutLis, StateType
<1> HIDE DEF m1, l1
<1>5. /\ p \in StateType /\ Apart(p, s, w) /\ p.m[w] = m1 /\ p.lis = s.lis /\ p.sel = s.sel
      /\ p.fault = s.fault
  BY <1>2, PutFacts
<1> HIDE DEF p
<1>6. /\ s1 \in StateType /\ s1.m = p.m /\ s1.sel = p.sel /\ s1.fault = p.fault
      /\ s1.lis[k] = l1 /\ l1 # NULL /\ \A j \in Keys \ {k} : s1.lis[j] = p.lis[j]
  BY <1>3, <1>5, PutLisFacts
<1> HIDE DEF s1
<1>7. /\ sc \in StateType /\ sc.m = s1.m /\ sc.lis = s1.lis /\ sc.fault = s1.fault
      /\ ~Extends(sc, w) /\ sc.sel = SelectClear(s, w).sel
  <2>1. SelectClear(s1, w).sel = SelectClear(s, w).sel
    BY <1>5, <1>6 DEF SelectClear, StateType
  <2>. QED
    BY <1>6, <2>1, ClearFacts
<1>8. BufFullInvalidate(s1, w, 0, 0) = s2
  <2> HIDE DEF sc
  <2>1. sc.m[w] = m1
    BY <1>5, <1>6, <1>7
  <2>2. [sc EXCEPT !.m[w].top = 0, !.m[w].lnum = 0] = Put(sc, w, c)
    BY <2>1 DEF Put, Placed
  <2>. QED
    BY <2>2 DEF BufFullInvalidate, BufMoveInvalid, sc
<1>9. /\ c \in ModelType /\ c.ptop = mw.ptop /\ c.plnum = mw.plnum
      /\ c.key = mw.key /\ c.blocking = mw.blocking /\ c.cur = NULL /\ c.head = NULL
      /\ c.lis = mw.lis /\ c.lines = mw.lines /\ c.sort = mw.sort /\ c.filter = mw.filter
      /\ c.top = 0 /\ c.lnum = 0
  <2> HIDE DEF c
  <2>0. m1 \in ModelType
    BY <1>2
  <2>1. ASSUME NEW z \in Int
        PROVE
          LET x == Placed(m1, z, z) IN
          /\ x \in ModelType /\ x.ptop = m1.ptop /\ x.plnum = m1.plnum
          /\ x.key = m1.key /\ x.blocking = m1.blocking /\ x.cur = m1.cur /\ x.head = m1.head
          /\ x.lis = m1.lis /\ x.lines = m1.lines /\ x.sort = m1.sort /\ x.filter = m1.filter
          /\ x.top = z /\ x.lnum = z
    BY <2>0, PlacedFields
  <2>2. LET x == Placed(m1, 0, 0) IN
        /\ x \in ModelType /\ x.ptop = m1.ptop /\ x.plnum = m1.plnum
        /\ x.key = m1.key /\ x.blocking = m1.blocking /\ x.cur = m1.cur /\ x.head = m1.head
        /\ x.lis = m1.lis /\ x.lines = m1.lines /\ x.sort = m1.sort /\ x.filter = m1.filter
        /\ x.top = 0 /\ x.lnum = 0
    BY <1>1, <2>1
  <2>. QED
    BY <1>2, <2>2 DEF c
<1> HIDE DEF sc, c
<1>10. /\ Apart(s2, sc, w) /\ s2.m[w] = ReadAt(c) /\ s2.sel = sc.sel
       /\ \/ s2.fault = sc.fault
          \/ sc.fault[1] = "none" /\ s2.fault = <<"freed", w>> /\ At(c) = Freed
  BY <1>7, <1>9, MoveFacts
<1> HIDE DEF s2
<1>11. t = Unblock(s2, w)
  BY <1>4, <1>8 DEF ModelNullEntry, Unblock
<1> HIDE DEF t
<1> DEFINE nm == t.m[w]
<1>12. /\ t \in StateType /\ Apart(t, s2, w) /\ t.sel = s2.sel /\ t.fault = s2.fault
       /\ nm.key = mw.key /\ nm.blocking = FALSE /\ nm.cur = ReadAt(c).cur /\ nm.head = NULL
       /\ nm.lis = mw.lis /\ nm.ptop = mw.ptop /\ nm.plnum = mw.plnum /\ nm.lines = mw.lines
       /\ nm.sort = mw.sort /\ nm.filter = mw.filter /\ nm.top = 0 /\ nm.lnum = 0
  <2>1. ReadAt(c) = [c EXCEPT !.cur = ReadAt(c).cur] /\ s2 \in StateType
    BY <1>9, <1>10, AtFacts DEF Apart
  <2> DEFINE rc == ReadAt(c).cur
             rr == [c EXCEPT !.cur = rc]
  <2>2. /\ rr.key = mw.key /\ rr.cur = rc /\ rr.head = NULL
        /\ rr.lis = mw.lis /\ rr.ptop = mw.ptop /\ rr.plnum = mw.plnum /\ rr.lines = mw.lines
        /\ rr.sort = mw.sort /\ rr.filter = mw.filter /\ rr.top = 0 /\ rr.lnum = 0
    BY <1>9 DEF ModelType
  <2>3. s2.m[w] = rr
    BY <1>10, <2>1
  <2> HIDE DEF rr, rc
  <2> DEFINE u == Unblock(s2, w)
  <2>4. /\ u \in StateType /\ Apart(u, s2, w) /\ u.sel = s2.sel /\ u.fault = s2.fault
        /\ u.m[w].key = rr.key /\ u.m[w].blocking = FALSE /\ u.m[w].cur = rr.cur
        /\ u.m[w].head = rr.head
        /\ u.m[w].lis = rr.lis /\ u.m[w].ptop = rr.ptop /\ u.m[w].plnum = rr.plnum
        /\ u.m[w].lines = rr.lines
        /\ u.m[w].sort = rr.sort /\ u.m[w].filter = rr.filter /\ u.m[w].top = rr.top
        /\ u.m[w].lnum = rr.lnum
    BY <2>1, <2>3, UnblockedFacts
  <2> HIDE DEF u
  <2>5. t = u
    BY <1>11 DEF u
  <2>. QED
    BY <2>2, <2>4, <2>5 DEF rc
<1> HIDE DEF nm
<1>13. t.lis = s1.lis /\ \A v \in Windows \ {w} : t.m[v] = s.m[v]
  BY <1>5, <1>6, <1>7, <1>10, <1>12 DEF Apart
<1>14. LisKept(t.lis, s.lis)
  BY <1>3, <1>5, <1>6, <1>13 DEF LisKept, Apart
<1>15. Tied(mw, s.lis) /\ (w # Dt => WindowOK(mw, w \in q, T)) /\ (w = Dt => mw.key \in {Procs, NULL})
  BY DEF Win
<1>16. ReadAt(c).cur = (IF At(c) = NULL THEN NULL ELSE At(c)) /\ (At(c) # NULL => c.lines # <<>>)
  BY <1>9, AtFacts
<1>17. mw.lines \in Seq(Recs \cup {Freed}) /\ Len(mw.lines) \in Nat
       /\ (mw.lines = <<>> <=> Len(mw.lines) = 0) /\ (mw.lines = <<>> => ToSet(mw.lines) = {})
  BY <1>1, ModelFacts, SeqFacts
<1>18. Known(t, q)
  <2>1. CASE t.fault = s.fault
    BY <2>1 DEF Known
  <2>2. CASE t.fault = <<"freed", w>> /\ At(c) = Freed
    <3>1. c.lines # <<>>
      BY <1>16, <2>2, ListsAssumption
    <3>2. w = Dt \/ w \in q
      BY <1>9, <1>15, <3>1 DEF WindowOK, Steady
    <3>. QED
      BY <2>2, <3>2 DEF Known
  <2>. QED
    BY <1>5, <1>6, <1>7, <1>10, <1>12, <2>1, <2>2
<1>19. ASSUME t.fault[1] = "none" PROVE Win(t, w, IF mw.lines = <<>> THEN q \ {w} ELSE q, T)
  <2> DEFINE r == IF mw.lines = <<>> THEN q \ {w} ELSE q
  <2>1. w \in r <=> w \in q /\ mw.lines # <<>>
    OBVIOUS
  <2> HIDE DEF r
  <2>2. Tied(nm, t.lis)
    <3>1. Tied(nm, s.lis)
      BY <1>12, <1>15, <1>16, <1>9 DEF Tied
    <3>2. nm \in ModelType
      BY <1>12, StateFacts DEF nm
    <3>. QED
      BY <1>14, <3>1, <3>2, KeptFacts
  <2>3. ASSUME w # Dt PROVE WindowOK(nm, w \in r, T)
    <3>1. Steady(mw, w \in q, T)
      BY <1>15, <2>3 DEF WindowOK
    <3>2. nm.top = 0 /\ nm.lnum = 0 /\ Sane(nm.top, nm.lnum) /\ nm.key = k /\ k # NULL
      BY <1>12, ListsAssumption DEF Sane
    <3>3. OnLine(nm) \/ (nm.lines = <<>> /\ nm.top = 0 /\ nm.lnum = 0)
      BY <1>12, <1>17 DEF OnLine
    <3>4. w \notin r => InSync(nm, T)
      <4> SUFFICES ASSUME w \notin r PROVE InSync(nm, T)
        OBVIOUS
      <4>1. mw.lines = <<>>
        BY <2>1, <3>1 DEF Steady
      <4>2. ToSet(nm.lines) = {} /\ DOMAIN nm.lines = {}
        BY <1>12, <1>17, <4>1
      <4>3. nm.cur = NULL /\ nm.head = NULL
        BY <1>9, <1>12, <1>16, <4>1
      <4>4. ToSet(Matching(T[nm.key], nm.filter)) = {}
        <5>1. ToSet(Matching(T[k], nm.filter)) = {}
          BY <2>3, BareMatch
        <5>. QED
          BY <3>2, <5>1
      <4>. QED
        BY <4>2, <4>3, <4>4 DEF InSync, InOrder
    <3>5. OnLine(nm) => nm.cur = nm.lines[nm.top + nm.lnum + 1]
      <4> SUFFICES ASSUME OnLine(nm) PROVE nm.cur = nm.lines[nm.top + nm.lnum + 1]
        OBVIOUS
      <4>1. OnLine(c)
        BY <1>9, <1>12 DEF OnLine
      <4>2. At(c) = c.lines[c.top + c.lnum + 1] /\ At(c) # NULL
        BY <1>9, <4>1, AtFacts
      <4>. QED
        BY <1>9, <1>12, <1>16, <4>2
    <3>6. Steady(nm, w \in r, T)
      BY <1>12, <3>1, <3>2, <3>3, <3>4 DEF Steady
    <3>. QED
      BY <3>5, <3>6 DEF WindowOK
  <2>. QED
    BY <1>12, <1>15, <2>2, <2>3 DEF Win, nm, r
<1>. QED
  BY <1>7, <1>10, <1>12, <1>13, <1>14, <1>18, <1>19 DEF Received, t, nm

(* The filter of a window, applied to the table it points to.              *)
LEMMA FilterFacts ==
  ASSUME NEW s \in StateType, NEW w \in Windows, TblType(tbl), s.fault[1] = "none"
  PROVE  LET mw == s.m[w]
             t  == FilterApply(s, w)
             nm == t.m[w]
         IN  /\ t \in StateType /\ Apart(t, s, w) /\ t.sel = s.sel
             /\ SameBut(nm, mw) /\ nm.cur = mw.cur /\ nm.pfval = mw.pfval
             /\ nm.ptop = mw.ptop /\ nm.plnum = mw.plnum /\ nm.top = mw.top /\ nm.lnum = mw.lnum
             /\ \/ t.fault = <<"head", w>> /\ mw.head = NULL
                \/ t.fault = <<"freed", w>> /\ mw.head = Freed
                \/ /\ t.fault = s.fault
                   /\ IF mw.filter = NoFilter THEN nm.lines = mw.lines
                      ELSE mw.head \in Keys /\ nm.lines = Matching(tbl[mw.head], mw.filter)
<1> DEFINE mw == s.m[w]
           t  == FilterApply(s, w)
           m1 == [mw EXCEPT !.filter = mw.filter]
           lines == Matching(tbl[mw.head], mw.filter)
           m2 == [m1 EXCEPT !.lines = lines]
           s1 == Put(s, w, m1)
           s2 == Put(s1, w, m2)
<1>1. mw \in ModelType
  BY StateFacts
<1>2. m1 = mw /\ m1 \in ModelType
  BY <1>1 DEF ModelType
<1>3. [s EXCEPT !.m[w].filter = mw.filter] = s1
  BY DEF Put
<1> HIDE DEF m1
<1>4. s1 \in StateType /\ Apart(s1, s, w) /\ s1.m[w] = m1 /\ s1.sel = s.sel /\ s1.fault = s.fault
  BY <1>2, PutFacts
<1> HIDE DEF s1, lines
<1>5. [s1 EXCEPT !.m[w].lines = lines] = s2
  BY <1>4 DEF Put
<1>6. t = IF mw.filter = NoFilter THEN s
          ELSE IF mw.head = NULL THEN Fault(s1, "head", w)
          ELSE IF mw.head = Freed THEN Fault(s1, "freed", w) ELSE s2
  BY <1>3, <1>5 DEF FilterApply, FilterBuild, lines
<1> HIDE DEF t, s2
<1>7. SameBut(mw, mw)
  BY DEF SameBut
<1>8. CASE mw.filter = NoFilter
  <2>1. t = s
    BY <1>6, <1>8
  <2>. QED
    BY <1>7, <1>8, <2>1 DEF Apart, t
<1>9. CASE mw.filter # NoFilter /\ mw.head \in {NULL, Freed}
  <2>1. PICK what \in {"head", "freed"} :
          /\ t = Fault(s1, what, w)
          /\ (what = "head" /\ mw.head = NULL) \/ (what = "freed" /\ mw.head = Freed)
    BY <1>6, <1>9
  <2>2. what \in Faults
    BY DEF Faults
  <2> DEFINE g == Fault(s1, what, w)
  <2>3. /\ g \in StateType /\ g.m = s1.m /\ g.lis = s1.lis /\ g.sel = s1.sel
        /\ g.fault = IF s1.fault[1] = "none" THEN <<what, w>> ELSE s1.fault
    BY <1>4, <2>2, FaultFacts
  <2> HIDE DEF g
  <2>4. t = g
    BY <2>1 DEF g
  <2>5. t.fault = <<what, w>>
    BY <1>4, <2>3, <2>4
  <2>. QED
    BY <1>2, <1>4, <1>7, <2>1, <2>3, <2>4, <2>5 DEF Apart, t
<1>10. CASE mw.filter # NoFilter /\ mw.head \notin {NULL, Freed}
  <2>1. mw.head \in Keys /\ t = s2
    BY <1>1, <1>6, <1>10 DEF ModelType
  <2>2. lines \in Seq(Recs \cup {Freed})
    BY <2>1, MatchFacts DEF lines
  <2>3. /\ m2 \in ModelType /\ m2.lines = lines /\ SameBut(m2, m1) /\ m2.cur = m1.cur
        /\ m2.pfval = m1.pfval /\ m2.ptop = m1.ptop /\ m2.plnum = m1.plnum
        /\ m2.top = m1.top /\ m2.lnum = m1.lnum
    BY <1>2, <2>2 DEF ModelType, SameBut
  <2> HIDE DEF m2
  <2>4. /\ s2 \in StateType /\ Apart(s2, s1, w) /\ s2.m[w] = m2 /\ s2.sel = s1.sel
        /\ s2.fault = s1.fault
    BY <1>4, <2>3, PutFacts DEF s2
  <2>5. t \in StateType /\ Apart(t, s, w) /\ t.sel = s.sel /\ t.fault = s.fault /\ t.m[w] = m2
    BY <1>4, <2>1, <2>4 DEF Apart
  <2>6. m2.lines = lines /\ SameBut(m2, mw) /\ m2.cur = mw.cur
        /\ m2.pfval = mw.pfval /\ m2.ptop = mw.ptop /\ m2.plnum = mw.plnum
        /\ m2.top = mw.top /\ m2.lnum = mw.lnum
    BY <1>2, <2>3
  <2>. QED
    BY <1>10, <2>1, <2>5, <2>6 DEF t, lines
<1>. QED
  BY <1>8, <1>9, <1>10

LEMMA ConcatFacts ==
  ASSUME NEW X, NEW a \in Seq(X), NEW b \in Seq(X)
  PROVE  a \o b \in Seq(X) /\ ToSet(a \o b) = ToSet(a) \cup ToSet(b)
<1>1. a \o b \in Seq(X) /\ Len(a \o b) = Len(a) + Len(b)
  BY ConcatProperties
<1>2. \A i \in 1..(Len(a) + Len(b)) : (a \o b)[i] = IF i <= Len(a) THEN a[i] ELSE b[i - Len(a)]
  BY ConcatProperties
<1>3. /\ Len(a) \in Nat /\ DOMAIN a = 1..Len(a) /\ Len(b) \in Nat /\ DOMAIN b = 1..Len(b)
      /\ DOMAIN (a \o b) = 1..(Len(a) + Len(b))
  BY <1>1, SeqFacts
<1> DEFINE ab == a \o b
<1> HIDE DEF ab
<1>4. \A x \in ToSet(ab) : x \in ToSet(a) \cup ToSet(b)
  <2> SUFFICES ASSUME NEW i \in DOMAIN ab PROVE ab[i] \in ToSet(a) \cup ToSet(b)
    BY DEF ToSet
  <2>1. i \in 1..(Len(a) + Len(b))
    BY <1>3 DEF ab
  <2>2. CASE i <= Len(a)
    BY <1>2, <1>3, <2>1, <2>2 DEF ab, ToSet
  <2>3. CASE ~(i <= Len(a))
    <3>1. i - Len(a) \in DOMAIN b /\ ab[i] = b[i - Len(a)]
      BY <1>2, <1>3, <2>1, <2>3 DEF ab
    <3>. QED
      BY <3>1 DEF ToSet
  <2>. QED
    BY <2>2, <2>3
<1>5. \A i \in DOMAIN a : a[i] \in ToSet(ab)
  <2> SUFFICES ASSUME NEW i \in DOMAIN a PROVE a[i] \in ToSet(ab)
    OBVIOUS
  <2>1. i \in DOMAIN ab /\ ab[i] = a[i]
    BY <1>2, <1>3 DEF ab
  <2>. QED
    BY <2>1 DEF ToSet
<1>6. \A i \in DOMAIN b : b[i] \in ToSet(ab)
  <2> SUFFICES ASSUME NEW i \in DOMAIN b PROVE b[i] \in ToSet(ab)
    OBVIOUS
  <2>1. i + Len(a) \in DOMAIN ab /\ ab[i + Len(a)] = b[i]
    BY <1>2, <1>3 DEF ab
  <2>. QED
    BY <2>1 DEF ToSet
<1>7. ToSet(ab) = ToSet(a) \cup ToSet(b)
  BY <1>4, <1>5, <1>6 DEF ToSet
<1>. QED
  BY <1>1, <1>7 DEF ab

LEMMA FullEntryReceived ==
  ASSUME NEW s \in StateType, NEW q, TblType(tbl), s.fault[1] = "none", Dt \in Windows,
         Win(s, Dt, q, tbl), s.m[Dt].key = Procs, s.lis[Procs] # NULL
  PROVE  Received(ModelFullEntry(s, Dt, Procs), s, Dt, q, tbl)
<1> DEFINE w == Dt
           k == Procs
           mw == s.m[w]
           in == [mw EXCEPT !.lines = tbl[k] \o mw.lines]
           s1 == Put(s, w, in)
           s2 == FilterApply(s1, w)
           m3 == [s2.m[w] EXCEPT !.lis = k, !.blocking = FALSE]
           t  == ModelFullEntry(s, w, k)
<1>1. mw \in ModelType /\ k \in Keys /\ k # NULL
  BY StateFacts, ListsAssumption DEF Keys
<1>2. tbl[k] \o mw.lines \in Seq(Recs \cup {Freed})
  BY <1>1, TableFacts, ModelFacts, ConcatFacts
<1>3. in \in ModelType /\ in.key = mw.key
  BY <1>1, <1>2 DEF ModelType
<1>4. [s EXCEPT !.m[w].lines = tbl[k] \o @] = s1
  BY DEF Put
<1> HIDE DEF in
<1>5. s1 \in StateType /\ Apart(s1, s, w) /\ s1.m[w] = in /\ s1.sel = s.sel /\ s1.fault = s.fault
  BY <1>3, PutFacts
<1> HIDE DEF s1
<1>6. /\ s2 \in StateType /\ Apart(s2, s1, w) /\ s2.sel = s1.sel /\ SameBut(s2.m[w], in)
      /\ \/ s2.fault = <<"head", w>> /\ in.head = NULL
         \/ s2.fault = <<"freed", w>>
         \/ s2.fault = s.fault
  BY <1>5, FilterFacts
<1> HIDE DEF s2
<1>7. /\ m3 \in ModelType /\ m3.lis = k /\ ~m3.blocking /\ m3.head = in.head /\ m3.key = in.key
  <2>1. s2.m[w] \in ModelType
    BY <1>6, StateFacts
  <2>. QED
    BY <1>1, <1>6, <2>1 DEF ModelType, SameBut
<1>8. t = Put(s2, w, m3)
  <2>1. t = [s2 EXCEPT !.m[w].lis = k, !.m[w].blocking = FALSE]
    BY <1>4 DEF ModelFullEntry, s2
  <2>. QED
    BY <1>6, <2>1 DEF Put, StateType
<1> HIDE DEF m3
<1>9. /\ t \in StateType /\ Apart(t, s2, w) /\ t.m[w] = m3 /\ t.sel = s2.sel /\ t.fault = s2.fault
  BY <1>6, <1>7, <1>8, PutFacts
<1> HIDE DEF t
<1>10. t.lis = s.lis /\ (\A v \in Windows \ {w} : t.m[v] = s.m[v]) /\ t.sel = s.sel
  BY <1>5, <1>6, <1>9 DEF Apart
<1>11. LisKept(t.lis, s.lis)
  BY <1>10 DEF LisKept
<1>12. Known(t, q)
  <2>1. CASE s2.fault = <<"head", w>> /\ in.head = NULL
    BY <1>7, <1>9, <2>1 DEF Known
  <2>2. CASE s2.fault = <<"freed", w>>
    BY <1>9, <2>2 DEF Known
  <2>3. CASE s2.fault = s.fault
    BY <1>9, <2>3 DEF Known
  <2>. QED
    BY <1>6, <2>1, <2>2, <2>3
<1>13. \A r : Win(t, w, r, tbl)
  BY <1>1, <1>3, <1>7, <1>9, <1>10 DEF Win, Tied
<1>. QED
  BY <1>3, <1>7, <1>9, <1>10, <1>11, <1>12, <1>13 DEF Received, t

(* What a window of a directory sorts after its event.                     *)
Entering(mw, l, k) ==
  [(IF mw.pfval # NULL THEN mw ELSE [mw EXCEPT !.pfval = l.fval, !.ptop = l.top, !.plnum = l.lnum])
     EXCEPT !.head = k, !.cur = Head(tbl[k]), !.lis = k, !.lines = @ \o tbl[k]]

LEMMA EnteringFacts ==
  ASSUME NEW mw \in ModelType, NEW l \in LisType, NEW k \in Keys, TblType(tbl), tbl[k] # <<>>
  PROVE  LET in == Entering(mw, l, k) IN
         /\ in \in ModelType /\ in.head = k /\ in.cur = Head(tbl[k]) /\ in.lis = k
         /\ in.lines = mw.lines \o tbl[k] /\ in.key = mw.key /\ in.blocking = mw.blocking
         /\ in.filter = mw.filter /\ in.pfval # NULL
         /\ Sane(mw.ptop, mw.plnum) /\ Sane(l.top, l.lnum) => Sane(in.ptop, in.plnum)
<1> DEFINE at == IF mw.pfval # NULL THEN mw
                 ELSE [mw EXCEPT !.pfval = l.fval, !.ptop = l.top, !.plnum = l.lnum]
           h == Head(tbl[k])
           ls == mw.lines \o tbl[k]
           in == Entering(mw, l, k)
<1>1. l.fval # NULL /\ l.fval \in Recs \cup {NoValue, Freed} /\ l.top \in Int /\ l.lnum \in Int
  BY ListsAssumption DEF LisType
<1>2. /\ at \in ModelType /\ at.key = mw.key /\ at.blocking = mw.blocking /\ at.lines = mw.lines
      /\ at.filter = mw.filter /\ at.pfval # NULL
      /\ Sane(mw.ptop, mw.plnum) /\ Sane(l.top, l.lnum) => Sane(at.ptop, at.plnum)
  <2>1. CASE mw.pfval # NULL
    BY <2>1
  <2>2. CASE mw.pfval = NULL
    BY <1>1, <2>2 DEF ModelType
  <2>. QED
    BY <2>1, <2>2
<1>3. in = [at EXCEPT !.head = k, !.cur = h, !.lis = k, !.lines = ls]
  BY <1>2 DEF Entering
<1>4. h \in Recs /\ ls \in Seq(Recs \cup {Freed})
  BY TableFacts, ModelFacts, ConcatFacts
<1> HIDE DEF at, h, ls, in
<1>5. /\ in \in ModelType /\ in.head = k /\ in.cur = h /\ in.lis = k /\ in.lines = ls
      /\ in.key = at.key /\ in.blocking = at.blocking /\ in.filter = at.filter
      /\ in.pfval = at.pfval /\ in.ptop = at.ptop /\ in.plnum = at.plnum
  BY <1>2, <1>3, <1>4 DEF ModelType
<1>. QED
  BY <1>2, <1>5 DEF h, ls, in

(* The lines it gets, if it had none.                                      *)
EntersWith(out, old, k, pattern) ==
  IF pattern = NoFilter THEN out = old \o tbl[k] ELSE out = Matching(tbl[k], pattern)

LEMMA EnteredLines ==
  ASSUME TblType(tbl), NEW k \in Keys, NEW old \in Seq(Recs \cup {Freed}), NEW pattern, NEW out,
         EntersWith(out, old, k, pattern)
  PROVE  old = <<>> => /\ ToSet(out) = ToSet(Matching(tbl[k], pattern))
                       /\ ToSet(out) \subseteq ToSet(tbl[k])
<1>1. ToSet(Matching(tbl[k], pattern)) \subseteq ToSet(tbl[k])
  BY MatchFacts
<1>4. ASSUME pattern = NoFilter PROVE ToSet(Matching(tbl[k], pattern)) = ToSet(tbl[k])
  <2>1. ToSet(Matching(tbl[k], NoFilter)) = ToSet(tbl[k])
    BY MatchFacts
  <2>. QED
    BY <1>4, <2>1
<1>2. tbl[k] \in Seq(Recs \cup {Freed})
  BY TableFacts
<1>3. ToSet(old \o tbl[k]) = ToSet(old) \cup ToSet(tbl[k]) /\ (old = <<>> <=> ToSet(old) = {})
  BY <1>2, ConcatFacts, SeqFacts
<1>. QED
  BY <1>1, <1>3, <1>4 DEF EntersWith

LEMMA ReadEntryReceived ==
  ASSUME NEW s \in StateType, NEW w \in Windows, NEW q, TblType(tbl), s.fault[1] = "none",
         w # Dt, Win(s, w, q, tbl), s.m[w].blocking, s.m[w].key \in Dirs,
         s.lis[s.m[w].key] # NULL, LisOK(s.m[w].key, s.lis, tbl), ~Bare(tbl, s.m[w].key)
  PROVE  Received(ModelReadEntry(s, w, s.m[w].key), s, w, q, tbl)
<1> DEFINE mw == s.m[w]
           k  == mw.key
           l  == s.lis[k]
           in == Entering(mw, l, k)
           s1 == Put(s, w, in)
           s2 == FilterApply(s1, w)
           m2 == s2.m[w]
           s3 == ModelSort(s2, w)
           m3 == s3.m[w]
           t  == ModelReadEntry(s, w, k)
           nm == t.m[w]
           u  == w \in q
<1>1. mw \in ModelType /\ k \in Keys /\ k # NULL /\ l \in LisType /\ Sane(l.top, l.lnum)
  BY StateFacts, ListsAssumption DEF Keys, LisOK
<1>2. Tied(mw, s.lis) /\ Steady(mw, u, tbl) /\ mw.blocking
  BY DEF Win, WindowOK
<1>0. mw.key = k /\ k \in Dirs
  OBVIOUS
<1>17. tbl[k] # <<>> /\ Freed \notin ToSet(tbl[k]) /\ Head(tbl[k]) \in ToSet(tbl[k])
  BY <1>1, TableFacts DEF Bare
<1>18. l = s.lis[k] /\ s.lis[k] # NULL
  OBVIOUS
<1> HIDE DEF k, l
<1>3. /\ in \in ModelType /\ in.head = k /\ in.cur = Head(tbl[k]) /\ in.lis = k
      /\ in.lines = mw.lines \o tbl[k] /\ in.key = mw.key /\ in.blocking = mw.blocking
      /\ in.filter = mw.filter /\ in.pfval # NULL
      /\ (Sane(mw.ptop, mw.plnum) /\ Sane(l.top, l.lnum) => Sane(in.ptop, in.plnum))
  <2> HIDE DEF mw
  <2>. QED
    BY <1>1, <1>17, EnteringFacts
<1>5. Sane(in.ptop, in.plnum) /\ (~u => mw.lines = <<>>)
  BY <1>1, <1>2, <1>3 DEF Steady
<1>6. t = Unblock(s3, w)
  <2>1. [s EXCEPT !.m[w] = in] = s1
    BY DEF Put
  <2>. QED
    BY <2>1 DEF ModelReadEntry, Unblock, Entering, l
<1> HIDE DEF in, u
<1>7. s1 \in StateType /\ Apart(s1, s, w) /\ s1.m[w] = in /\ s1.sel = s.sel /\ s1.fault = s.fault
  BY <1>3, PutFacts
<1> HIDE DEF s1, t
<1>8. /\ s2 \in StateType /\ Apart(s2, s1, w) /\ s2.sel = s1.sel
      /\ SameBut(m2, in) /\ m2.cur = in.cur /\ m2.pfval = in.pfval
      /\ m2.ptop = in.ptop /\ m2.plnum = in.plnum
      /\ s2.fault = s.fault
      /\ IF in.filter = NoFilter THEN m2.lines = in.lines
         ELSE m2.lines = Matching(tbl[k], in.filter)
  <2>1. /\ s2 \in StateType /\ Apart(s2, s1, w) /\ s2.sel = s1.sel
        /\ SameBut(m2, in) /\ m2.cur = in.cur /\ m2.pfval = in.pfval
        /\ m2.ptop = in.ptop /\ m2.plnum = in.plnum
        /\ \/ s2.fault = <<"head", w>> /\ in.head = NULL
           \/ s2.fault = <<"freed", w>> /\ in.head = Freed
           \/ /\ s2.fault = s1.fault
              /\ IF in.filter = NoFilter THEN m2.lines = in.lines
                 ELSE in.head \in Keys /\ m2.lines = Matching(tbl[in.head], in.filter)
    BY <1>7, FilterFacts
  <2>2. in.head # NULL /\ in.head # Freed
    BY <1>1, <1>3, ListsAssumption
  <2> HIDE DEF m2, s2
  <2>. QED
    BY <1>3, <1>7, <2>1, <2>2
<1> HIDE DEF s2
<1>9. /\ s3 \in StateType /\ Apart(s3, s2, w) /\ SameBut(m3, m2)
      /\ \/ s3.fault = <<"freed", w>> /\ Freed \in ToSet(m2.lines)
         \/ s3.fault = s2.fault /\ s3.sel = SelectClear(s2, w).sel /\ Resorted(m3, m2)
  <2>1. /\ s3 \in StateType /\ Apart(s3, s2, w) /\ SameBut(m3, m2)
        /\ \/ /\ s3.fault = <<"freed", w>>
              /\ Freed \in ToSet(m2.lines) \/ (~m2.blocking /\ m2.cur = Freed)
           \/ /\ s3.fault = <<"value", w>> /\ m3.cur = m2.cur
              /\ IF m2.blocking THEN m2.pfval = NULL ELSE m2.cur = NULL
           \/ s3.fault = s2.fault /\ s3.sel = SelectClear(s2, w).sel /\ Resorted(m3, m2)
    BY <1>7, <1>8, SortResult
  <2>2. m2.blocking /\ m2.pfval # NULL
    BY <1>3, <1>8 DEF SameBut
  <2> HIDE DEF m2, m3, s3
  <2>. QED
    BY <2>1, <2>2
<1> HIDE DEF s3
<1>10. /\ t \in StateType /\ Apart(t, s3, w) /\ t.sel = s3.sel /\ t.fault = s3.fault
       /\ nm.key = m3.key /\ nm.blocking = FALSE /\ nm.cur = m3.cur /\ nm.head = m3.head
       /\ nm.lis = m3.lis /\ nm.ptop = m3.ptop /\ nm.plnum = m3.plnum /\ nm.lines = m3.lines
       /\ nm.sort = m3.sort /\ nm.filter = m3.filter /\ nm.top = m3.top /\ nm.lnum = m3.lnum
  BY <1>6, <1>9, UnblockedFacts
<1>11. m2 \in ModelType /\ m3 \in ModelType /\ nm \in ModelType
  BY <1>8, <1>9, <1>10, StateFacts
<1> HIDE DEF nm, m2, m3
<1>12. t.lis = s.lis /\ \A v \in Windows \ {w} : t.m[v] = s.m[v]
  BY <1>7, <1>8, <1>9, <1>10 DEF Apart
<1>13. LisKept(t.lis, s.lis)
  BY <1>12 DEF LisKept
<1>14. mw.lines = <<>> => ToSet(m2.lines) = ToSet(Matching(tbl[k], m2.filter)) /\ ToSet(m2.lines) \subseteq ToSet(tbl[k])
  <2> DEFINE pat == m2.filter
             ls == mw.lines
             out == m2.lines
  <2>1. pat = in.filter
    BY <1>8 DEF SameBut
  <2>2. EntersWith(out, ls, k, pat)
    BY <1>3, <1>8, <2>1 DEF EntersWith
  <2>3. ls \in Seq(Recs \cup {Freed})
    BY <1>1, ModelFacts
  <2> HIDE DEF pat, ls, out
  <2>4. ls = <<>> => ToSet(out) = ToSet(Matching(tbl[k], pat)) /\ ToSet(out) \subseteq ToSet(tbl[k])
    <3>1. k \in Keys
      BY <1>1
    <3>. QED
      BY <2>2, <2>3, <3>1, EnteredLines
  <2>. QED
    BY <2>4 DEF pat, ls, out
<1>15. Known(t, q)
  <2>1. CASE s3.fault = <<"freed", w>> /\ Freed \in ToSet(m2.lines)
    <3>2. u
      BY <1>5, <1>14, <1>17, <2>1
    <3>. QED
      BY <1>10, <2>1, <3>2 DEF Known, u
  <2>2. CASE s3.fault = s2.fault
    BY <1>8, <1>10, <2>2 DEF Known
  <2>. QED
    BY <1>9, <2>1, <2>2
<1>16. ASSUME t.fault[1] = "none"
       PROVE  /\ t.sel = SelectClear(s, w).sel /\ nm.key = mw.key
              /\ Win(t, w, IF mw.lines = <<>> THEN q \ {w} ELSE q, tbl)
  <2> DEFINE r == IF mw.lines = <<>> THEN q \ {w} ELSE q
  <2>1. w \in r => u
    BY DEF u
  <2>2. w \notin r => ~u \/ mw.lines = <<>>
    BY DEF u
  <2> HIDE DEF r
  <2>3. s3.sel = SelectClear(s2, w).sel /\ Resorted(m3, m2)
    BY <1>9, <1>10, <1>16
  <2>4. t.sel = SelectClear(s, w).sel
    BY <1>7, <1>8, <1>10, <2>3 DEF SelectClear, StateType
  <2>5. /\ nm.key = k /\ nm.lis = k /\ nm.head = k /\ nm.filter = m2.filter /\ nm.sort = m3.sort
    BY <1>0, <1>3, <1>8, <1>9, <1>10 DEF SameBut
  <2>6. Tied(nm, t.lis)
    BY <1>1, <1>12, <1>18, <2>5 DEF Tied
  <2>7. m2.blocking /\ Sane(m2.ptop, m2.plnum)
    BY <1>3, <1>5, <1>8 DEF SameBut
  <2>8. Sane(m3.ptop, m3.plnum) /\ Sane(m3.top, m3.lnum) /\ (OnLine(m3) \/ Astray(m3))
    BY <2>3, <2>7 DEF Resorted
  <2>9. OnLine(nm) \/ Astray(nm)
    BY <1>10, <2>8 DEF OnLine, Astray
  <2>10. OnLine(nm) => nm.cur = nm.lines[nm.top + nm.lnum + 1]
    BY <1>10, <2>3 DEF Resorted, OnLine
  <2>11. w \notin r => InSync(nm, tbl)
    <3> SUFFICES ASSUME w \notin r PROVE InSync(nm, tbl)
      OBVIOUS
    <3>1. mw.lines = <<>>
      BY <1>5, <2>2
    <3>2. ToSet(nm.lines) = ToSet(m2.lines) /\ InOrder(nm)
      BY <1>10, <2>3 DEF Resorted, InOrder
    <3>3. nm.cur \in ToSet(tbl[k])
      <4>1. nm.cur = (IF At(m3) = NULL THEN m2.cur ELSE At(m3))
        BY <1>10, <2>3 DEF Resorted
      <4>2. At(m3) # NULL => At(m3) \in ToSet(m3.lines)
        BY <1>11, AtFacts
      <4>3. m2.cur \in ToSet(tbl[k])
        BY <1>3, <1>8, <1>17
      <4>. QED
        BY <1>10, <1>14, <3>1, <3>2, <4>1, <4>2, <4>3
    <3>4. ToSet(nm.lines) = ToSet(Matching(tbl[nm.key], nm.filter))
      BY <1>14, <2>5, <3>1, <3>2
    <3>. QED
      BY <2>5, <3>2, <3>3, <3>4 DEF InSync
  <2>12. WindowOK(nm, w \in r, tbl)
    <3>1. Steady(nm, w \in r, tbl)
      BY <1>0, <1>1, <1>10, <2>5, <2>8, <2>9, <2>11 DEF Steady
    <3>. QED
      BY <2>10, <3>1 DEF WindowOK
  <2>13. Win(t, w, r, tbl)
    BY <2>6, <2>12 DEF Win, nm
  <2>. QED
    BY <1>0, <2>4, <2>5, <2>13 DEF r
<1>. QED
  BY <1>10, <1>12, <1>13, <1>15, <1>16 DEF Received, t, nm, k

LEMMA RecvReceived ==
  ASSUME NEW s \in StateType, NEW w \in Windows, NEW q, NEW T, TblType(T), TblType(tbl),
         s.fault[1] = "none", Win(s, w, q, T), s.m[w].blocking, s.m[w].key \in Keys,
         w # Dt => LisOK(s.m[w].key, s.lis, T), s.lis[s.m[w].key].rec # NULL => T = tbl
  PROVE  Received(ModelRecv(s, w), s, w, q, T)
<1> DEFINE mw == s.m[w]
           k  == mw.key
<1>1. mw \in ModelType /\ k \in Keys /\ k # NULL
  BY StateFacts, ListsAssumption
<1>2. Tied(mw, s.lis) /\ s.lis[k] # NULL
  BY <1>1 DEF Win, Tied
<1>3. ModelRecv(s, w) = IF s.lis[k].rec = NULL THEN ModelNullEntry(s, w, k)
                        ELSE IF w = Dt THEN ModelFullEntry(s, w, k) ELSE ModelReadEntry(s, w, k)
  BY DEF ModelRecv
<1>4. CASE s.lis[k].rec = NULL
  <2>1. w # Dt => Bare(T, k)
    <3> SUFFICES ASSUME w # Dt PROVE Bare(T, k)
      OBVIOUS
    <3>1. LisOK(k, s.lis, T)
      OBVIOUS
    <3>2. NULL \notin {k} \X Names
      BY <1>1, ListsAssumption DEF Recs
    <3>. QED
      BY <1>2, <1>4, <3>1, <3>2 DEF LisOK, Bare
  <2>2. ModelRecv(s, w) = ModelNullEntry(s, w, k)
    BY <1>3, <1>4
  <2>3. mw.key = k /\ s.m[w].key = k
    OBVIOUS
  <2> HIDE DEF k
  <2>4. Received(ModelNullEntry(s, w, k), s, w, q, T)
    BY <1>1, <1>2, <2>1, <2>3, NullEntryReceived
  <2>. QED
    BY <2>2, <2>4
<1>5. CASE s.lis[k].rec # NULL /\ w = Dt
  <2>1. k = Procs /\ T = tbl
    BY <1>1, <1>5 DEF Win
  <2>2. ModelRecv(s, w) = ModelFullEntry(s, Dt, Procs)
    BY <1>3, <1>5, <2>1
  <2>3. Dt \in Windows /\ Win(s, Dt, q, tbl) /\ s.m[Dt].key = Procs /\ s.lis[Procs] # NULL
    BY <1>2, <1>5, <2>1
  <2>4. Received(ModelFullEntry(s, Dt, Procs), s, Dt, q, tbl)
    BY <2>3, FullEntryReceived
  <2>. QED
    BY <1>5, <2>1, <2>2, <2>4
<1>6. CASE s.lis[k].rec # NULL /\ w # Dt
  <2>1. T = tbl /\ k \in Dirs
    BY <1>1, <1>6 DEF Win, WindowOK, Steady
  <2>2. LisOK(k, s.lis, tbl)
    BY <1>6, <2>1
  <2>3. ~Bare(tbl, k)
    BY <1>2, <1>6, <2>2 DEF LisOK, Bare
  <2>4. ModelRecv(s, w) = ModelReadEntry(s, w, s.m[w].key) /\ Win(s, w, q, tbl)
    BY <1>3, <1>6, <2>1
  <2>5. Received(ModelReadEntry(s, w, s.m[w].key), s, w, q, tbl)
    BY <1>2, <1>6, <2>1, <2>2, <2>3, <2>4, ReadEntryReceived
  <2>. QED
    BY <2>1, <2>4, <2>5
<1>. QED
  BY <1>4, <1>5, <1>6

(* Safe but for what is not known yet of one window.                       *)
LEMMA FewerUnsaid ==
  ASSUME NEW s, NEW q, NEW r, r \subseteq q, Known(s, r)
  PROVE  Known(s, q)
BY DEF Known

LEMMA ReceivedWin ==
  ASSUME NEW s \in StateType, NEW t, NEW w \in Windows, w # Dt, NEW q, NEW r, NEW T, r \subseteq q,
         \A v \in Windows \ {w} : v \in r <=> v \in q,
         s.m[w].lines = <<>> \/ (w \in r <=> w \in q), w \in r => s.m[w].lines # <<>>,
         \A v \in Windows : Win(s, v, q, T), SelectionOK(s), Received(t, s, w, q, T),
         t.fault[1] = "none"
  PROVE  SelectionOK(t) /\ \A v \in Windows : Win(t, v, r, T)
<1>1. /\ t \in StateType /\ LisKept(t.lis, s.lis)
      /\ \A v \in Windows \ {w} : t.m[v] = s.m[v]
      /\ t.sel = SelectClear(s, w).sel
      /\ Win(t, w, IF s.m[w].lines = <<>> THEN q \ {w} ELSE q, T)
  BY DEF Received
<1>2. Win(t, w, r, T)
  BY <1>1 DEF Win
<1>3. ASSUME NEW v \in Windows \ {w} PROVE Win(t, v, r, T)
  <2>1. Win(s, v, q, T) /\ t.m[v] = s.m[v] /\ (v \in r <=> v \in q) /\ s.m[v] \in ModelType
    BY <1>1, StateFacts
  <2>2. Tied(t.m[v], t.lis)
    BY <1>1, <2>1, KeptFacts DEF Win
  <2>. QED
    BY <2>1, <2>2 DEF Win
<1>4. SelectionOK(t)
  <2>1. /\ s.sel.enabled => s.sel.active
        /\ s.sel.active => s.sel.owner \in Windows
        /\ s.sel.active /\ s.sel.owner # Dt => Within(s.sel, s.m[s.sel.owner])
    BY SelFacts
  <2>2. CASE s.sel.owner = w
    <3>1. ~t.sel.enabled /\ ~t.sel.active
      BY <1>1, <2>2, ClearFacts
    <3>. QED
      BY <3>1, SelFacts
  <2>3. CASE s.sel.owner # w
    <3>1. t.sel = s.sel
      BY <1>1, <2>3, ClearFacts
    <3>2. s.sel.active => t.m[s.sel.owner] = s.m[s.sel.owner]
      BY <1>1, <2>1, <2>3
    <3>. QED
      BY <2>1, <3>1, <3>2, SelFacts
  <2>. QED
    BY <2>2, <2>3
<1>. QED
  BY <1>2, <1>3, <1>4

LEMMA RecvAll ==
  ASSUME NEW s \in StateType, NEW W, W \subseteq Windows, NEW d \in Dirs, \A w \in W : s.m[w].key = d,
         NEW q, NEW T, TblType(T), TblType(tbl), Safe(s, q, T), LisOK(d, s.lis, T),
         s.lis[d] # NULL /\ s.lis[d].rec # NULL => T = tbl
  PROVE  LET r == ForEach(ModelRecv, s, W)
             recv == {w \in W : s.m[w].blocking /\ s.m[w].lines = <<>>}
         IN  /\ r \in StateType /\ LisKept(r.lis, s.lis)
             /\ \A v \in Windows \ W : r.m[v] = s.m[v]
             /\ r.fault[1] = "none" => \A v \in Windows : r.m[v].key = s.m[v].key
             /\ Safe(r, IF r.fault[1] = "none" THEN q \ recv ELSE q, T)
<1> DEFINE recv == {w \in W : s.m[w].blocking /\ s.m[w].lines = <<>>}
           Step(g, U) == IF U = {} THEN s ELSE ModelRecv(g[U \ {Picked(U)}], Picked(U))
           Is(g) == g = [U \in SUBSET W |-> Step(g, U)]
           Near(g) == \A U \in SUBSET W : g[U] = Step(g, U) \/ Step(g, U) \notin StateType
           Left(U) == q \ (recv \cap U)
           Good(r, U) ==
             /\ r \in StateType /\ LisKept(r.lis, s.lis)
             /\ \A v \in Windows \ U : r.m[v] = s.m[v]
             /\ r.fault[1] = "none" => \A v \in Windows : r.m[v].key = s.m[v].key
             /\ Known(r, q)
             /\ r.fault[1] = "none" => SelectionOK(r) /\ \A v \in Windows : Win(r, v, Left(U), T)
<1>1. ForEach(ModelRecv, s, W) = (CHOOSE g : Is(g))[W]
  BY DEF ForEach, FoldSet, MapThenFoldSet, Picked
<1>2. IsFiniteSet(W)
  BY ListsAssumption, FS_Subset
<1>3. \A U \in SUBSET W : U # {} => Picked(U) \in U /\ U \ {Picked(U)} \in SUBSET W
  BY DEF Picked
<1>4. d \in Keys /\ d # Procs /\ d # NULL
  BY ListsAssumption DEF Keys
<1>5. \A w \in W : w \in Windows /\ (s.fault[1] = "none" => w # Dt)
  <2> SUFFICES ASSUME NEW w \in W, s.fault[1] = "none" PROVE w # Dt
    OBVIOUS
  <2>1. Win(s, w, q, T) /\ s.m[w].key = d
    BY SafeFacts
  <2>. QED
    BY <1>4, <2>1 DEF Win
<1>6. LisKept(s.lis, s.lis)
  BY DEF LisKept
<1>7. Good(s, {})
  BY <1>6, SafeFacts
<1>8. ASSUME NEW r, NEW U \in SUBSET W, NEW w \in U, Good(r, U \ {w})
      PROVE  ModelRecv(r, w) \in StateType /\ Good(ModelRecv(r, w), U)
  <2> DEFINE t == ModelRecv(r, w)
             p == Left(U \ {w})
             l == Left(U)
  <2>1. w \in Windows /\ w \in W /\ r \in StateType /\ LisKept(r.lis, s.lis) /\ Known(r, q)
        /\ r.m[w] = s.m[w] /\ r.m[w].key = d
    BY <1>8
  <2>2. \A v \in Windows \ {w} : v \in l <=> v \in p
    OBVIOUS
  <2>3. w \in p <=> w \in q
    OBVIOUS
  <2>4. w \in l <=> w \in q /\ ~(r.m[w].blocking /\ r.m[w].lines = <<>>)
    BY <2>1
  <2>5. p \subseteq q /\ l \subseteq p
    OBVIOUS
  <2>6. r.fault[1] = "none" => SelectionOK(r) /\ \A v \in Windows : Win(r, v, p, T)
    BY <1>8
  <2> HIDE DEF p, l, t
  <2>7. CASE ~r.m[w].blocking \/ r.fault[1] # "none"
    <3>1. t = r
      BY <2>7 DEF ModelRecv, t
    <3>2. ASSUME r.fault[1] = "none", NEW v \in Windows PROVE Win(r, v, l, T)
      <4>1. v \in l <=> v \in p
        BY <2>2, <2>3, <2>4, <2>7, <3>2
      <4>2. Win(r, v, p, T)
        BY <2>6, <3>2
      <4>. QED
        BY <4>1, <4>2 DEF Win
    <3>3. \A v \in Windows \ U : r.m[v] = s.m[v]
      BY <1>8
    <3>4. Good(r, U)
      BY <1>8, <2>1, <2>6, <3>2, <3>3 DEF l
    <3>. QED
      BY <2>1, <3>1, <3>4 DEF t
  <2>8. CASE r.m[w].blocking /\ r.fault[1] = "none"
    <3>1. SelectionOK(r) /\ \A v \in Windows : Win(r, v, p, T)
      BY <2>6, <2>8
    <3>2. w # Dt
      BY <1>4, <2>1, <3>1 DEF Win
    <3>3. LisOK(d, r.lis, T)
      BY <1>4, <2>1, KeptFacts
    <3>4. r.lis[d] # NULL
      BY <1>4, <2>1, <3>1 DEF Win, Tied
    <3>5. r.lis[d].rec # NULL => T = tbl
      BY <1>4, <2>1, <3>4 DEF LisKept
    <3>6. Received(t, r, w, p, T)
      <4>1. r.m[w].key \in Keys /\ LisOK(r.m[w].key, r.lis, T) /\ Win(r, w, p, T)
            /\ (r.lis[r.m[w].key].rec # NULL => T = tbl)
        BY <1>4, <2>1, <3>1, <3>3, <3>5
      <4>. QED
        BY <2>1, <2>8, <4>1, RecvReceived DEF t
    <3>7. /\ t \in StateType /\ LisKept(t.lis, r.lis) /\ \A v \in Windows \ {w} : t.m[v] = r.m[v]
          /\ Known(t, p) /\ (t.fault[1] = "none" => t.m[w].key = r.m[w].key)
      BY <3>6 DEF Received
    <3>9. LisKept(t.lis, s.lis)
      BY <2>1, <3>7 DEF LisKept
    <3>10. Known(t, q)
      BY <2>5, <3>7, FewerUnsaid
    <3>11. ASSUME t.fault[1] = "none" PROVE SelectionOK(t) /\ \A v \in Windows : Win(t, v, l, T)
      <4>1. r.m[w].lines = <<>> \/ (w \in l <=> w \in p)
        BY <2>3, <2>4
      <4>2. w \in l => r.m[w].lines # <<>>
        BY <2>4, <2>8
      <4>. QED
        BY <2>1, <2>2, <2>5, <3>1, <3>2, <3>6, <3>11, <4>1, <4>2, ReceivedWin
    <3>12. t.fault[1] = "none" => \A v \in Windows : t.m[v].key = s.m[v].key
      BY <1>8, <2>1, <2>8, <3>7
    <3>13. \A v \in Windows \ U : t.m[v] = s.m[v]
      BY <1>8, <3>7
    <3>14. Good(t, U)
      BY <3>7, <3>9, <3>10, <3>11, <3>12, <3>13 DEF l
    <3>. QED
      BY <3>7, <3>14 DEF t
  <2>. QED
    BY <2>1, <2>7, <2>8, StateFacts
<1> HIDE DEF Good
<1>9. ASSUME NEW g, Near(g), NEW U \in SUBSET W
      PROVE  g[U] = Step(g, U) /\ Step(g, U) \in StateType /\ Good(g[U], U)
  <2> DEFINE Fine(V) == g[V] = Step(g, V) /\ Step(g, V) \in StateType /\ Good(g[V], V)
             Bad == {V \in SUBSET W : ~Fine(V)}
  <2>1. SUFFICES ASSUME Bad # {} PROVE FALSE
    OBVIOUS
  <2>2. PICK V \in Bad : \A X \in Bad : X \subseteq V => X = V
    <3>1. Bad \subseteq SUBSET W
      OBVIOUS
    <3> HIDE DEF Bad
    <3>. QED
      BY <1>2, <2>1, <3>1, SmallestSet
  <2>3. V \in SUBSET W /\ ~Fine(V)
    BY <2>2
  <2>4. g[V] = Step(g, V) \/ Step(g, V) \notin StateType
    BY <1>9, <2>3
  <2>5. CASE V = {}
    <3>1. Step(g, V) = s
      BY <2>5
    <3>2. g[V] = s
      BY <2>4, <3>1
    <3>3. Good(g[V], V)
      BY <1>7, <2>5, <3>2
    <3>. QED
      BY <2>3, <3>1, <3>2, <3>3
  <2>6. CASE V # {}
    <3> DEFINE w == Picked(V)
               r == g[V \ {w}]
    <3>1. w \in V /\ V \ {w} \in SUBSET W
      BY <1>3, <2>3, <2>6
    <3>2. Good(r, V \ {w})
      <4>1. V \ {w} \notin Bad
        <5> HIDE DEF Bad
        <5>. QED
          BY <2>2, <3>1
      <4>2. Fine(V \ {w})
        BY <3>1, <4>1
      <4>. QED
        BY <4>2
    <3>3. Step(g, V) = ModelRecv(r, w)
      BY <2>6
    <3> HIDE DEF w, r
    <3>4. ModelRecv(r, w) \in StateType /\ Good(ModelRecv(r, w), V)
      BY <1>8, <2>3, <3>1, <3>2
    <3> HIDE DEF Step
    <3>5. Fine(V)
      BY <2>4, <3>3, <3>4
    <3>. QED
      BY <2>3, <3>5
  <2>. QED
    BY <2>5, <2>6
<1>10. \E g : Is(g)
  <2> DEFINE op == [x \in StateType \X W |-> IF ModelRecv(x[1], x[2]) \in StateType
                                             THEN ModelRecv(x[1], x[2]) ELSE s]
  <2>1. IsStep(op, W, StateType)
    BY DEF IsStep
  <2>2. \A x \in StateType, w \in W :
          op[<<x, w>>] = IF ModelRecv(x, w) \in StateType THEN ModelRecv(x, w) ELSE s
    OBVIOUS
  <2> HIDE DEF op
  <2>3. \E g : IsFold(g, W, StateType, s, op)
    BY <1>2, <2>1, FoldExists
  <2>4. PICK g : IsFold(g, W, StateType, s, op)
    BY <2>3
  <2>5. g \in [SUBSET W -> StateType]
        /\ \A U \in SUBSET W : g[U] = IF U = {} THEN s ELSE op[<<g[U \ {Picked(U)}], Picked(U)>>]
    BY <2>4 DEF IsFold
  <2>6. ASSUME NEW U \in SUBSET W PROVE g[U] = Step(g, U) \/ Step(g, U) \notin StateType
    <3>1. CASE U = {}
      BY <2>5, <3>1
    <3>2. CASE U # {}
      <4>1. g[U] = op[<<g[U \ {Picked(U)}], Picked(U)>>]
        BY <2>5, <3>2
      <4>2. g[U \ {Picked(U)}] \in StateType /\ Picked(U) \in W
        BY <1>3, <2>5, <3>2
      <4>. QED
        BY <2>2, <3>2, <4>1, <4>2
    <3>. QED
      BY <3>1, <3>2
  <2>7. Near(g)
    BY <2>6
  <2> HIDE DEF Near, Step
  <2>8. \A U \in SUBSET W : g[U] = Step(g, U)
    BY <1>9, <2>7
  <2>9. Is(g)
    BY <2>5, <2>8
  <2>. QED
    BY <2>9
<1>11. PICK g : Is(g) /\ ForEach(ModelRecv, s, W) = g[W]
  <2> HIDE DEF Is
  <2>. QED
    BY <1>1, <1>10
<1>12. Near(g)
  <2> HIDE DEF Step
  <2>. QED
    BY <1>11
<1>13. Good(g[W], W)
  <2> HIDE DEF Near, Step, Is
  <2>. QED
    BY <1>9, <1>12
<1> HIDE DEF Is, Near, Step
<1> DEFINE r == ForEach(ModelRecv, s, W)
<1>14. Good(r, W)
  BY <1>11, <1>13
<1> HIDE DEF r
<1>15. \A v : v \in Left(W) <=> v \in q \ recv
  OBVIOUS
<1>16. Safe(r, IF r.fault[1] = "none" THEN q \ recv ELSE q, T)
  <2>1. CASE r.fault[1] # "none"
    <3>1. Known(r, q)
      BY <1>14 DEF Good
    <3>. QED
      BY <2>1, <3>1, SafeFacts
  <2>2. CASE r.fault[1] = "none"
    <3>1. SelectionOK(r) /\ \A v \in Windows : Win(r, v, Left(W), T)
      BY <1>14, <2>2 DEF Good
    <3>2. \A v \in Windows : Win(r, v, q \ recv, T)
      BY <1>15, <3>1 DEF Win
    <3>3. Known(r, q \ recv)
      BY <2>2 DEF Known
    <3>. QED
      BY <2>2, <3>1, <3>2, <3>3, SafeFacts
  <2>. QED
    BY <2>1, <2>2
<1>. QED
  <2>1. /\ r \in StateType /\ LisKept(r.lis, s.lis)
        /\ \A v \in Windows \ W : r.m[v] = s.m[v]
        /\ r.fault[1] = "none" => \A v \in Windows : r.m[v].key = s.m[v].key
    BY <1>14 DEF Good
  <2>. QED
    BY <1>16, <2>1 DEF r, recv

-----------------------------------------------------------------------------
(* A window leaves its directory: its listener keeps where it was.         *)
SavedLis(l, mw) == [l EXCEPT !.top = mw.top, !.lnum = mw.lnum, !.fval = mw.cur]

LisSafe(l, t) == \A k \in Dirs : LisOK(k, l, t)

LEMMA SaveFacts ==
  ASSUME NEW s \in StateType, NEW w \in Windows, NEW T, Tied(s.m[w], s.lis), s.fault[1] = "none",
         LisSafe(s.lis, T), Sane(s.m[w].top, s.m[w].lnum)
  PROVE  LET t == ModelSave(s, w)
             nm == [s.m[w] EXCEPT !.pfval = IF s.m[w].cur = NULL THEN @ ELSE NULL]
         IN  /\ t \in StateType /\ t.m = [s.m EXCEPT ![w] = nm] /\ t.sel = s.sel
             /\ t.fault = s.fault \/ t.fault = <<"freed", w>>
             /\ LisSafe(t.lis, T) /\ \A k \in Keys : t.lis[k] = NULL <=> s.lis[k] = NULL
<1> DEFINE mw == s.m[w]
           nm == [mw EXCEPT !.pfval = IF mw.cur = NULL THEN mw.pfval ELSE NULL]
           t  == ModelSave(s, w)
           k  == mw.lis
           l  == SavedLis(s.lis[k], mw)
           s1 == Deref(s, {mw.cur}, w)
           s2 == PutLis(s1, k, l)
           m3 == [mw EXCEPT !.pfval = NULL]
           s3 == Put(s2, w, m3)
<1>1. mw \in ModelType
  BY StateFacts
<1>2. CASE mw.cur = NULL
  <2>1. t = s
    BY <1>2 DEF ModelSave
  <2>2. nm = mw
    BY <1>1, <1>2 DEF ModelType
  <2>3. s.m = [s.m EXCEPT ![w] = nm]
    BY <2>2, StateFacts
  <2>. QED
    BY <2>1, <2>3
<1>3. CASE mw.cur # NULL
  <2>1. k \in Keys /\ s.lis[k] \in LisType /\ s.lis[k] # NULL
    BY <1>1, <1>3, StateFacts DEF Tied, ModelType
  <2>2. /\ l \in LisType /\ l.rec = s.lis[k].rec /\ l.top = mw.top /\ l.lnum = mw.lnum
    BY <1>1, <1>3, <2>1 DEF LisType, ModelType, SavedLis
  <2>3. /\ s1 \in StateType /\ s1.m = s.m /\ s1.lis = s.lis /\ s1.sel = s.sel
        /\ s1.fault = s.fault \/ s1.fault = <<"freed", w>>
    BY DerefFacts
  <2>4. t = [s1 EXCEPT !.lis[mw.lis].top = mw.top, !.lis[mw.lis].lnum = mw.lnum,
                       !.lis[mw.lis].fval = mw.cur, !.m[w].pfval = NULL]
    BY <1>3 DEF ModelSave
  <2>5. m3 \in ModelType /\ m3 = nm
    BY <1>1, <1>3 DEF ModelType
  <2> HIDE DEF s1
  <2>6. t = s3
    <3>1. s1.m[w] = mw /\ s1.lis[k] = s.lis[k]
      BY <2>3
    <3> DEFINE l0 == s.lis[k]
               l1 == [l0 EXCEPT !.top = mw.top]
               l2 == [l1 EXCEPT !.lnum = mw.lnum]
               l3 == [l2 EXCEPT !.fval = mw.cur]
               a1 == [s1 EXCEPT !.lis[k].top = mw.top]
               a2 == [a1 EXCEPT !.lis[k].lnum = mw.lnum]
               a3 == [a2 EXCEPT !.lis[k].fval = mw.cur]
               a4 == [a3 EXCEPT !.m[w].pfval = NULL]
    <3>2. t = a4
      BY <2>4
    <3>3. l0 \in LisType /\ l1 \in LisType /\ l2 \in LisType /\ l3 \in LisType
      BY <1>1, <1>3, <2>1 DEF LisType, ModelType
    <3>4. l3 = l
      BY <2>1 DEF SavedLis, LisType
    <3> HIDE DEF l, t, l1, l2, l3, mw
    <3>5. a1 = PutLis(s1, k, l1)
      BY <3>1 DEF PutLis, l1
    <3> HIDE DEF a1
    <3>6. a1 \in StateType /\ a1.lis[k] = l1 /\ a1.m = s1.m
      BY <2>1, <2>3, <3>3, <3>5, PutLisFacts
    <3>7. a2 = PutLis(a1, k, l2)
      BY <3>6 DEF PutLis, l2
    <3> HIDE DEF a2
    <3>8. a2 \in StateType /\ a2.lis[k] = l2 /\ a2.m = a1.m
      BY <2>1, <3>3, <3>6, <3>7, PutLisFacts
    <3>9. a3 = PutLis(a2, k, l3)
      BY <3>8 DEF PutLis, l3
    <3>10. PutLis(PutLis(PutLis(s1, k, l1), k, l2), k, l3) = PutLis(s1, k, l3)
      BY <2>1, <2>3 DEF PutLis, StateType
    <3>11. a3 = s2
      BY <3>4, <3>5, <3>7, <3>9, <3>10
    <3>12. s2.m[w] = mw
      BY <2>1, <2>3, <3>1, <3>3, <3>4, PutLisFacts
    <3> HIDE DEF a3, s2
    <3>13. a4 = s3
      BY <3>11, <3>12 DEF Put
    <3>. QED
      BY <3>2, <3>13
  <2> HIDE DEF l
  <2>7. /\ s2 \in StateType /\ s2.m = s1.m /\ s2.sel = s1.sel /\ s2.fault = s1.fault
        /\ s2.lis[k] = l /\ l # NULL /\ \A j \in Keys \ {k} : s2.lis[j] = s1.lis[j]
    BY <2>1, <2>2, <2>3, PutLisFacts
  <2> HIDE DEF s2, m3
  <2>8. /\ s3 \in StateType /\ Apart(s3, s2, w) /\ s3.m[w] = m3 /\ s3.sel = s2.sel /\ s3.fault = s2.fault
    BY <2>5, <2>7, PutFacts
  <2>9. s3.m = [s.m EXCEPT ![w] = nm]
    BY <2>3, <2>5, <2>7 DEF Put, StateType
  <2> HIDE DEF s3, nm
  <2>10. \A j \in Keys : s3.lis[j] = NULL <=> s.lis[j] = NULL
    BY <2>1, <2>3, <2>7, <2>8 DEF Apart
  <2>11. ASSUME NEW j \in Dirs PROVE LisOK(j, s3.lis, T)
    <3>1. j \in Keys /\ LisOK(j, s.lis, T)
      BY DEF LisSafe, Keys
    <3>2. CASE j = k
      <4>1. s3.lis[j] = l
        BY <2>7, <2>8, <3>2 DEF Apart
      <4>. QED
        BY <2>1, <2>2, <3>1, <3>2, <4>1 DEF LisOK
    <3>3. CASE j # k
      <4>1. s3.lis[j] = s.lis[j]
        BY <2>3, <2>7, <2>8, <3>1, <3>3 DEF Apart
      <4>. QED
        BY <3>1, <4>1 DEF LisOK
    <3>. QED
      BY <3>2, <3>3
  <2>12. LisSafe(s3.lis, T)
    BY <2>11 DEF LisSafe
  <2>. QED
    BY <2>3, <2>6, <2>7, <2>8, <2>9, <2>10, <2>12 DEF t, nm
<1>. QED
  BY <1>2, <1>3

Closed(s, w, key) == [ModelClose(s, w) EXCEPT !.m[w].key = key]

ClosedBut(t, s, w, key) ==
  LET mw == s.m[w]
      nm == t.m[w]
  IN  /\ t.sel = s.sel
      /\ \A v \in Windows \ {w} : t.m[v] = s.m[v]
      /\ nm.key = key /\ nm.blocking /\ nm.lines = <<>> /\ nm.lis = mw.lis /\ nm.cur = mw.cur
      /\ nm.head = mw.head /\ nm.top = mw.top /\ nm.lnum = mw.lnum
      /\ nm.ptop = mw.ptop /\ nm.plnum = mw.plnum
      /\ t.fault = s.fault \/ t.fault = <<"freed", w>>

LEMMA CloseFacts ==
  ASSUME NEW s \in StateType, NEW w \in Windows, NEW T, Tied(s.m[w], s.lis), s.fault[1] = "none",
         LisSafe(s.lis, T), Sane(s.m[w].top, s.m[w].lnum), NEW key \in Dirs \cup {NULL}
  PROVE  LET t == Closed(s, w, key)
         IN  /\ t \in StateType /\ ClosedBut(t, s, w, key)
             /\ LisSafe(t.lis, T) /\ \A k \in Keys : t.lis[k] = NULL <=> s.lis[k] = NULL
<1> DEFINE mw == s.m[w]
           n1 == [mw EXCEPT !.pfval = IF mw.cur = NULL THEN mw.pfval ELSE NULL]
           s1 == ModelSave(s, w)
           n2 == [n1 EXCEPT !.blocking = TRUE, !.lines = <<>>]
           s2 == Put(s1, w, n2)
           n3 == [n2 EXCEPT !.key = key]
           t  == Closed(s, w, key)
<1>1. mw \in ModelType /\ key \in Keys \cup {NULL}
  BY StateFacts DEF Keys
<1>2. /\ s1 \in StateType /\ s1.m = [s.m EXCEPT ![w] = n1] /\ s1.sel = s.sel
      /\ s1.fault = s.fault \/ s1.fault = <<"freed", w>>
      /\ LisSafe(s1.lis, T) /\ \A k \in Keys : s1.lis[k] = NULL <=> s.lis[k] = NULL
  BY SaveFacts
<1>3. <<>> \in Seq(Recs \cup {Freed})
  OBVIOUS
<1>4. n1 \in ModelType /\ n2 \in ModelType /\ n3 \in ModelType
  <2>1. n1 \in ModelType
    BY <1>1 DEF ModelType
  <2> HIDE DEF n1
  <2>2. n2 \in ModelType
    BY <2>1, <1>3 DEF ModelType
  <2> HIDE DEF n2
  <2>3. n3 \in ModelType
    BY <1>1, <2>2 DEF ModelType
  <2>. QED
    BY <2>1, <2>2, <2>3
<1>5. /\ n3.key = key /\ n3.blocking /\ n3.lines = <<>> /\ n3.lis = mw.lis /\ n3.cur = mw.cur
      /\ n3.head = mw.head /\ n3.top = mw.top /\ n3.lnum = mw.lnum
      /\ n3.ptop = mw.ptop /\ n3.plnum = mw.plnum
  BY <1>1 DEF ModelType
<1> HIDE DEF n1, s1
<1>6. s1.m[w] = n1 /\ \A v \in Windows \ {w} : s1.m[v] = s.m[v]
  BY <1>2, StateFacts
<1>7. t = Put(s2, w, n3)
  <2>1. ModelClose(s, w) = [s1 EXCEPT !.m[w].blocking = TRUE, !.m[w].lines = <<>>]
    BY DEF ModelClose, s1
  <2>2. [s1 EXCEPT !.m[w].blocking = TRUE, !.m[w].lines = <<>>] = s2
    BY <1>2, <1>6 DEF Put, StateType
  <2>3. s2.m[w] = n2
    <3> HIDE DEF n2
    <3>. QED
      BY <1>2, <1>4, PutFacts
  <2> HIDE DEF s2, n2
  <2>. QED
    BY <2>1, <2>2, <2>3 DEF Closed, Put
<1> HIDE DEF n2, n3, t
<1>8. /\ s2 \in StateType /\ Apart(s2, s1, w) /\ s2.m[w] = n2 /\ s2.sel = s1.sel /\ s2.fault = s1.fault
  BY <1>2, <1>4, PutFacts
<1> HIDE DEF s2
<1>9. /\ t \in StateType /\ Apart(t, s2, w) /\ t.m[w] = n3 /\ t.sel = s2.sel /\ t.fault = s2.fault
  BY <1>4, <1>7, <1>8, PutFacts
<1>10. t.lis = s1.lis /\ \A v \in Windows \ {w} : t.m[v] = s.m[v]
  BY <1>6, <1>8, <1>9 DEF Apart
<1>11. ClosedBut(t, s, w, key)
  BY <1>2, <1>5, <1>8, <1>9, <1>10 DEF ClosedBut
<1>. QED
  BY <1>2, <1>9, <1>10, <1>11 DEF t

Like(u, t) == u.m = t.m /\ u.sel = t.sel /\ u.fault = t.fault

(* ... for another one, whose listener there is, or to be gone.            *)
LEMMA ClosedSafe ==
  ASSUME NEW s \in StateType, NEW w \in Windows, w # Dt, NEW q, NEW r, NEW T, s.fault[1] = "none",
         Safe(s, q, T), LisSafe(s.lis, T), NEW key \in Dirs \cup {NULL}, NEW u \in StateType,
         Like(u, Closed(s, w, key)),
         \A k \in Keys : s.lis[k] # NULL => u.lis[k] # NULL, key # NULL => u.lis[key] # NULL,
         u.fault[1] = "none" => \A v \in Windows \ {w} : v \in r <=> v \in q
  PROVE  Safe(u, r, T)
<1> DEFINE mw == s.m[w]
           nm == u.m[w]
<1>1. SelectionOK(s) /\ \A v \in Windows : Win(s, v, q, T)
  BY SafeFacts
<1>2. Tied(mw, s.lis) /\ Steady(mw, w \in q, T) /\ mw \in ModelType
  BY <1>1, StateFacts DEF Win, WindowOK
<1>3. Sane(mw.top, mw.lnum)
  BY <1>2 DEF Steady
<1>4. /\ u.sel = s.sel /\ \A v \in Windows \ {w} : u.m[v] = s.m[v]
      /\ nm.key = key /\ nm.blocking /\ nm.lines = <<>> /\ nm.lis = mw.lis /\ nm.cur = mw.cur
      /\ nm.head = mw.head /\ nm.top = mw.top /\ nm.lnum = mw.lnum
      /\ nm.ptop = mw.ptop /\ nm.plnum = mw.plnum
      /\ u.fault = s.fault \/ u.fault = <<"freed", w>>
  <2> DEFINE t == Closed(s, w, key)
             tm == t.m[w]
  <2>1. /\ t.sel = s.sel /\ \A v \in Windows \ {w} : t.m[v] = s.m[v]
        /\ tm.key = key /\ tm.blocking /\ tm.lines = <<>> /\ tm.lis = mw.lis /\ tm.cur = mw.cur
        /\ tm.head = mw.head /\ tm.top = mw.top /\ tm.lnum = mw.lnum
        /\ tm.ptop = mw.ptop /\ tm.plnum = mw.plnum
        /\ t.fault = s.fault \/ t.fault = <<"freed", w>>
    <3>1. ClosedBut(t, s, w, key)
      BY <1>2, <1>3, CloseFacts
    <3>. QED
      BY <3>1 DEF ClosedBut
  <2>2. u.m = t.m /\ u.sel = t.sel /\ u.fault = t.fault /\ nm = tm
    BY DEF Like
  <2> HIDE DEF t, tm, nm
  <2>3. \A v \in Windows \ {w} : u.m[v] = s.m[v]
    BY <2>1, <2>2
  <2>. QED
    BY <2>1, <2>2, <2>3
<1> HIDE DEF mw, nm
<1>5. Known(u, r)
  <2>1. CASE u.fault = s.fault
    BY <2>1 DEF Known
  <2>2. CASE u.fault = <<"freed", w>>
    BY <1>4, <2>2 DEF Known, nm
  <2>. QED
    BY <1>4, <2>1, <2>2
<1>6. Win(u, w, r, T)
  <2>1. mw.lis \in Keys \cup {NULL}
    BY <1>2 DEF ModelType
  <2>2. Tied(nm, u.lis)
    BY <1>2, <1>4, <2>1 DEF Tied
  <2>3. Steady(nm, w \in r, T)
    BY <1>2, <1>4 DEF Steady
  <2>. QED
    BY <1>4, <2>2, <2>3 DEF Win, WindowOK, nm
<1>7. ASSUME NEW v \in Windows \ {w}, u.fault[1] = "none" PROVE Win(u, v, r, T)
  <2>1. Win(s, v, q, T) /\ u.m[v] = s.m[v] /\ (v \in r <=> v \in q) /\ s.m[v] \in ModelType
    BY <1>1, <1>4, <1>7, StateFacts
  <2>2. Tied(u.m[v], u.lis)
    <3>1. s.m[v].key \in Keys \cup {NULL} /\ s.m[v].lis \in Keys \cup {NULL}
      BY <2>1 DEF ModelType
    <3>. QED
      BY <2>1, <3>1 DEF Win, Tied
  <2>. QED
    BY <2>1, <2>2 DEF Win
<1>8. SelectionOK(u)
  <2>1. /\ s.sel.enabled => s.sel.active
        /\ s.sel.active => s.sel.owner \in Windows
        /\ s.sel.active /\ s.sel.owner # Dt => Within(s.sel, s.m[s.sel.owner])
    BY <1>1, SelFacts
  <2>2. s.sel.active /\ s.sel.owner # Dt => Within(s.sel, u.m[s.sel.owner])
    <3>1. Within(s.sel, nm)
      BY <1>4 DEF Within
    <3>. QED
      BY <1>4, <2>1, <3>1 DEF nm
  <2>. QED
    BY <1>4, <2>1, <2>2, SelFacts
<1>. QED
  BY <1>5, <1>6, <1>7, <1>8, SafeFacts

-----------------------------------------------------------------------------
(* A directory is opened: it has a listener then.                          *)
LEMMA OpenFacts ==
  ASSUME NEW s \in StateType, NEW k \in Dirs, TblType(tbl), LisSafe(s.lis, tbl)
  PROVE  LET t == ModelOpen(s, k) IN
         /\ t \in StateType /\ Like(t, s) /\ LisSafe(t.lis, tbl) /\ t.lis[k] # NULL
         /\ \A j \in Keys : s.lis[j] # NULL => t.lis[j] # NULL
<1> DEFINE l == NewLis(k)
           t == PutLis(s, k, l)
<1>1. k \in Keys
  BY DEF Keys
<1>2. CASE s.lis[k] # NULL
  BY <1>2 DEF ModelOpen, Like
<1>3. CASE s.lis[k] = NULL
  <2>1. ModelOpen(s, k) = t
    BY <1>3 DEF ModelOpen, PutLis
  <2>2. tbl[k] # <<>> => Head(tbl[k]) \in {k} \X Names
    BY <1>1, TableFacts
  <2>3. /\ l \in LisType /\ l.top = 0 /\ l.lnum = 0
        /\ IF tbl[k] = <<>> THEN l.rec = NULL ELSE l.rec \in {k} \X Names
    <3>1. {k} \X Names \subseteq Recs
      BY <1>1 DEF Recs
    <3>. QED
      BY <2>2, <3>1 DEF NewLis, LisType
  <2> HIDE DEF l
  <2>4. /\ t \in StateType /\ t.m = s.m /\ t.sel = s.sel /\ t.fault = s.fault
        /\ t.lis[k] = l /\ l # NULL /\ \A j \in Keys \ {k} : t.lis[j] = s.lis[j]
    BY <1>1, <2>3, PutLisFacts
  <2> HIDE DEF t
  <2>5. LisSafe(t.lis, tbl)
    <3> SUFFICES ASSUME NEW j \in Dirs PROVE LisOK(j, t.lis, tbl)
      BY DEF LisSafe
    <3>1. CASE j = k
      BY <2>3, <2>4, <3>1 DEF LisOK, Sane
    <3>2. CASE j # k
      <4>1. t.lis[j] = s.lis[j] /\ LisOK(j, s.lis, tbl)
        BY <2>4, <3>2 DEF LisSafe, Keys
      <4>. QED
        BY <4>1 DEF LisOK
    <3>. QED
      BY <3>1, <3>2
  <2>6. \A j \in Keys : s.lis[j] # NULL => t.lis[j] # NULL
    BY <2>4
  <2>. QED
    BY <2>1, <2>4, <2>5, <2>6 DEF Like
<1>. QED
  BY <1>2, <1>3

-----------------------------------------------------------------------------
(* The actions.                                                            *)
Apparatus ==
  /\ TblType(tbl) /\ ent \in [Dirs -> EntryType] /\ want \in [Windows -> Dirs \cup {NULL}]
  /\ quiet \subseteq Windows /\ commands \in Nat /\ scans \in Nat

LEMMA Parts ==
  IInv <=> /\ S \in StateType /\ Apparatus /\ Safe(S, quiet, tbl)
           /\ fault[1] = "none" => /\ Dt \in Windows => want[Dt] = NULL
                                   /\ LisSafe(lis, tbl) /\ \A d \in Dirs : PendingOK(d)
BY DEF IInv, TypeOK, Apparatus, TblType, LisSafe

LEMMA PartsNext ==
  ASSUME S' \in StateType, Apparatus', Safe(S, quiet, tbl)',
         fault'[1] = "none" => /\ Dt \in Windows => want'[Dt] = NULL
                               /\ LisSafe(lis, tbl)' /\ \A d \in Dirs : PendingOK(d)'
  PROVE  IInv'
BY DEF IInv, TypeOK, Apparatus, TblType, LisSafe

LEMMA Becomes ==
  ASSUME NEW t \in StateType, Become(t)
  PROVE  S' = t /\ lis' = t.lis /\ m' = t.m /\ sel' = t.sel /\ fault' = t.fault
BY StateFacts DEF Become, S

LEMMA Fields ==
  S.m = m /\ S.lis = lis /\ S.sel = sel /\ S.fault = fault
BY DEF S

(* No record is to come below a window that has its lines.                 *)
LEMMA StillPending ==
  ASSUME NEW d \in Dirs, PendingOK(d),
         ent'[d].files # <<>> => ent[d].files # <<>> /\ ent'[d].state = ent[d].state,
         \A w \in Windows : m'[w].key = d =>
           m'[w].blocking \/ w \in quiet' \/ (m[w].key = d /\ ~m[w].blocking /\ w \notin quiet)
  PROVE  PendingOK(d)'
BY DEF PendingOK, Listeners

LEMMA EditKeeps ==
  ASSUME IInv, fault[1] = "none", NEW w \in Windows, NEW t,
         Edited(t, S, w, quiet', tbl), Become(t), quiet \subseteq quiet', quiet' \subseteq Windows,
         m[w].blocking => t.m[w].blocking \/ w \in quiet',
         tbl' = tbl, ent' = ent, want' = want, commands' \in Nat, scans' = scans
  PROVE  IInv'
<1>1. /\ t \in StateType /\ Apart(t, S, w) /\ Safe(t, quiet', tbl) /\ t.m[w].key = S.m[w].key
  BY DEF Edited
<1>2. S' = t /\ lis' = t.lis /\ m' = t.m /\ sel' = t.sel /\ fault' = t.fault
  BY <1>1, Becomes
<1>3. /\ Apparatus /\ (Dt \in Windows => want[Dt] = NULL)
      /\ LisSafe(lis, tbl) /\ \A d \in Dirs : PendingOK(d)
  BY Parts
<1>4. Apparatus'
  BY <1>3 DEF Apparatus
<1>5. lis' = lis /\ m'[w].key = m[w].key /\ \A v \in Windows \ {w} : m'[v] = m[v]
  BY <1>1, <1>2, Fields DEF Apart
<1>6. ASSUME NEW d \in Dirs PROVE PendingOK(d)'
  BY <1>2, <1>3, <1>5, StillPending
<1>7. LisSafe(lis, tbl)'
  BY <1>3, <1>5 DEF LisSafe
<1>8. Safe(S, quiet, tbl)' /\ S' \in StateType
  BY <1>1, <1>2
<1>. QED
  BY <1>3, <1>4, <1>6, <1>7, <1>8, PartsNext

LEMMA CommandFacts ==
  ASSUME IInv, NEW w \in Windows, fault[1] = "none"
  PROVE  /\ S \in StateType /\ S.fault[1] = "none" /\ Safe(S, quiet, tbl)
         /\ TblType(tbl) /\ quiet \subseteq Windows /\ S.m[w].blocking = m[w].blocking
         /\ Command(w) \/ commands' = commands => commands' \in Nat
BY Parts, Fields DEF Command, Apparatus

LEMMA OneEdit ==
  ASSUME IInv, fault[1] = "none", NEW w \in Windows, NEW t, Edited(t, S, w, quiet, tbl), Edit(t),
         m[w].blocking => t.m[w].blocking, Command(w) \/ commands' = commands
  PROVE  IInv'
<1>1. commands' \in Nat /\ quiet \subseteq Windows
  BY CommandFacts
<1>. QED
  BY <1>1, EditKeeps DEF Edit

LEMMA MoveKeeps ==
  ASSUME IInv, NEW w \in Windows, NEW y \in Int, Key(w), Edit(BufMv(S, w, y))
  PROVE  IInv'
<1> DEFINE t == BufMv(S, w, y)
<1>1. fault[1] = "none" /\ ~m[w].blocking /\ Command(w)
  BY DEF Key, Command
<1>2. Edited(t, S, w, quiet, tbl)
  BY <1>1, CommandFacts, BufMvSafe
<1> HIDE DEF t
<1>3. Edit(t)
  BY DEF t
<1>. QED
  BY <1>1, <1>2, <1>3, OneEdit

LEMMA SelectionEdit ==
  ASSUME NEW s \in StateType, NEW t \in StateType, t.m = s.m, t.lis = s.lis, NEW w \in Windows, NEW q, NEW T,
         Safe(t, q, T)
  PROVE  Edited(t, s, w, q, T)
BY DEF Edited, Apart

LEMMA ToggleKeeps ==
  ASSUME IInv, NEW w \in Windows, BufToggleSel(w)
  PROVE  IInv'
<1> DEFINE t == SelectToggle(S, w)
<1>1. fault[1] = "none" /\ ~m[w].blocking /\ Command(w)
  BY DEF BufToggleSel, Key, Command
<1>2. t \in StateType /\ t.m = S.m /\ t.lis = S.lis /\ Safe(t, quiet, tbl)
  BY <1>1, CommandFacts, ToggleSafe
<1>3. Edit(t)
  BY DEF BufToggleSel
<1> HIDE DEF t
<1>4. Edited(t, S, w, quiet, tbl)
  BY <1>1, <1>2, CommandFacts, SelectionEdit
<1>. QED
  BY <1>1, <1>3, <1>4, OneEdit

LEMMA AltOriginKeeps ==
  ASSUME IInv, NEW w \in Windows, BufAltOrigin(w)
  PROVE  IInv'
<1> DEFINE s1 == SelectAltOrigin(S, w)
           t == BufMoveInvalid(s1, w, s1.m[w].top, s1.m[w].lnum)
<1>1. fault[1] = "none" /\ ~m[w].blocking /\ Command(w) /\ sel.active /\ sel.owner = w
  BY DEF BufAltOrigin, Key, Command
<1>2. Edit(t)
  BY DEF BufAltOrigin
<1>3. Edited(t, S, w, quiet, tbl)
  BY <1>1, CommandFacts, Fields, AltOriginSafe
<1> HIDE DEF t
<1>. QED
  BY <1>1, <1>2, <1>3, OneEdit

LEMMA EndSelKeeps ==
  ASSUME IInv, NEW w \in Windows, BufEndSel(w)
  PROVE  IInv'
<1> DEFINE s1 == IF Origin(S) > Index(S, w) THEN S ELSE SelectAltOrigin(S, w)
           s2 == SelectClear(s1, w)
           t == BufMoveInvalid(s2, w, s2.m[w].top, s2.m[w].lnum)
<1>1. fault[1] = "none" /\ ~m[w].blocking /\ Command(w)
  BY DEF BufEndSel, Key, Command
<1>2. Edit(t)
  BY DEF BufEndSel
<1>3. Edited(t, S, w, quiet, tbl)
  BY <1>1, CommandFacts, EndSelSafe
<1> HIDE DEF t
<1>. QED
  BY <1>1, <1>2, <1>3, OneEdit

LEMMA SortKeeps ==
  ASSUME IInv, NEW w \in Windows, NEW o \in Sorts, NEW rev \in BOOLEAN, BufSort(w, o, rev)
  PROVE  IInv'
<1> DEFINE t == ModelSort([S EXCEPT !.m[w].sort = [o |-> o, rev |-> rev]], w)
<1>1. fault[1] = "none" /\ ~m[w].blocking /\ Command(w)
  BY DEF BufSort, Key, Command
<1>2. Edit(t)
  BY DEF BufSort
<1>3. Edited(t, S, w, quiet, tbl)
  BY <1>1, CommandFacts, SortedAgain
<1> HIDE DEF t
<1>. QED
  BY <1>1, <1>2, <1>3, OneEdit

LEMMA FilterKeeps ==
  ASSUME IInv, NEW w \in Windows, NEW pattern \in Patterns, ExFilter(w, pattern)
  PROVE  IInv'
<1> DEFINE f == FilterBuild(S, w, pattern)
           t == IF f.fault[1] = "none" THEN ModelSort(f, w) ELSE f
           r == IF m[w].blocking THEN quiet \cup {w} ELSE quiet
<1>1. fault[1] = "none" /\ Command(w)
  BY DEF ExFilter, Command
<1>2. pattern \in SUBSET Names
  BY ListsAssumption
<1>3. /\ Become(t) /\ tbl' = tbl /\ ent' = ent /\ want' = want /\ scans' = scans /\ quiet' = r
  BY DEF ExFilter
<1>4. /\ S \in StateType /\ S.fault[1] = "none" /\ Safe(S, quiet, tbl) /\ TblType(tbl)
      /\ quiet \subseteq Windows /\ commands' \in Nat /\ S.m = m
  BY <1>1, CommandFacts, Fields
<1>5. Edited(t, S, w, r, tbl)
  BY <1>2, <1>4, FilteredSafe
<1> HIDE DEF t
<1>6. Edited(t, S, w, quiet', tbl)
  BY <1>3, <1>5
<1>7. quiet \subseteq quiet' /\ quiet' \subseteq Windows /\ (m[w].blocking => w \in quiet')
  BY <1>3, <1>4
<1>. QED
  BY <1>1, <1>3, <1>4, <1>6, <1>7, EditKeeps

LEMMA ResizeKeeps ==
  ASSUME IInv, NEW w \in Windows, NEW size \in Sizes, Resize(w, size)
  PROVE  IInv'
<1> DEFINE mw == m[w]
           nm == Resized(mw, size)
           t == Put(S, w, nm)
<1>1. fault[1] = "none" /\ Command(w)
  BY DEF Resize, Command
<1>2. /\ S \in StateType /\ S.fault[1] = "none" /\ Safe(S, quiet, tbl) /\ S.m = m
      /\ mw \in ModelType
  BY <1>1, CommandFacts, StateFacts, Fields
<1>3. Edited(t, S, w, quiet, tbl)
  BY <1>2, ResizedSafe
<1>4. nm.blocking = mw.blocking
  BY <1>2 DEF Resized, ModelType
<1>5. m' = [m EXCEPT ![w] = nm] /\ UNCHANGED <<tbl, lis, sel, ent, want, quiet, fault, scans>>
  BY DEF Resize, Resized
<1>6. t = [m |-> [m EXCEPT ![w] = nm], lis |-> lis, sel |-> sel, fault |-> fault]
  <2> HIDE DEF nm
  <2>. QED
    BY DEF Put, S
<1> HIDE DEF nm, mw
<1>7. Edit(t)
  BY <1>5, <1>6 DEF Edit, Become
<1>8. t.m[w].blocking = m[w].blocking
  BY <1>2, <1>4, <1>6, StateFacts DEF mw
<1> HIDE DEF t
<1>. QED
  BY <1>1, <1>3, <1>7, <1>8, OneEdit

LEMMA DrawKeeps ==
  ASSUME IInv, NEW w \in Windows, Draw(w)
  PROVE  IInv'
<1> DEFINE t == Drawn(S, w)
<1>1. fault[1] = "none" /\ commands' = commands
  BY DEF Draw
<1>2. Edit(t)
  BY Fields DEF Draw, Drawn
<1>3. t \in StateType /\ t.m = S.m /\ t.lis = S.lis /\ Safe(t, quiet, tbl)
  BY <1>1, CommandFacts, DrawnSafe
<1> HIDE DEF t
<1>4. Edited(t, S, w, quiet, tbl) /\ t.m = m
  BY <1>1, <1>3, CommandFacts, SelectionEdit, Fields
<1>. QED
  BY <1>1, <1>2, <1>4, OneEdit

-----------------------------------------------------------------------------
(* The file manager.                                                       *)
LEMMA ReqDirKeeps ==
  ASSUME IInv, NEW w \in Windows, NEW d \in Dirs, FmReqDir(w, d)
  PROVE  IInv'
<1>1. fault[1] = "none" /\ Command(w) /\ w # Dt /\ want' = [want EXCEPT ![w] = d]
  BY DEF FmReqDir, Key, Command
<1>2. UNCHANGED <<tbl, lis, m, sel, ent, quiet, fault, scans>> /\ S' = S
  BY DEF FmReqDir, S
<1>3. /\ S \in StateType /\ Safe(S, quiet, tbl) /\ commands' \in Nat
      /\ Apparatus /\ (Dt \in Windows => want[Dt] = NULL)
      /\ LisSafe(lis, tbl) /\ \A k \in Dirs : PendingOK(k)
  BY <1>1, CommandFacts, Parts
<1>4. Apparatus'
  BY <1>1, <1>2, <1>3 DEF Apparatus
<1>5. Dt \in Windows => want'[Dt] = NULL
  BY <1>1, <1>3 DEF Apparatus
<1>6. LisSafe(lis, tbl)' /\ \A k \in Dirs : PendingOK(k)'
  BY <1>2, <1>3 DEF PendingOK, Listeners, LisSafe
<1>. QED
  BY <1>2, <1>3, <1>4, <1>5, <1>6, PartsNext

LEMMA LeaveFacts ==
  ASSUME IInv, fault[1] = "none", NEW w \in Windows, w # Dt, NEW key \in Dirs \cup {NULL}
  PROVE  LET t == Closed(S, w, key) IN
         /\ t \in StateType /\ ClosedBut(t, S, w, key) /\ LisSafe(t.lis, tbl)
         /\ \A k \in Keys : t.lis[k] = NULL <=> S.lis[k] = NULL
<1>1. Safe(S, quiet, tbl) /\ LisSafe(S.lis, tbl) /\ S.fault[1] = "none" /\ S \in StateType
  BY Parts, Fields
<1>2. Win(S, w, quiet, tbl)
  BY <1>1, SafeFacts
<1>3. Tied(S.m[w], S.lis) /\ Sane(S.m[w].top, S.m[w].lnum)
  BY <1>2 DEF Win, WindowOK, Steady
<1>. QED
  BY <1>1, <1>3, CloseFacts

LEMMA OpendirKeeps ==
  ASSUME IInv, NEW w \in Windows, FmOpendir(w)
  PROVE  IInv'
<1> DEFINE d == want[w]
           t == Closed(S, w, d)
           u == ModelOpen(t, d)
           old == m[w].key
           left == IF Listeners(old) = {w} /\ ent[old].state = "idle"
                   THEN [ent EXCEPT ![old].cancel = FALSE] ELSE ent
<1>1. /\ d # NULL /\ fault[1] = "none" /\ Become(u) /\ want' = [want EXCEPT ![w] = NULL]
      /\ ent' = (IF left[d].state = "idle" THEN [left EXCEPT ![d].state = "stat"] ELSE left)
      /\ quiet' = (IF u.fault[1] = "none" THEN quiet \ {w} ELSE quiet)
      /\ UNCHANGED <<tbl, commands, scans>> /\ old # NULL
  BY DEF FmOpendir, Closed, Opened
<1>2. /\ S \in StateType /\ Safe(S, quiet, tbl) /\ Apparatus /\ (Dt \in Windows => want[Dt] = NULL)
      /\ LisSafe(S.lis, tbl) /\ S.fault[1] = "none" /\ S.m = m
      /\ \A k \in Dirs : PendingOK(k)
  BY <1>1, Parts, Fields
<1>3. d \in Dirs /\ w # Dt /\ d \in Keys /\ ent \in [Dirs -> EntryType]
  BY <1>1, <1>2 DEF Apparatus, Keys
<1>4. /\ t \in StateType /\ ClosedBut(t, S, w, d) /\ LisSafe(t.lis, tbl)
      /\ \A k \in Keys : t.lis[k] = NULL <=> S.lis[k] = NULL
  BY <1>1, <1>3, LeaveFacts
<1> HIDE DEF t, d, left, old
<1>5. /\ u \in StateType /\ Like(u, t) /\ LisSafe(u.lis, tbl) /\ u.lis[d] # NULL
      /\ \A j \in Keys : t.lis[j] # NULL => u.lis[j] # NULL
  BY <1>2, <1>3, <1>4, OpenFacts DEF Apparatus
<1> HIDE DEF u
<1>6. \A j \in Keys : S.lis[j] # NULL => u.lis[j] # NULL
  BY <1>4, <1>5
<1>7. u.fault[1] = "none" => \A v \in Windows \ {w} : v \in quiet' <=> v \in quiet
  BY <1>1
<1>8. Safe(u, quiet', tbl)
  <2>1. Like(u, Closed(S, w, d))
    BY <1>5 DEF t
  <2>. QED
    BY <1>2, <1>3, <1>5, <1>6, <1>7, <2>1, ClosedSafe
<1>9. S' = u /\ lis' = u.lis /\ m' = u.m /\ sel' = u.sel /\ fault' = u.fault
  BY <1>1, <1>5, Becomes
<1>10. m'[w].blocking /\ \A v \in Windows \ {w} : m'[v] = m[v]
  BY <1>2, <1>4, <1>5, <1>9 DEF Like, ClosedBut
<1>11. /\ left \in [Dirs -> EntryType]
       /\ \A k \in Dirs : left[k].state = ent[k].state /\ left[k].files = ent[k].files
  <2>1. CASE left = ent
    BY <1>3, <2>1 DEF EntryType
  <2>2. CASE left # ent
    <3>1. left = [ent EXCEPT ![old].cancel = FALSE]
      BY <2>2 DEF left
    <3>2. old \in Dirs
      BY <1>3, <2>2, <3>1
    <3>. QED
      BY <1>3, <3>1, <3>2 DEF EntryType
  <2>. QED
    BY <2>1, <2>2
<1>12. /\ ent' \in [Dirs -> EntryType]
       /\ \A k \in Dirs : /\ ent'[k].files = ent[k].files
                          /\ ent'[k].state = ent[k].state \/ ent[k].state = "idle"
  <2>1. CASE ent' = left
    BY <1>11, <2>1
  <2>2. CASE left[d].state = "idle" /\ ent' = [left EXCEPT ![d].state = "stat"]
    <3> DEFINE e == [left[d] EXCEPT !.state = "stat"]
    <3>1. left[d] \in EntryType
      BY <1>3, <1>11
    <3>2. e \in EntryType /\ e.files = left[d].files
      BY <3>1 DEF EntryType
    <3>3. ent' = [left EXCEPT ![d] = e]
      BY <2>2
    <3> HIDE DEF e
    <3>4. ent' \in [Dirs -> EntryType] /\ ent'[d] = e /\ \A k \in Dirs \ {d} : ent'[k] = left[k]
      BY <1>3, <1>11, <3>2, <3>3
    <3>. QED
      BY <1>3, <1>11, <2>2, <3>2, <3>4
  <2>. QED
    BY <1>1, <2>1, <2>2
<1>13. Apparatus'
  <2>1. want' \in [Windows -> Dirs \cup {NULL}]
    BY <1>1, <1>2 DEF Apparatus
  <2>2. quiet' \subseteq Windows
    BY <1>1, <1>2 DEF Apparatus
  <2>. QED
    BY <1>1, <1>2, <1>12, <2>1, <2>2 DEF Apparatus
<1>14. Dt \in Windows => want'[Dt] = NULL
  BY <1>1, <1>2, <1>3 DEF Apparatus
<1>15. ASSUME fault'[1] = "none", NEW k \in Dirs PROVE PendingOK(k)'
  <2>1. ent'[k].files # <<>> => ent[k].files # <<>> /\ ent'[k].state = ent[k].state
    BY <1>2, <1>12 DEF PendingOK
  <2>2. \A v \in Windows : m'[v].key = k =>
          m'[v].blocking \/ v \in quiet' \/ (m[v].key = k /\ ~m[v].blocking /\ v \notin quiet)
    <3> SUFFICES ASSUME NEW v \in Windows, m'[v].key = k, ~m'[v].blocking, v \notin quiet'
                 PROVE  m[v].key = k /\ ~m[v].blocking /\ v \notin quiet
      OBVIOUS
    <3>1. v # w
      BY <1>10
    <3>. QED
      BY <1>7, <1>9, <1>10, <1>15, <3>1
  <2>. QED
    BY <1>2, <2>1, <2>2, StillPending
<1>16. LisSafe(lis, tbl)'
  BY <1>1, <1>5, <1>9 DEF LisSafe
<1>17. Safe(S, quiet, tbl)' /\ S' \in StateType
  BY <1>1, <1>5, <1>8, <1>9
<1>. QED
  BY <1>13, <1>14, <1>15, <1>16, <1>17, PartsNext

LEMMA DeleteKeeps ==
  ASSUME IInv, NEW w \in Windows, FmDelete(w)
  PROVE  IInv'
<1> DEFINE u == Closed(S, w, NULL)
<1>1. /\ fault[1] = "none" /\ Command(w) /\ w # Dt /\ Become(u)
      /\ UNCHANGED <<tbl, ent, want, quiet, scans>>
  BY DEF FmDelete, Command, Closed
<1>2. /\ S \in StateType /\ Safe(S, quiet, tbl) /\ Apparatus /\ (Dt \in Windows => want[Dt] = NULL)
      /\ LisSafe(S.lis, tbl) /\ S.fault[1] = "none" /\ S.m = m /\ commands' \in Nat
      /\ \A k \in Dirs : PendingOK(k)
  BY <1>1, Parts, Fields, CommandFacts
<1>3. /\ u \in StateType /\ ClosedBut(u, S, w, NULL) /\ LisSafe(u.lis, tbl)
      /\ \A k \in Keys : u.lis[k] = NULL <=> S.lis[k] = NULL
  BY <1>1, LeaveFacts
<1>4. Safe(u, quiet, tbl)
  <2>1. Like(u, Closed(S, w, NULL))
    BY DEF Like
  <2> HIDE DEF u
  <2>2. \A k \in Keys : S.lis[k] # NULL => u.lis[k] # NULL
    BY <1>3
  <2>. QED
    BY <1>1, <1>2, <1>3, <2>1, <2>2, ClosedSafe
<1> HIDE DEF u
<1>5. S' = u /\ lis' = u.lis /\ m' = u.m /\ sel' = u.sel /\ fault' = u.fault
  BY <1>1, <1>3, Becomes
<1>6. m'[w].blocking /\ \A v \in Windows \ {w} : m'[v] = m[v]
  BY <1>2, <1>3, <1>5 DEF ClosedBut
<1>7. Apparatus'
  BY <1>1, <1>2 DEF Apparatus
<1>8. ASSUME NEW k \in Dirs PROVE PendingOK(k)'
  BY <1>1, <1>2, <1>6, StillPending
<1>9. LisSafe(lis, tbl)'
  BY <1>1, <1>3, <1>5 DEF LisSafe
<1>10. Safe(S, quiet, tbl)' /\ S' \in StateType
  BY <1>1, <1>3, <1>4, <1>5
<1>. QED
  BY <1>1, <1>2, <1>7, <1>8, <1>9, <1>10, PartsNext

-----------------------------------------------------------------------------
(* The directories.                                                        *)
LEMMA EntryFacts ==
  ASSUME NEW e \in EntryType
  PROVE  /\ \A x \in {"idle", "stat", "scan", "signal"} :
              LET f == [e EXCEPT !.state = x] IN
              f \in EntryType /\ f.state = x /\ f.reopen = e.reopen /\ f.cancel = e.cancel
              /\ f.cached = e.cached /\ f.files = e.files
         /\ \A b \in BOOLEAN :
              LET f == [e EXCEPT !.cancel = b] IN
              f \in EntryType /\ f.state = e.state /\ f.reopen = e.reopen /\ f.cancel = b
              /\ f.cached = e.cached /\ f.files = e.files
BY DEF EntryType

(* Only the entry of a directory changes, one that nothing is to come for. *)
LEMMA EntryKeeps ==
  ASSUME IInv, fault[1] = "none", NEW d \in Dirs, ent[d].state # "signal", NEW e \in EntryType,
         ent' = [ent EXCEPT ![d] = e], e.files = ent[d].files, scans' \in Nat,
         UNCHANGED <<tbl, lis, m, sel, want, quiet, fault, commands>>
  PROVE  IInv'
<1>1. /\ S \in StateType /\ Safe(S, quiet, tbl) /\ Apparatus /\ (Dt \in Windows => want[Dt] = NULL)
      /\ LisSafe(lis, tbl) /\ \A k \in Dirs : PendingOK(k)
  BY Parts
<1>2. S' = S
  BY DEF S
<1>3. /\ ent' \in [Dirs -> EntryType] /\ ent'[d].files = <<>>
      /\ \A k \in Dirs \ {d} : ent'[k] = ent[k]
  BY <1>1 DEF Apparatus, PendingOK
<1>4. Apparatus'
  BY <1>1, <1>3 DEF Apparatus
<1>5. ASSUME NEW k \in Dirs PROVE PendingOK(k)'
  BY <1>1, <1>3 DEF PendingOK, Listeners
<1>6. LisSafe(lis, tbl)'
  BY <1>1 DEF LisSafe
<1>. QED
  BY <1>1, <1>2, <1>4, <1>5, <1>6, PartsNext

LEMMA StatKeeps ==
  ASSUME IInv, fault[1] = "none", NEW d \in Dirs, StatCb(d)
  PROVE  IInv'
<1>1. Apparatus /\ ent[d] \in EntryType
  BY Parts DEF Apparatus
<1>2. /\ ent[d].state = "stat" /\ UNCHANGED <<tbl, lis, m, sel, want, quiet, fault, commands>>
      /\ \/ ent' = [ent EXCEPT ![d].state = "scan"]
         \/ ent' = [ent EXCEPT ![d].state = "signal"]
         \/ ent' = [ent EXCEPT ![d].state = "signal", ![d].cancel = TRUE]
      /\ scans' = IF ent'[d].cancel THEN scans + 1 ELSE scans
  BY DEF StatCb
<1>3. scans' \in Nat
  BY <1>1, <1>2 DEF Apparatus
<1>4. CASE ent' = [ent EXCEPT ![d].state = "scan"]
  <2> DEFINE e == [ent[d] EXCEPT !.state = "scan"]
  <2>1. e \in EntryType /\ e.files = ent[d].files /\ ent' = [ent EXCEPT ![d] = e]
    BY <1>1, <1>4, EntryFacts
  <2> HIDE DEF e
  <2>. QED
    BY <1>2, <1>3, <2>1, EntryKeeps
<1>5. CASE ent' = [ent EXCEPT ![d].state = "signal"]
  <2> DEFINE e == [ent[d] EXCEPT !.state = "signal"]
  <2>1. e \in EntryType /\ e.files = ent[d].files /\ ent' = [ent EXCEPT ![d] = e]
    BY <1>1, <1>5, EntryFacts
  <2> HIDE DEF e
  <2>. QED
    BY <1>2, <1>3, <2>1, EntryKeeps
<1>6. CASE ent' = [ent EXCEPT ![d].state = "signal", ![d].cancel = TRUE]
  <2> DEFINE e == [ent[d] EXCEPT !.state = "signal", !.cancel = TRUE]
  <2>1. e \in EntryType /\ e.files = ent[d].files
    BY <1>1 DEF EntryType
  <2>2. ent' = [ent EXCEPT ![d] = e]
    BY <1>1, <1>6 DEF Apparatus
  <2> HIDE DEF e
  <2>. QED
    BY <1>2, <1>3, <2>1, <2>2, EntryKeeps
<1>. QED
  BY <1>2, <1>4, <1>5, <1>6

LEMMA ReopenKeeps ==
  ASSUME IInv, fault[1] = "none", NEW d \in Dirs, FsReopen(d)
  PROVE  IInv'
<1> DEFINE e == [ent[d] EXCEPT !.state = "stat", !.reopen = TRUE]
<1>1. Apparatus /\ ent[d] \in EntryType
  BY Parts DEF Apparatus
<1>2. /\ ent[d].state = "idle" /\ UNCHANGED <<tbl, lis, m, sel, want, quiet, fault, commands, scans>>
      /\ ent' = [ent EXCEPT ![d].state = "stat", ![d].reopen = TRUE]
  BY DEF FsReopen
<1>3. e \in EntryType /\ e.files = ent[d].files
  BY <1>1 DEF EntryType
<1>4. ent' = [ent EXCEPT ![d] = e]
  BY <1>1, <1>2 DEF Apparatus
<1> HIDE DEF e
<1>5. scans' \in Nat
  BY <1>1, <1>2 DEF Apparatus
<1>. QED
  BY <1>2, <1>3, <1>4, <1>5, EntryKeeps

(* Windows that do not list a table do not see it change.                  *)
LEMMA OtherTable ==
  ASSUME NEW mw, NEW unsaid, NEW t, NEW T, WindowOK(mw, unsaid, t),
         ~mw.blocking /\ ~unsaid => T[mw.key] = t[mw.key]
  PROVE  WindowOK(mw, unsaid, T)
BY DEF WindowOK, Steady, InSync

LEMMA CommitSafe ==
  ASSUME IInv, fault[1] = "none", NEW k \in Keys, NEW n \in Names, Commit(k, n),
         UNCHANGED <<m, sel, quiet, fault>>,
         \A w \in Windows \ {Dt} : m[w].key = k => m[w].blocking \/ w \in quiet
  PROVE  S' \in StateType /\ TblType(tbl)' /\ Safe(S, quiet, tbl)' /\ LisSafe(lis, tbl)'
<1> DEFINE r == <<k, n>>
           new == Append(tbl[k], r)
           l == [lis[k] EXCEPT !.rec = r]
<1>1. /\ S \in StateType /\ Safe(S, quiet, tbl) /\ TblType(tbl) /\ LisSafe(lis, tbl)
      /\ S.fault[1] = "none"
  BY Parts, Fields DEF Apparatus
<1>2. /\ tbl' = [tbl EXCEPT ![k] = new]
      /\ lis' = IF lis[k] = NULL \/ lis[k].rec # NULL THEN lis ELSE [lis EXCEPT ![k] = l]
  BY DEF Commit
<1>3. new \in Seq({k} \X Names) /\ new # <<>>
  <2>1. tbl[k] \in Seq({k} \X Names) /\ r \in {k} \X Names
    BY <1>1 DEF TblType
  <2> DEFINE X == {k} \X Names
  <2>2. tbl[k] \in Seq(X) /\ r \in X
    BY <2>1
  <2> HIDE DEF X, r
  <2>3. Append(tbl[k], r) \in Seq(X) /\ Append(tbl[k], r) # <<>>
    BY <2>2, AppendProperties
  <2>. QED
    BY <2>3 DEF X
<1> HIDE DEF new
<1>4. TblType(tbl') /\ tbl'[k] = new /\ \A j \in Keys \ {k} : tbl'[j] = tbl[j]
  BY <1>1, <1>2, <1>3 DEF TblType
<1>5. /\ lis \in [Keys -> LisType \cup {NULL}] /\ r \in Recs
  BY <1>1, Fields, StateFacts DEF Recs
<1>6. lis[k] # NULL => l \in LisType /\ l.rec = r /\ l.top = lis[k].top /\ l.lnum = lis[k].lnum /\ l # NULL
  <2> SUFFICES ASSUME lis[k] # NULL
               PROVE  l \in LisType /\ l.rec = r /\ l.top = lis[k].top /\ l.lnum = lis[k].lnum /\ l # NULL
    OBVIOUS
  <2>1. lis[k] \in LisType
    BY <1>5
  <2>2. l \in LisType /\ l.rec = r /\ l.top = lis[k].top /\ l.lnum = lis[k].lnum
    BY <1>5, <2>1 DEF LisType
  <2> HIDE DEF l
  <2>. QED
    BY <2>2, ListsAssumption
<1> HIDE DEF l, r
<1>7. /\ lis' \in [Keys -> LisType \cup {NULL}] /\ \A j \in Keys : lis'[j] = NULL <=> lis[j] = NULL
      /\ \A j \in Keys \ {k} : lis'[j] = lis[j]
      /\ lis'[k] = lis[k] \/ (lis[k] # NULL /\ lis'[k] = l)
      /\ lis[k] # NULL /\ lis[k].rec = NULL => lis'[k] = l
  BY <1>2, <1>5, <1>6
<1>8. S'.m = m /\ S'.sel = sel /\ S'.fault = fault /\ S'.lis = lis' /\ S' \in StateType
  <2>1. S' = [m |-> m, lis |-> lis', sel |-> sel, fault |-> fault]
    BY DEF S
  <2>. QED
    BY <1>1, <1>7, <2>1, Fields DEF StateType
<1>9. ASSUME NEW j \in Dirs PROVE LisOK(j, lis', tbl')
  <2>1. j \in Keys /\ LisOK(j, lis, tbl)
    BY <1>1 DEF LisSafe, Keys
  <2>2. CASE j # k
    BY <1>4, <1>7, <2>1, <2>2 DEF LisOK
  <2>3. CASE j = k
    <3>1. r \in {k} \X Names
      BY DEF r
    <3>. QED
      BY <1>3, <1>4, <1>6, <1>7, <2>1, <2>3, <3>1 DEF LisOK
  <2>. QED
    BY <2>2, <2>3
<1>10. ASSUME NEW w \in Windows PROVE Win(S', w, quiet, tbl')
  <2>1. Win(S, w, quiet, tbl) /\ S.m = m /\ S.lis = lis /\ m[w] \in ModelType
    BY <1>1, SafeFacts, Fields, StateFacts
  <2>2. Tied(m[w], lis')
    <3>1. m[w].key \in Keys \cup {NULL} /\ m[w].lis \in Keys \cup {NULL} /\ Tied(m[w], lis)
      BY <2>1 DEF ModelType, Win
    <3>. QED
      BY <1>7, <3>1 DEF Tied
  <2>3. w # Dt => WindowOK(m[w], w \in quiet, tbl')
    <3> SUFFICES ASSUME w # Dt PROVE WindowOK(m[w], w \in quiet, tbl')
      OBVIOUS
    <3>1. WindowOK(m[w], w \in quiet, tbl)
      BY <2>1 DEF Win
    <3>2. ~m[w].blocking /\ w \notin quiet => m[w].key \in Keys \ {k}
      BY <3>1 DEF WindowOK, Steady, Keys
    <3>. QED
      BY <1>4, <3>1, <3>2, OtherTable
  <2>. QED
    BY <1>8, <2>1, <2>2, <2>3 DEF Win
<1>11. SelectionOK(S')
  <2>1. SelectionOK(S) /\ S.sel = sel /\ S.m = m
    BY <1>1, SafeFacts, Fields
  <2>. QED
    BY <1>8, <2>1, SelFacts
<1>12. Known(S', quiet)
  BY <1>8 DEF Known
<1>13. Safe(S', quiet', tbl')
  BY <1>10, <1>11, <1>12, SafeFacts
<1>. QED
  BY <1>4, <1>8, <1>9, <1>13 DEF LisSafe

LEMMA CommitKeeps ==
  ASSUME IInv, fault[1] = "none", NEW d \in Dirs, CommitEvent(d)
  PROVE  IInv'
<1> DEFINE files == ent[d].files
           e == [ent[d] EXCEPT !.files = Tail(files)]
<1>1. /\ Apparatus /\ (Dt \in Windows => want[Dt] = NULL) /\ \A k \in Dirs : PendingOK(k)
      /\ ent[d] \in EntryType /\ d \in Keys
  BY Parts DEF Apparatus, Keys
<1>2. /\ files # <<>> /\ Commit(d, Head(files)) /\ ent' = [ent EXCEPT ![d] = e]
      /\ UNCHANGED <<m, sel, want, quiet, fault, commands, scans>>
  BY DEF CommitEvent
<1>3. files \in Seq(Names)
  BY <1>1 DEF EntryType
<1>4. Head(files) \in Names /\ Tail(files) \in Seq(Names)
  <2> HIDE DEF files
  <2>. QED
    BY <1>2, <1>3, HeadTailProperties
<1>5. e \in EntryType /\ e.state = ent[d].state
  BY <1>1, <1>4 DEF EntryType
<1>6. \A w \in Windows : m[w].key = d => m[w].blocking \/ w \in quiet
  BY <1>1, <1>2 DEF PendingOK, Listeners
<1> HIDE DEF e, files
<1>7. S' \in StateType /\ TblType(tbl)' /\ Safe(S, quiet, tbl)' /\ LisSafe(lis, tbl)'
  BY <1>1, <1>2, <1>4, <1>6, CommitSafe
<1>8. ent' \in [Dirs -> EntryType] /\ ent'[d] = e /\ \A k \in Dirs \ {d} : ent'[k] = ent[k]
  BY <1>1, <1>2, <1>5 DEF Apparatus
<1>9. Apparatus'
  BY <1>1, <1>2, <1>7, <1>8 DEF Apparatus
<1>10. ASSUME NEW k \in Dirs PROVE PendingOK(k)'
  <2>1. ent'[k].files # <<>> => ent[k].files # <<>> /\ ent'[k].state = ent[k].state
    BY <1>2, <1>5, <1>8 DEF files
  <2>. QED
    BY <1>1, <1>2, <2>1 DEF PendingOK, Listeners
<1>. QED
  BY <1>1, <1>2, <1>7, <1>9, <1>10, PartsNext

-----------------------------------------------------------------------------
(* The table that is listed whole.                                         *)
LEMMA AddKeeps ==
  ASSUME IInv, NEW n \in Names, AddPid(n)
  PROVE  IInv'
<1>1. /\ fault[1] = "none" /\ Commit(Procs, n)
      /\ UNCHANGED <<m, sel, ent, want, quiet, fault, commands, scans>>
  BY DEF AddPid
<1>2. /\ Apparatus /\ (Dt \in Windows => want[Dt] = NULL) /\ \A k \in Dirs : PendingOK(k)
      /\ Safe(S, quiet, tbl) /\ Procs \in Keys /\ S.fault[1] = "none"
  BY <1>1, Parts, Fields DEF Keys
<1>3. ASSUME NEW w \in Windows \ {Dt} PROVE m[w].key # Procs
  <2>1. Win(S, w, quiet, tbl)
    BY <1>2, SafeFacts
  <2>2. m[w].key \in Dirs \cup {NULL}
    BY <2>1, Fields DEF Win, WindowOK, Steady
  <2>. QED
    BY <1>2, <2>2, ListsAssumption
<1>4. S' \in StateType /\ TblType(tbl)' /\ Safe(S, quiet, tbl)' /\ LisSafe(lis, tbl)'
  BY <1>1, <1>2, <1>3, CommitSafe
<1>5. Apparatus'
  BY <1>1, <1>2, <1>4 DEF Apparatus
<1>6. ASSUME NEW k \in Dirs PROVE PendingOK(k)'
  BY <1>1, <1>2 DEF PendingOK, Listeners
<1>. QED
  BY <1>1, <1>2, <1>4, <1>5, <1>6, PartsNext

(* A record of it freed is of no directory.                                *)
LEMMA ForeignFreed ==
  ASSUME NEW mw \in ModelType, NEW nm \in ModelType, NEW unsaid \in BOOLEAN, NEW T, TblType(T), NEW gone,
         gone \subseteq {Procs} \X Names, FreedBut(nm, mw, gone, {}), WindowOK(mw, unsaid, T)
  PROVE  WindowOK(nm, unsaid, T)
<1>1. /\ nm.key = mw.key /\ nm.blocking = mw.blocking /\ nm.lis = mw.lis
      /\ nm.sort = mw.sort /\ nm.filter = mw.filter
      /\ nm.top = mw.top /\ nm.lnum = mw.lnum /\ nm.ptop = mw.ptop /\ nm.plnum = mw.plnum
      /\ nm.cur = FreedOf(mw.cur, gone) /\ nm.head = mw.head
      /\ Len(nm.lines) = Len(mw.lines) /\ (nm.lines = <<>> <=> mw.lines = <<>>)
      /\ ToSet(mw.lines) \cap gone = {} => nm.lines = mw.lines
  BY DEF FreedBut
<1>2. (OnLine(nm) <=> OnLine(mw)) /\ (Astray(nm) <=> Astray(mw))
  BY <1>1 DEF OnLine, Astray
<1>3. ASSUME ~mw.blocking, ~unsaid
      PROVE  nm.lines = mw.lines /\ nm.cur = mw.cur /\ InSync(mw, T)
  <2>1. mw.key \in Keys /\ mw.key # Procs /\ InSync(mw, T)
    BY <1>3, ListsAssumption DEF WindowOK, Steady, Keys
  <2>2. /\ ToSet(Matching(T[mw.key], mw.filter)) \subseteq ToSet(T[mw.key])
        /\ ToSet(T[mw.key]) \subseteq {mw.key} \X Names
    BY <2>1, MatchFacts, TableFacts
  <2>3. gone \cap ToSet(T[mw.key]) = {} /\ NULL \notin gone
    <3>1. gone \subseteq Recs
      BY DEF Recs, Keys
    <3>. QED
      BY <2>1, <2>2, <3>1, ListsAssumption
  <2>. QED
    BY <1>1, <2>1, <2>2, <2>3 DEF InSync, FreedOf
<1>4. ASSUME ~mw.blocking, ~unsaid PROVE InSync(nm, T)
  BY <1>1, <1>3, <1>4 DEF InSync, InOrder
<1>5. Steady(nm, unsaid, T)
  BY <1>1, <1>2, <1>4 DEF WindowOK, Steady
<1>. QED
  BY <1>1, <1>2, <1>3, <1>5 DEF WindowOK

LEMMA RemoveKeeps ==
  ASSUME IInv, NEW n \in Names, RemovePid(n)
  PROVE  IInv'
<1> DEFINE r == <<Procs, n>>
           gone == {r}
           none == {}
           t == Free(S, gone, none)
           new == Keep(tbl[Procs], Recs \ {r})
<1>1. /\ fault[1] = "none" /\ Become(t) /\ tbl' = [tbl EXCEPT ![Procs] = new]
      /\ UNCHANGED <<ent, want, quiet, commands, scans>>
  BY DEF RemovePid
<1>2. /\ Apparatus /\ (Dt \in Windows => want[Dt] = NULL) /\ \A k \in Dirs : PendingOK(k)
      /\ Safe(S, quiet, tbl) /\ Procs \in Keys /\ S.fault[1] = "none" /\ S \in StateType
      /\ LisSafe(S.lis, tbl) /\ S.m = m /\ S.lis = lis /\ TblType(tbl)
  BY <1>1, Parts, Fields DEF Keys, Apparatus
<1>3. gone \subseteq Recs /\ gone \subseteq {Procs} \X Names /\ none \subseteq Keys /\ none = {}
  BY <1>2 DEF Recs
<1>4. new \in Seq({Procs} \X Names)
  <2>1. tbl[Procs] \in Seq({Procs} \X Names)
    BY <1>2 DEF TblType
  <2>. QED
    BY <2>1, KeepFacts
<1> HIDE DEF new, gone, none, t
<1>5. /\ t \in StateType /\ t.sel = S.sel /\ t.fault = S.fault
      /\ \A w \in Windows : FreedBut(t.m[w], S.m[w], gone, none)
      /\ \A k \in Keys : ListenerFreed(t.lis, S.lis, k, gone, none)
  BY <1>2, <1>3, FreeFacts DEF t
<1>6. TblType(tbl') /\ \A k \in Keys \ {Procs} : tbl'[k] = tbl[k]
  BY <1>1, <1>2, <1>4 DEF TblType
<1>7. ASSUME NEW w \in Windows PROVE Win(t, w, quiet, tbl')
  <2>1. /\ Win(S, w, quiet, tbl) /\ S.m[w] \in ModelType /\ t.m[w] \in ModelType
        /\ FreedBut(t.m[w], S.m[w], gone, none) /\ t.m[w].key = S.m[w].key
    BY <1>2, <1>5, SafeFacts, StateFacts DEF FreedBut
  <2>2. Tied(t.m[w], t.lis)
    <3>1. \A k \in Keys : S.lis[k] # NULL => t.lis[k] # NULL
      BY <1>5 DEF ListenerFreed
    <3>. QED
      BY <1>3, <2>1, <3>1, FreedTied DEF Win
  <2>3. ASSUME w # Dt PROVE WindowOK(t.m[w], w \in quiet, tbl')
    <3>1. WindowOK(S.m[w], w \in quiet, tbl)
      BY <2>1, <2>3 DEF Win
    <3>2. WindowOK(t.m[w], w \in quiet, tbl)
      <4> DEFINE unsaid == w \in quiet
                 mw == S.m[w]
                 nm == t.m[w]
      <4>1. /\ unsaid \in BOOLEAN /\ mw \in ModelType /\ nm \in ModelType
            /\ WindowOK(mw, unsaid, tbl) /\ FreedBut(nm, mw, gone, {})
        BY <1>3, <2>1, <3>1
      <4> HIDE DEF unsaid, mw, nm
      <4>2. WindowOK(nm, unsaid, tbl)
        BY <1>2, <1>3, <4>1, ForeignFreed
      <4>. QED
        BY <4>2 DEF unsaid, nm
    <3>3. ~t.m[w].blocking => t.m[w].key \in Keys \ {Procs}
      BY <3>2, ListsAssumption DEF WindowOK, Steady, Keys
    <3>. QED
      BY <1>6, <3>2, <3>3, OtherTable
  <2>. QED
    BY <2>1, <2>2, <2>3 DEF Win
<1>8. SelectionOK(t)
  <2>1. SelectionOK(S)
    BY <1>2, SafeFacts
  <2>2. \A w \in Windows : \A sl : Within(sl, S.m[w]) => Within(sl, t.m[w])
    BY <1>5 DEF FreedBut, Within, OnLine
  <2>. QED
    BY <1>5, <2>1, <2>2, SelFacts
<1>9. Safe(t, quiet, tbl')
  <2>1. Known(t, quiet)
    BY <1>2, <1>5 DEF Known
  <2>. QED
    BY <1>7, <1>8, <2>1, SafeFacts
<1>10. ASSUME NEW k \in Dirs PROVE LisOK(k, t.lis, tbl')
  <2>1. k \in Keys /\ k # Procs /\ LisOK(k, S.lis, tbl) /\ tbl'[k] = tbl[k]
    BY <1>2, <1>6, ListsAssumption DEF LisSafe, Keys
  <2>2. ListenerFreed(t.lis, S.lis, k, gone, none)
    BY <1>5, <2>1
  <2>3. NULL \notin gone /\ gone \cap ({k} \X Names) = {}
    BY <1>3, <2>1, ListsAssumption
  <2>. QED
    BY <1>3, <2>1, <2>2, <2>3 DEF LisOK, ListenerFreed, FreedOf
<1>11. S' = t /\ lis' = t.lis /\ m' = t.m /\ sel' = t.sel /\ fault' = t.fault
  BY <1>1, <1>5, Becomes
<1>12. Apparatus'
  BY <1>1, <1>2, <1>6 DEF Apparatus
<1>13. ASSUME NEW k \in Dirs PROVE PendingOK(k)'
  <2>1. \A w \in Windows : m'[w].key = m[w].key /\ m'[w].blocking = m[w].blocking
    BY <1>2, <1>5, <1>11 DEF FreedBut
  <2>. QED
    BY <1>1, <1>2, <2>1 DEF PendingOK, Listeners
<1>14. LisSafe(lis, tbl)'
  BY <1>10, <1>11 DEF LisSafe
<1>15. Safe(S, quiet, tbl)' /\ S' \in StateType
  BY <1>1, <1>5, <1>9, <1>11
<1>. QED
  BY <1>1, <1>2, <1>12, <1>13, <1>14, <1>15, PartsNext

-----------------------------------------------------------------------------
(* A scan, and the event it posts.                                         *)
LEMMA EmptiedFacts ==
  ASSUME IInv, fault[1] = "none", NEW d \in Dirs
  PROVE  LET r == TblDelVal(FsFlushStream(S, d), d)
             T == Emptied(tbl, d)
         IN  /\ r \in StateType /\ Safe(r, quiet \cup Told(d, ent[d].reopen), T) /\ LisSafe(r.lis, T)
             /\ \A w \in Windows : /\ r.m[w].key = m[w].key
                                   /\ Waits(r.m[w], m[w], d, ent[d].reopen)
             /\ \A k \in Keys : lis[k] # NULL => r.lis[k] # NULL
<1>1. /\ S \in StateType /\ Safe(S, quiet, tbl) /\ TblType(tbl) /\ LisSafe(S.lis, tbl)
      /\ S.m = m /\ S.lis = lis /\ S.fault[1] = "none" /\ ent[d] \in EntryType
  BY Parts, Fields DEF Apparatus
<1>2. ent[d].reopen \in BOOLEAN
  BY <1>1 DEF EntryType
<1>3. \A k \in Dirs : LisOK(k, S.lis, tbl)
  BY <1>1 DEF LisSafe
<1>4. LET r == TblDelVal(FsFlushStream(S, d), d)
          T == Emptied(tbl, d)
      IN  /\ r \in StateType /\ Safe(r, quiet \cup Told(d, ent[d].reopen), T)
          /\ \A k \in Dirs : LisOK(k, r.lis, T)
          /\ \A w \in Windows : /\ r.m[w].key = m[w].key
                                /\ Waits(r.m[w], m[w], d, ent[d].reopen)
          /\ \A k \in Keys : S.lis[k] # NULL => r.lis[k] # NULL
  BY <1>1, <1>2, <1>3, EmptiedSafe
<1>. QED
  BY <1>1, <1>4 DEF LisSafe

(* Who had lines of the directory and was not told lost them silently.     *)
LEMMA ToldOrWaits ==
  ASSUME NEW d \in Dirs, NEW w \in Windows, NEW nm, Waits(nm, m[w], d, ent[d].reopen),
         ent[d].reopen \in BOOLEAN
  PROVE  /\ m[w].blocking => nm.blocking
         /\ m[w].key = d => nm.blocking \/ w \in Told(d, ent[d].reopen)
BY DEF Waits, Told, Listeners

LEMMA ScanKeeps ==
  ASSUME IInv, fault[1] = "none", NEW d \in Dirs, NEW files \in FileSets, ScanCb(d, files)
  PROVE  IInv'
<1> DEFINE r == TblDelVal(FsFlushStream(S, d), d)
           T == Emptied(tbl, d)
           told == Told(d, ent[d].reopen)
           found == IF ent[d].cancel THEN <<>> ELSE files
           e == [ent[d] EXCEPT !.state = "signal", !.cached = TRUE, !.files = found]
<1>1. /\ Apparatus /\ (Dt \in Windows => want[Dt] = NULL) /\ \A k \in Dirs : PendingOK(k)
      /\ ent[d] \in EntryType /\ TblType(tbl) /\ quiet \subseteq Windows
  BY Parts DEF Apparatus
<1>2. /\ ent[d].state = "scan" /\ Become(r) /\ tbl' = T /\ quiet' = quiet \cup told
      /\ ent' = [ent EXCEPT ![d].state = "signal", ![d].cached = TRUE, ![d].files = found]
      /\ scans' = Minimum(scans + 1, MaxScans) /\ UNCHANGED <<want, commands>>
  BY DEF ScanCb, Emptied, Told
<1>3. /\ r \in StateType /\ Safe(r, quiet \cup told, T) /\ LisSafe(r.lis, T)
      /\ \A w \in Windows : r.m[w].key = m[w].key /\ Waits(r.m[w], m[w], d, ent[d].reopen)
  BY EmptiedFacts
<1> HIDE DEF r, T, told
<1>4. S' = r /\ lis' = r.lis /\ m' = r.m /\ sel' = r.sel /\ fault' = r.fault
  BY <1>2, <1>3, Becomes
<1>5. TblType(tbl')
  BY <1>1, <1>2, EmptiedTable DEF T
<1>6. found \in Seq(Names) /\ scans' \in Nat
  <2>1. files \in Seq(Names) /\ <<>> \in Seq(Names) /\ MaxScans \in Nat
    BY ListsAssumption
  <2>. QED
    BY <1>1, <1>2, <2>1 DEF Minimum, Apparatus
<1> HIDE DEF found
<1>7. e \in EntryType /\ e.state = "signal" /\ ent' = [ent EXCEPT ![d] = e]
  <2>1. e \in EntryType /\ e.state = "signal"
    BY <1>1, <1>6 DEF EntryType
  <2>2. ent' = [ent EXCEPT ![d] = e]
    BY <1>1, <1>2 DEF Apparatus
  <2>. QED
    BY <2>1, <2>2
<1> HIDE DEF e
<1>8. ent' \in [Dirs -> EntryType] /\ ent'[d] = e /\ \A k \in Dirs \ {d} : ent'[k] = ent[k]
  BY <1>1, <1>7 DEF Apparatus
<1>9. quiet' \subseteq Windows
  BY <1>1, <1>2 DEF told, Told, Listeners
<1>10. Apparatus'
  BY <1>1, <1>2, <1>5, <1>6, <1>8, <1>9 DEF Apparatus
<1>11. ASSUME NEW w \in Windows
       PROVE  /\ m'[w].key = m[w].key /\ (m[w].blocking => m'[w].blocking)
              /\ m[w].key = d => m'[w].blocking \/ w \in quiet'
  <2>1. Waits(r.m[w], m[w], d, ent[d].reopen) /\ ent[d].reopen \in BOOLEAN
    BY <1>1, <1>3 DEF EntryType
  <2>. QED
    BY <1>2, <1>3, <1>4, <2>1, ToldOrWaits DEF told
<1>12. ASSUME NEW k \in Dirs PROVE PendingOK(k)'
  <2>1. CASE k = d
    BY <1>7, <1>8, <1>11, <2>1 DEF PendingOK, Listeners
  <2>2. CASE k # d
    <3>1. ent'[k] = ent[k] /\ PendingOK(k)
      BY <1>1, <1>8, <2>2
    <3>. QED
      BY <1>2, <1>11, <3>1 DEF PendingOK, Listeners
  <2>. QED
    BY <2>1, <2>2
<1>13. LisSafe(lis, tbl)' /\ Safe(S, quiet, tbl)' /\ S' \in StateType
  BY <1>2, <1>3, <1>4
<1>. QED
  BY <1>1, <1>2, <1>10, <1>12, <1>13, PartsNext

LEMMA SignalKeeps ==
  ASSUME IInv, fault[1] = "none", NEW d \in Dirs, FsSignalHandle(d)
  PROVE  IInv'
<1> DEFINE cancel == ent[d].cancel
           W == Listeners(d)
           s == IF cancel THEN TblDelVal(FsFlushStream(S, d), d) ELSE S
           T == IF cancel THEN Emptied(tbl, d) ELSE tbl
           told == IF cancel /\ ~ent[d].reopen THEN {w \in W : ~m[w].blocking} ELSE {}
           q == quiet \cup told
           recv == {w \in W : s.m[w].blocking /\ s.m[w].lines = <<>>}
           r == ForEach(ModelRecv, s, W)
           e == [ent[d] EXCEPT !.state = "idle", !.reopen = FALSE, !.cached = @ /\ ~cancel,
                               !.cancel = @ /\ W # {}]
<1>1. /\ Apparatus /\ (Dt \in Windows => want[Dt] = NULL) /\ \A k \in Dirs : PendingOK(k)
      /\ ent[d] \in EntryType /\ TblType(tbl) /\ quiet \subseteq Windows
      /\ S \in StateType /\ Safe(S, quiet, tbl) /\ LisSafe(lis, tbl) /\ S.m = m /\ S.lis = lis
      /\ d \in Keys
  BY Parts, Fields DEF Apparatus, Keys
<1>2. /\ ent[d].state = "signal" /\ ent[d].files = <<>> /\ Become(r) /\ tbl' = T
      /\ quiet' = q \ (IF fault'[1] = "none" THEN recv ELSE {})
      /\ ent' = [ent EXCEPT ![d].state = "idle", ![d].reopen = FALSE, ![d].cached = @ /\ ~cancel,
                            ![d].cancel = @ /\ W # {}]
      /\ UNCHANGED <<want, commands, scans>>
  BY DEF FsSignalHandle, Emptied
<1>3. e \in EntryType /\ e.files = <<>>
  BY <1>1, <1>2 DEF EntryType
<1>4. ent' = [ent EXCEPT ![d] = e]
  BY <1>1, <1>2 DEF Apparatus
<1> HIDE DEF e
<1>5. /\ s \in StateType /\ Safe(s, q, T) /\ LisSafe(s.lis, T)
      /\ \A w \in Windows : s.m[w].key = m[w].key /\ (m[w].blocking => s.m[w].blocking)
  <2>1. CASE cancel
    <3> DEFINE u == TblDelVal(FsFlushStream(S, d), d)
               E == Emptied(tbl, d)
               p == quiet \cup Told(d, ent[d].reopen)
    <3>1. /\ u \in StateType /\ Safe(u, p, E) /\ LisSafe(u.lis, E)
          /\ \A w \in Windows : u.m[w].key = m[w].key /\ Waits(u.m[w], m[w], d, ent[d].reopen)
      BY EmptiedFacts
    <3>2. s = u /\ T = E /\ q = p
      BY <2>1 DEF Told
    <3> HIDE DEF s, T, q, u, E, p
    <3>. QED
      BY <1>1, <3>1, <3>2 DEF Waits, EntryType
  <2>2. CASE ~cancel
    <3>1. s = S /\ T = tbl
      BY <2>2
    <3>2. q = quiet
      BY <2>2
    <3> HIDE DEF s, T, q
    <3>. QED
      BY <1>1, <3>1, <3>2
  <2>. QED
    BY <2>1, <2>2
<1>6. TblType(T) /\ (cancel => T[d] = <<>>)
  BY <1>1, EmptiedTable
<1>7. ~cancel => T = tbl
  OBVIOUS
<1>8. W \subseteq Windows /\ \A w \in W : m[w].key = d
  BY DEF Listeners
<1>9. \A v \in Windows : m[v].key = d => v \in W
  BY DEF Listeners
<1>10. told \subseteq Windows
  BY <1>8
<1> HIDE DEF s, T, q, W, told
<1>11. LisOK(d, s.lis, T)
  BY <1>5 DEF LisSafe
<1>12. s.lis[d] # NULL /\ s.lis[d].rec # NULL => T = tbl
  BY <1>6, <1>7, <1>11 DEF LisOK
<1>13. /\ r \in StateType /\ LisKept(r.lis, s.lis)
       /\ \A v \in Windows \ W : r.m[v] = s.m[v]
       /\ r.fault[1] = "none" => \A v \in Windows : r.m[v].key = s.m[v].key
       /\ Safe(r, IF r.fault[1] = "none" THEN q \ recv ELSE q, T)
  <2>1. \A w \in W : s.m[w].key = d
    BY <1>5, <1>8
  <2>. QED
    BY <1>1, <1>5, <1>6, <1>8, <1>11, <1>12, <2>1, RecvAll
<1>14. recv \subseteq W
  OBVIOUS
<1> HIDE DEF r, recv
<1>15. S' = r /\ lis' = r.lis /\ m' = r.m /\ sel' = r.sel /\ fault' = r.fault
  BY <1>2, <1>13, Becomes
<1>16. Safe(S', quiet', tbl')
  <2>1. quiet' = IF r.fault[1] = "none" THEN q \ recv ELSE q
    BY <1>2, <1>15
  <2>. QED
    BY <1>2, <1>13, <1>15, <2>1
<1>17. ent' \in [Dirs -> EntryType] /\ ent'[d] = e /\ \A k \in Dirs \ {d} : ent'[k] = ent[k]
  BY <1>1, <1>3, <1>4 DEF Apparatus
<1>18. quiet' \subseteq Windows
  BY <1>1, <1>2, <1>10 DEF q
<1>19. Apparatus'
  BY <1>1, <1>2, <1>6, <1>17, <1>18 DEF Apparatus
<1>20. ASSUME fault'[1] = "none", NEW k \in Dirs PROVE PendingOK(k)'
  <2>1. CASE k = d
    BY <1>3, <1>17, <2>1 DEF PendingOK
  <2>2. CASE k # d
    <3>1. ent'[k] = ent[k] /\ PendingOK(k)
      BY <1>1, <1>17, <2>2
    <3>2. ASSUME NEW w \in Windows, m'[w].key = k
          PROVE  m[w].key = k /\ (m[w].blocking => m'[w].blocking) /\ (w \in quiet => w \in quiet')
      <4>1. m[w].key = k
        BY <1>5, <1>13, <1>15, <1>20, <3>2
      <4>2. w \notin W
        BY <1>8, <2>2, <4>1
      <4>3. m'[w] = s.m[w]
        BY <1>13, <1>15, <4>2
      <4>4. w \in quiet => w \in quiet'
        BY <1>2, <1>14, <4>2 DEF q
      <4>. QED
        BY <1>5, <4>1, <4>3, <4>4
    <3>. QED
      BY <3>1, <3>2 DEF PendingOK, Listeners
  <2>. QED
    BY <2>1, <2>2
<1>21. LisSafe(lis, tbl)'
  <2>1. \A k \in Dirs : LisOK(k, r.lis, T)
    BY <1>5, <1>13, KeptFacts DEF LisSafe, Keys
  <2>. QED
    BY <1>2, <1>15, <2>1 DEF LisSafe
<1>. QED
  BY <1>1, <1>2, <1>13, <1>15, <1>16, <1>19, <1>20, <1>21, PartsNext

-----------------------------------------------------------------------------
(* The window that lists a table is told: it lists it again.               *)
LEMMA SignalModelKeeps ==
  ASSUME IInv, DtSignalModel
  PROVE  IInv'
<1> DEFINE first == IF tbl[Procs] = <<>> THEN NULL ELSE Head(tbl[Procs])
           s1 == ModelFlush(S, Dt, TRUE)
           l == [s1.lis[Procs] EXCEPT !.rec = first]
           a == PutLis(s1, Procs, l)
           s2 == ModelRecv(a, Dt)
           t == IF s2.fault[1] = "none" THEN BufMv(s2, Dt, 0) ELSE s2
<1>1. /\ Dt \in Windows /\ m[Dt].key # NULL /\ fault[1] = "none" /\ commands' = commands + 1
      /\ Become(t) /\ UNCHANGED <<tbl, ent, want, quiet, scans>>
  <2>1. [s1 EXCEPT !.lis[Procs].rec = first] = a
    BY DEF PutLis
  <2> HIDE DEF a
  <2>2. Command(Dt) /\ Edit(t)
    BY <2>1 DEF DtSignalModel
  <2> HIDE DEF t
  <2>. QED
    BY <2>2 DEF Command, Opened, Edit
<1>2. /\ S \in StateType /\ Safe(S, quiet, tbl) /\ Apparatus /\ (Dt \in Windows => want[Dt] = NULL)
      /\ LisSafe(S.lis, tbl) /\ S.fault[1] = "none" /\ S.m = m /\ S.lis = lis /\ TblType(tbl)
      /\ \A k \in Dirs : PendingOK(k)
  BY <1>1, Parts, Fields DEF Apparatus
<1>3. SelectionOK(S) /\ \A v \in Windows : Win(S, v, quiet, tbl)
  BY <1>2, SafeFacts
<1>4. S.m[Dt].key = Procs /\ Procs \in Keys /\ S.lis[Procs] # NULL /\ Tied(S.m[Dt], S.lis)
  BY <1>1, <1>2, <1>3 DEF Win, Tied, Keys
<1>5. /\ s1 \in StateType /\ Apart(s1, S, Dt) /\ s1.sel = S.sel
      /\ FlushedBut(s1.m[Dt], S.m[Dt], TRUE)
      /\ \/ s1.fault = S.fault
         \/ s1.fault = <<"freed", Dt>>
  <2> DEFINE re == TRUE
  <2> HIDE DEF re
  <2>1. LET u == ModelFlush(S, Dt, re) IN
        /\ u \in StateType /\ Apart(u, S, Dt) /\ u.sel = S.sel
        /\ FlushedBut(u.m[Dt], S.m[Dt], re)
        /\ \/ u.fault = S.fault
           \/ S.fault[1] = "none" /\ u.fault = <<"freed", Dt>> /\ re /\ S.m[Dt].cur = Freed
    BY <1>1, <1>2, FlushFacts
  <2>. QED
    BY <2>1 DEF re
<1> HIDE DEF s1
<1>6. first \in Recs \cup {NULL} /\ (first # NULL => first \in Recs)
  <2>1. tbl[Procs] # <<>> => Head(tbl[Procs]) \in ToSet(tbl[Procs]) /\ ToSet(tbl[Procs]) \subseteq Recs
    BY <1>2, <1>4, TableFacts
  <2>. QED
    BY <2>1
<1> HIDE DEF first
<1>7. l \in LisType
  <2>1. s1.lis = S.lis /\ s1.lis[Procs] \in LisType
    BY <1>2, <1>4, <1>5, StateFacts DEF Apart
  <2>. QED
    BY <1>6, <2>1 DEF LisType
<1> HIDE DEF l
<1>8. /\ a \in StateType /\ a.m = s1.m /\ a.sel = s1.sel /\ a.fault = s1.fault
      /\ a.lis[Procs] = l /\ l # NULL /\ \A j \in Keys \ {Procs} : a.lis[j] = s1.lis[j]
  BY <1>4, <1>5, <1>7, PutLisFacts
<1> HIDE DEF a
<1>9. /\ \A v \in Windows \ {Dt} : a.m[v] = S.m[v]
      /\ \A k \in Keys : S.lis[k] # NULL => a.lis[k] # NULL
      /\ \A k \in Dirs : a.lis[k] = S.lis[k]
  BY <1>5, <1>8, ListsAssumption DEF Apart, Keys
<1>10. a.m[Dt].key = Procs /\ a.m[Dt].blocking
  BY <1>4, <1>5, <1>8 DEF FlushedBut
<1>11. ASSUME NEW v \in Windows PROVE Win(a, v, quiet, tbl)
  <2>1. CASE v = Dt
    <3>1. Tied(a.m[Dt], a.lis)
      <4>1. S.m[Dt].lis \in Keys \cup {NULL}
        BY <1>1, <1>2, StateFacts DEF ModelType
      <4>. QED
        BY <1>4, <1>5, <1>8, <1>9, <4>1 DEF FlushedBut, Tied
    <3>. QED
      BY <1>10, <2>1, <3>1 DEF Win
  <2>2. CASE v # Dt
    <3>1. Win(S, v, quiet, tbl) /\ a.m[v] = S.m[v] /\ S.m[v] \in ModelType
      BY <1>2, <1>3, <1>9, <2>2, StateFacts
    <3>2. Tied(a.m[v], a.lis)
      <4>1. S.m[v].key \in Keys \cup {NULL} /\ S.m[v].lis \in Keys \cup {NULL}
        BY <3>1 DEF ModelType
      <4>. QED
        BY <1>9, <3>1, <4>1 DEF Win, Tied
    <3>. QED
      BY <2>2, <3>1, <3>2 DEF Win
  <2>. QED
    BY <2>1, <2>2
<1>12. SelectionOK(a)
  BY <1>3, <1>5, <1>8, <1>9, SelFacts
<1>13. LisSafe(a.lis, tbl)
  BY <1>2, <1>9 DEF LisSafe, LisOK
(* After the flush went wrong nothing more is done. *)
<1>14. CASE a.fault[1] # "none"
  <2>1. s2 = a
    BY <1>14 DEF ModelRecv
  <2>2. t = a /\ a.fault = <<"freed", Dt>>
    BY <1>2, <1>5, <1>8, <1>14, <2>1
  <2> HIDE DEF t
  <2>3. S' = a /\ lis' = a.lis /\ m' = a.m /\ sel' = a.sel /\ fault' = a.fault
    BY <1>1, <1>8, <2>2, Becomes
  <2>4. Known(a, quiet)
    BY <2>2 DEF Known
  <2>5. Safe(S', quiet', tbl')
    BY <1>1, <1>14, <2>3, <2>4, SafeFacts
  <2>6. Apparatus'
    BY <1>1, <1>2 DEF Apparatus
  <2>. QED
    BY <1>8, <1>14, <2>3, <2>5, <2>6, PartsNext
<1>15. CASE a.fault[1] = "none"
  <2>1. Received(s2, a, Dt, quiet, tbl)
    BY <1>1, <1>2, <1>4, <1>8, <1>10, <1>11, <1>15, RecvReceived
  <2> HIDE DEF s2
  <2>2. /\ s2 \in StateType /\ LisKept(s2.lis, a.lis)
        /\ \A v \in Windows \ {Dt} : s2.m[v] = S.m[v]
        /\ Known(s2, quiet)
        /\ s2.fault[1] = "none" =>
             /\ s2.sel = SelectClear(a, Dt).sel \/ s2.sel = a.sel
             /\ ~s2.m[Dt].blocking /\ s2.m[Dt].key = Procs
             /\ Win(s2, Dt, quiet, tbl)
    <3>1. s2.fault[1] = "none" => (Win(s2, Dt, IF a.m[Dt].lines = <<>> THEN quiet \ {Dt} ELSE quiet, tbl)
                                   => Win(s2, Dt, quiet, tbl))
      BY DEF Win
    <3>. QED
      BY <1>9, <1>10, <2>1, <3>1 DEF Received
  <2>3. LisSafe(s2.lis, tbl)
    BY <1>13, <2>2, KeptFacts DEF LisSafe, Keys
  <2>4. CASE s2.fault[1] # "none"
    <3>1. S' = s2 /\ lis' = s2.lis /\ m' = s2.m /\ sel' = s2.sel /\ fault' = s2.fault
      BY <1>1, <2>2, <2>4, Becomes
    <3>2. Safe(S', quiet', tbl')
      BY <1>1, <2>2, <2>4, <3>1, SafeFacts
    <3>3. Apparatus'
      BY <1>1, <1>2 DEF Apparatus
    <3>. QED
      BY <2>2, <2>4, <3>1, <3>2, <3>3, PartsNext
  <2>5. CASE s2.fault[1] = "none"
    <3>1. ASSUME NEW v \in Windows PROVE Win(s2, v, quiet, tbl)
      <4>1. CASE v = Dt
        BY <2>2, <2>5, <4>1
      <4>2. CASE v # Dt
        <5>1. Win(a, v, quiet, tbl) /\ s2.m[v] = a.m[v] /\ a.m[v] \in ModelType
          BY <1>8, <1>9, <1>11, <2>2, <4>2, StateFacts
        <5>2. Tied(s2.m[v], s2.lis)
          BY <2>2, <5>1, KeptFacts DEF Win
        <5>. QED
          BY <4>2, <5>1, <5>2 DEF Win
      <4>. QED
        BY <4>1, <4>2
    <3>2. SelectionOK(s2)
      <4> DEFINE c == SelectClear(a, Dt).sel
      <4>1. /\ a.sel.owner # Dt => c = a.sel
            /\ a.sel.owner = Dt => ~c.enabled /\ ~c.active
            /\ c.owner = a.sel.owner
        BY <1>8, ClearFacts
      <4>2. s2.sel = c \/ s2.sel = a.sel
        BY <2>2, <2>5
      <4> HIDE DEF c
      <4>3. \A v \in Windows \ {Dt} : s2.m[v] = a.m[v]
        BY <1>9, <2>2
      <4>. QED
        BY <1>12, <4>1, <4>2, <4>3, SelFacts
    <3>3. Safe(s2, quiet, tbl)
      BY <2>2, <3>1, <3>2, SafeFacts
    <3> DEFINE zero == 0
    <3>4. t = BufMv(s2, Dt, zero) /\ zero \in Int
      BY <2>5
    <3> HIDE DEF zero, t
    <3>5. Edited(t, s2, Dt, quiet, tbl)
      BY <1>1, <1>2, <2>2, <2>5, <3>3, <3>4, BufMvSafe
    <3>6. /\ t \in StateType /\ t.lis = s2.lis /\ Safe(t, quiet, tbl) /\ t.m[Dt].key = Procs
          /\ \A v \in Windows \ {Dt} : t.m[v] = m[v]
      BY <1>2, <2>2, <2>5, <3>5 DEF Edited, Apart
    <3>7. S' = t /\ lis' = t.lis /\ m' = t.m /\ sel' = t.sel /\ fault' = t.fault
      BY <1>1, <3>6, Becomes
    <3>8. Apparatus'
      BY <1>1, <1>2 DEF Apparatus
    <3>9. ASSUME NEW k \in Dirs PROVE PendingOK(k)'
      <4>1. k # Procs
        BY ListsAssumption
      <4>2. \A v \in Windows : m'[v].key = k => m'[v] = m[v]
        BY <3>6, <3>7, <4>1
      <4>. QED
        BY <1>1, <1>2, <4>2 DEF PendingOK, Listeners
    <3>10. LisSafe(lis, tbl)'
      BY <1>1, <2>3, <3>6, <3>7 DEF LisSafe
    <3>11. Safe(S, quiet, tbl)' /\ S' \in StateType
      BY <1>1, <3>6, <3>7
    <3>. QED
      BY <1>1, <1>2, <3>8, <3>9, <3>10, <3>11, PartsNext
  <2>. QED
    BY <2>4, <2>5
<1>. QED
  BY <1>14, <1>15

-----------------------------------------------------------------------------
(* The start, and every step.                                              *)
LEMMA NewModel ==
  ASSUME NEW k \in Keys \cup {NULL}
  PROVE  LET mw == Model(k) IN
         /\ mw \in ModelType /\ mw.key = k /\ mw.blocking /\ mw.cur = NULL /\ mw.head = NULL
         /\ mw.lis = NULL /\ mw.lines = <<>> /\ mw.top = 0 /\ mw.lnum = 0 /\ mw.ptop = 0 /\ mw.plnum = 0
<1> DEFINE o == CHOOSE o \in Sorts : TRUE
           n == CHOOSE s \in Sizes : TRUE
<1>1. o \in Sorts /\ n \in Sizes
  BY ListsAssumption
<1>2. <<>> \in Seq(Recs \cup {Freed}) /\ 0 \in Int
  OBVIOUS
<1> HIDE DEF o, n
<1>3. Model(k) = [key |-> k, blocking |-> TRUE, cur |-> NULL, head |-> NULL, lis |-> NULL,
                  pfval |-> NULL, ptop |-> 0, plnum |-> 0, lines |-> <<>>,
                  sort |-> [o |-> o, rev |-> FALSE],
                  filter |-> NoFilter, top |-> 0, lnum |-> 0, size |-> n]
  BY DEF Model, o, n
<1>. QED
  BY <1>1, <1>2, <1>3 DEF ModelType, NoFilter

LEMMA InitKeeps == Init => IInv
<1> SUFFICES ASSUME Init PROVE IInv
  OBVIOUS
<1>1. PICK d \in Start :
        /\ m = [w \in Windows |-> Model(d[w])]
        /\ lis = [k \in Keys |-> IF \E w \in Windows : d[w] = k THEN NewLis(k) ELSE NULL]
        /\ ent = [k \in Dirs |-> IF \E w \in Windows : d[w] = k
                                 THEN [Entry EXCEPT !.state = "stat"] ELSE Entry]
  BY DEF Init
<1>2. /\ tbl = [k \in Keys |-> <<>>] /\ sel = Selection /\ want = [w \in Windows |-> NULL]
      /\ quiet = {} /\ fault = <<"none", NULL>> /\ commands = 0 /\ scans = 0
  BY DEF Init
<1>3. TblType(tbl) /\ \A k \in Keys : tbl[k] = <<>>
  BY <1>2 DEF TblType
<1>4. \A w \in Windows : /\ d[w] \in Keys \cup {NULL}
                         /\ IF w = Dt THEN d[w] \in {Procs, NULL} ELSE d[w] \in Dirs \cup {NULL}
  BY DEF Start, Keys
<1>5. \A k \in Keys : /\ NewLis(k) \in LisType /\ NewLis(k) # NULL /\ NewLis(k).rec = NULL
                      /\ NewLis(k).top = 0 /\ NewLis(k).lnum = 0
  <2> TAKE k \in Keys
  <2> DEFINE l == NewLis(k)
  <2>1. l \in LisType /\ l.rec = NULL /\ l.top = 0 /\ l.lnum = 0
    BY <1>3 DEF NewLis, LisType
  <2> HIDE DEF l
  <2>2. l # NULL
    BY <2>1, ListsAssumption
  <2>. QED
    BY <2>1, <2>2 DEF l
<1>6. \A w \in Windows : /\ m[w] \in ModelType /\ m[w].key = d[w] /\ m[w].blocking /\ m[w].cur = NULL
                         /\ m[w].head = NULL /\ m[w].lis = NULL /\ m[w].lines = <<>>
                         /\ m[w].top = 0 /\ m[w].lnum = 0 /\ m[w].ptop = 0 /\ m[w].plnum = 0
  BY <1>1, <1>4, NewModel
<1>7. Entry \in EntryType /\ [Entry EXCEPT !.state = "stat"] \in EntryType
      /\ Entry.files = <<>> /\ [Entry EXCEPT !.state = "stat"].files = <<>>
  <2>1. <<>> \in Seq(Names)
    OBVIOUS
  <2>2. Entry \in EntryType /\ Entry.files = <<>>
    BY <2>1 DEF Entry, EntryType
  <2>3. [Entry EXCEPT !.state = "stat"] \in EntryType
    BY <2>2 DEF EntryType
  <2>4. [Entry EXCEPT !.state = "stat"].files = <<>>
    BY DEF Entry
  <2>. QED
    BY <2>2, <2>3, <2>4
<1>8. ent \in [Dirs -> EntryType] /\ \A k \in Dirs : ent[k].files = <<>>
  BY <1>1, <1>7
<1>9. sel \in SelectionType /\ ~sel.active /\ ~sel.enabled
  BY <1>2 DEF Selection, SelectionType
<1>10. /\ S \in StateType /\ S.m = m /\ S.lis = lis /\ S.sel = sel /\ S.fault = fault
  <2>1. m \in [Windows -> ModelType]
    BY <1>1, <1>6
  <2>2. lis \in [Keys -> LisType \cup {NULL}]
    BY <1>1, <1>5
  <2>3. fault \in Faults \X (Windows \cup {NULL})
    BY <1>2 DEF Faults
  <2>. QED
    BY <1>9, <2>1, <2>2, <2>3 DEF S, StateType
<1>11. Apparatus
  BY <1>2, <1>3, <1>8 DEF Apparatus
<1>12. ASSUME NEW w \in Windows PROVE Win(S, w, quiet, tbl)
  <2>1. Tied(m[w], lis)
    <3>1. m[w].key # NULL => lis[m[w].key] = NewLis(m[w].key) /\ m[w].key \in Keys
      BY <1>1, <1>4, <1>6
    <3>. QED
      BY <1>5, <1>6, <3>1 DEF Tied
  <2>2. w # Dt => WindowOK(m[w], w \in quiet, tbl)
    BY <1>4, <1>6 DEF WindowOK, Steady, Sane
  <2>3. w = Dt => m[w].key \in {Procs, NULL}
    BY <1>4, <1>6
  <2>. QED
    BY <1>10, <2>1, <2>2, <2>3 DEF Win
<1>13. Safe(S, quiet, tbl)
  <2>1. SelectionOK(S)
    BY <1>9, <1>10, SelFacts
  <2>2. Known(S, quiet)
    BY <1>2, <1>10 DEF Known
  <2>. QED
    BY <1>12, <2>1, <2>2, SafeFacts
<1>14. LisSafe(lis, tbl)
  BY <1>1, <1>3, <1>5 DEF LisSafe, LisOK, Keys, Sane
<1>15. \A k \in Dirs : PendingOK(k)
  BY <1>8 DEF PendingOK
<1>16. Dt \in Windows => want[Dt] = NULL
  BY <1>2
<1>. QED
  BY <1>10, <1>11, <1>13, <1>14, <1>15, <1>16, Parts

LEMMA StandsStill ==
  ASSUME IInv, UNCHANGED vars
  PROVE  IInv'
<1>1. /\ S \in StateType /\ Safe(S, quiet, tbl) /\ Apparatus
      /\ fault[1] = "none" => /\ Dt \in Windows => want[Dt] = NULL
                              /\ LisSafe(lis, tbl) /\ \A d \in Dirs : PendingOK(d)
  BY Parts
<1>2. S' = S /\ UNCHANGED <<tbl, lis, m, sel, ent, want, quiet, fault, commands, scans>>
  BY DEF vars, S
<1>3. Apparatus'
  BY <1>1, <1>2 DEF Apparatus
<1>4. fault'[1] = "none" => LisSafe(lis, tbl)' /\ \A d \in Dirs : PendingOK(d)'
  BY <1>1, <1>2 DEF PendingOK, Listeners, LisSafe
<1>. QED
  BY <1>1, <1>2, <1>3, <1>4, PartsNext

LEMMA UserKeeps ==
  ASSUME IInv, NEW w \in Windows, User(w)
  PROVE  IInv'
<1>1. /\ m[w].size \div 2 \in Int /\ Lines(w) \in Int
  <2>1. S \in StateType /\ S.m = m
    BY Parts, Fields
  <2>2. m[w] \in ModelType /\ Count(S, w) \in Int
    BY <2>1, StateFacts, ModelFacts DEF Count
  <2>3. m[w].size \in Nat
    BY <2>2, ModelFacts
  <2> DEFINE n == m[w].size
  <2>4. n \div 2 \in Int
    <3> HIDE DEF n
    <3>. QED
      BY <2>3 DEF n
  <2>. QED
    BY <2>2, <2>4 DEF Lines, Maximum
<1>2. ASSUME NEW y \in {-1, 1}, BufMove(w, y) PROVE IInv'
  BY <1>2, MoveKeeps DEF BufMove
<1>3. ASSUME NEW y \in {-1, 1}, BufMvPage(w, y) PROVE IInv'
  <2> DEFINE n == m[w].size \div 2
             p == n * y
  <2>1. p \in Int
    <3> HIDE DEF n
    <3>. QED
      BY <1>1 DEF n
  <2>2. Key(w) /\ Edit(BufMv(S, w, p))
    BY <1>3 DEF BufMvPage
  <2> HIDE DEF p
  <2>. QED
    BY <2>1, <2>2, MoveKeeps
<1>4. ASSUME NEW y \in {-Lines(w), Lines(w)}, BufG(w, y) PROVE IInv'
  <2>1. y \in Int
    BY <1>1
  <2>. QED
    BY <1>4, <2>1, MoveKeeps DEF BufG
<1>5. CASE BufToggleSel(w)
  BY <1>5, ToggleKeeps
<1>6. CASE BufAltOrigin(w)
  BY <1>6, AltOriginKeeps
<1>7. CASE BufEndSel(w)
  BY <1>7, EndSelKeeps
<1>8. ASSUME NEW o \in Sorts, NEW rev \in BOOLEAN, BufSort(w, o, rev) PROVE IInv'
  BY <1>8, SortKeeps
<1>9. ASSUME NEW p \in Patterns, ExFilter(w, p) PROVE IInv'
  BY <1>9, FilterKeeps
<1>10. ASSUME NEW size \in Sizes, Resize(w, size) PROVE IInv'
  BY <1>10, ResizeKeeps
<1>11. CASE Draw(w)
  BY <1>11, DrawKeeps
<1>12. ASSUME NEW d \in Dirs, FmReqDir(w, d) PROVE IInv'
  BY <1>12, ReqDirKeeps
<1>13. CASE FmOpendir(w)
  BY <1>13, OpendirKeeps
<1>14. CASE FmDelete(w)
  BY <1>14, DeleteKeeps
<1>. QED
  BY <1>2, <1>3, <1>4, <1>5, <1>6, <1>7, <1>8, <1>9, <1>10, <1>11, <1>12, <1>13, <1>14 DEF User

LEMMA NextKeeps == IInv /\ [Next]_vars => IInv'
<1> SUFFICES ASSUME IInv, [Next]_vars PROVE IInv'
  OBVIOUS
<1>1. ASSUME fault[1] = "none", NEW d \in Dirs,
             StatCb(d) \/ CommitEvent(d) \/ FsSignalHandle(d) \/ FsReopen(d)
      PROVE  IInv'
  BY <1>1, StatKeeps, CommitKeeps, SignalKeeps, ReopenKeeps
<1>2. ASSUME fault[1] = "none", NEW d \in Dirs, NEW files \in FileSets, ScanCb(d, files) PROVE IInv'
  BY <1>2, ScanKeeps
<1>3. ASSUME NEW w \in Windows, User(w) PROVE IInv'
  BY <1>3, UserKeeps
<1>4. ASSUME NEW n \in Names, AddPid(n) \/ RemovePid(n) PROVE IInv'
  BY <1>4, AddKeeps, RemoveKeeps
<1>5. CASE DtSignalModel
  BY <1>5, SignalModelKeeps
<1>6. CASE UNCHANGED vars
  BY <1>6, StandsStill
<1>. QED
  BY <1>1, <1>2, <1>3, <1>4, <1>5, <1>6 DEF Next

(* The inductive invariant: states that are safe, listeners that have a    *)
(* record of their directory if it has one, and no record that is to be    *)
(* inserted below a window that has its lines.                             *)
THEOREM InvariantCorrect == Spec => []IInv
<1>. QED
  BY InitKeeps, NextKeeps, PTL DEF Spec

(* Models, listeners, the selection and the tables have their types, in    *)
(* whatever order events and commands come (model.h, table.h, select.c).   *)
THEOREM TypeCorrect == Spec => []TypeOK
<1>1. IInv => TypeOK
  BY DEF IInv
<1>. QED
  BY <1>1, InvariantCorrect, PTL

LEMMA WindowFacts ==
  ASSUME IInv, fault[1] = "none", NEW w \in Opened \ ({Dt} \cup quiet)
  PROVE  /\ m[w] \in ModelType /\ m[w].key \in Keys /\ TblType(tbl)
         /\ m[w].blocking => m[w].lines = <<>>
         /\ ~m[w].blocking =>
              /\ InSync(m[w], tbl)
              /\ OnLine(m[w]) \/ Astray(m[w]) \/ m[w].lines = <<>>
              /\ OnLine(m[w]) => m[w].cur = m[w].lines[m[w].top + m[w].lnum + 1]
<1>1. /\ S \in StateType /\ Safe(S, quiet, tbl) /\ S.m = m /\ S.fault = fault /\ TblType(tbl)
      /\ w \in Windows /\ w # Dt /\ w \notin quiet /\ m[w].key # NULL
  BY Parts, Fields DEF Apparatus, Opened
<1>2. WindowOK(m[w], FALSE, tbl) /\ m[w] \in ModelType
  <2>1. Win(S, w, quiet, tbl)
    BY <1>1, SafeFacts
  <2>2. WindowOK(m[w], w \in quiet, tbl)
    BY <1>1, <2>1 DEF Win
  <2>3. (w \in quiet) = FALSE
    BY <1>1
  <2>4. WindowOK(m[w], FALSE, tbl)
    BY <2>2, <2>3
  <2>5. m[w] \in ModelType
    BY <1>1 DEF StateType
  <2>. QED
    BY <2>4, <2>5
<1>. QED
  BY <1>1, <1>2 DEF WindowOK, Steady, Keys

(* The lines of a window are records of the table of its directory, none   *)
(* of them freed, and its current record is that of the line under the     *)
(* cursor (model_read_entry, model_sort, buf_curs_move), unless a scan did *)
(* not tell the window (fs_flush_stream) or a filter was typed too early.  *)
THEOREM LinesLiveCorrect == Spec => []LinesLive
<1>1. IInv => LinesLive
  <2> SUFFICES ASSUME IInv, NEW w \in Opened \ ({Dt} \cup quiet), fault[1] = "none"
               PROVE  /\ ToSet(m[w].lines) \subseteq ToSet(tbl[m[w].key])
                      /\ ~m[w].blocking /\ m[w].lines # <<>> /\ ~Astray(m[w])
                         => m[w].cur = Line(S, w, Index(S, w))
    BY DEF LinesLive
  <2>1. /\ m[w] \in ModelType /\ m[w].key \in Keys /\ TblType(tbl)
        /\ m[w].blocking => m[w].lines = <<>>
        /\ ~m[w].blocking =>
             /\ InSync(m[w], tbl)
             /\ OnLine(m[w]) \/ Astray(m[w]) \/ m[w].lines = <<>>
             /\ OnLine(m[w]) => m[w].cur = m[w].lines[m[w].top + m[w].lnum + 1]
    BY WindowFacts
  <2>2. ToSet(m[w].lines) \subseteq ToSet(tbl[m[w].key])
    <3>1. CASE m[w].blocking
      BY <2>1, <3>1 DEF ToSet
    <3>2. CASE ~m[w].blocking
      <4>1. ToSet(m[w].lines) = ToSet(Matching(tbl[m[w].key], m[w].filter))
        BY <2>1, <3>2 DEF InSync
      <4>2. ToSet(Matching(tbl[m[w].key], m[w].filter)) \subseteq ToSet(tbl[m[w].key])
        BY <2>1, MatchFacts
      <4>. QED
        BY <4>1, <4>2
    <3>. QED
      BY <3>1, <3>2
  <2>3. ASSUME ~m[w].blocking, OnLine(m[w]) PROVE m[w].cur = Line(S, w, Index(S, w))
    <3>1. S.m = m /\ m[w].top \in Int /\ m[w].lnum \in Int /\ Len(m[w].lines) \in Nat
      BY <2>1, Fields, ModelFacts
    <3>2. Index(S, w) \in 0..(Count(S, w) - 1)
      BY <2>3, <3>1 DEF OnLine, Index, Count
    <3>. QED
      BY <2>1, <2>3, <3>1, <3>2 DEF Line, Index
  <2>. QED
    BY <2>1, <2>2, <2>3
<1>. QED
  BY <1>1, InvariantCorrect, PTL

(* A window that waits for nothing lists what its filter leaves of its     *)
(* directory, sorted, with the cursor on a line (model_sort, refind_line,  *)
(* buf_mv, buf_set_size_ofs), whatever the entry in fs.c does meanwhile.   *)
THEOREM ListedCorrect == Spec => []Listed
<1>1. IInv => Listed
  BY WindowFacts DEF Listed, InSync
<1>. QED
  BY <1>1, InvariantCorrect, PTL

(* A pointer that is not good is used in no other way than those of Known: *)
(* nothing else in model.c, filter.c, select.c or buffer.c reads a record  *)
(* that was freed, or a line that is not there.                            *)
THEOREM FaultsCorrect == Spec => []FaultsAreKnown
<1>1. IInv => FaultsAreKnown
  BY DEF IInv, Safe, FaultsAreKnown
<1>. QED
  BY <1>1, InvariantCorrect, PTL
=============================================================================

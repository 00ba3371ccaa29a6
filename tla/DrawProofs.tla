----------------------------- MODULE DrawProofs -----------------------------
(* The requests of Draw and their counts match, for any number of buffers, *)
(* handlers and signals.                                                   *)
EXTENDS Draw, FiniteSetTheorems, SequenceTheorems, TLAPS

-----------------------------------------------------------------------------
(* Sequences as queues.                                                    *)
LEMMA AppendedQueue ==
  ASSUME NEW T, NEW q \in Seq(T), NEW x \in T
  PROVE  /\ Append(q, x) \in Seq(T) /\ Append(q, x) # <<>>
         /\ ToSet(Append(q, x)) = ToSet(q) \cup {x}
         /\ Head(Append(q, x)) = IF q = <<>> THEN x ELSE Head(q)
         /\ DOMAIN Append(q, x) = DOMAIN q \cup {Len(q) + 1}
         /\ Append(q, x)[Len(q) + 1] = x
         /\ \A i \in DOMAIN q : i \in Nat /\ i < Len(q) + 1 /\ Append(q, x)[i] = q[i] /\ q[i] \in ToSet(q)
         /\ IsInjective(q) /\ x \notin ToSet(q) => IsInjective(Append(q, x))
<1>1. Len(q) \in Nat /\ DOMAIN q = 1..Len(q)
  BY LenProperties
<1>2. /\ Append(q, x) \in Seq(T) /\ Len(Append(q, x)) = Len(q) + 1
      /\ \A i \in 1..Len(q) : Append(q, x)[i] = q[i]
      /\ Append(q, x)[Len(q) + 1] = x
  BY AppendProperties
<1>3. DOMAIN Append(q, x) = 1..Len(q)+1
  BY <1>2, LenProperties
<1>4. DOMAIN Append(q, x) = DOMAIN q \cup {Len(q) + 1}
  BY <1>1, <1>3
<1>5. \A i \in DOMAIN q : i \in Nat /\ i < Len(q) + 1 /\ Append(q, x)[i] = q[i] /\ q[i] \in ToSet(q)
  BY <1>1, <1>2 DEF ToSet
<1>6. ToSet(Append(q, x)) = ToSet(q) \cup {x}
  BY <1>2, <1>4, <1>5 DEF ToSet
<1>7. IsInjective(q) /\ x \notin ToSet(q) => IsInjective(Append(q, x))
  BY <1>2, <1>4, <1>5 DEF IsInjective
<1>8. Append(q, x) # <<>>
  BY <1>1, <1>2
<1>9. Head(Append(q, x)) = Append(q, x)[1]
  BY <1>2, <1>8, HeadTailProperties
<1>10. Head(Append(q, x)) = IF q = <<>> THEN x ELSE Head(q)
  <2>1. CASE q = <<>>
    BY <1>2, <1>9, <2>1, EmptySeq
  <2>2. CASE q # <<>>
    <3>1. Head(q) = q[1] /\ 1 \in 1..Len(q)
      BY <1>1, <2>2, HeadTailProperties, EmptySeq
    <3>. QED
      BY <1>2, <1>9, <2>2, <3>1
  <2>. QED
    BY <2>1, <2>2
<1>. QED
  BY <1>2, <1>4, <1>5, <1>6, <1>7, <1>8, <1>10

LEMMA PoppedQueue ==
  ASSUME NEW T, NEW q \in Seq(T), q # <<>>
  PROVE  /\ Tail(q) \in Seq(T) /\ Head(q) \in T /\ Head(q) = q[1] /\ 1 \in DOMAIN q
         /\ ToSet(q) = ToSet(Tail(q)) \cup {Head(q)}
         /\ \A i \in DOMAIN Tail(q) : i \in Nat /\ i + 1 \in DOMAIN q /\ i + 1 # 1
                                      /\ Tail(q)[i] = q[i + 1] /\ Tail(q)[i] \in ToSet(q)
         /\ IsInjective(q) => IsInjective(Tail(q)) /\ Head(q) \notin ToSet(Tail(q))
<1>1. /\ Len(q) \in Nat \ {0} /\ DOMAIN q = 1..Len(q)
      /\ Tail(q) \in Seq(T) /\ Len(Tail(q)) = Len(q) - 1
      /\ Head(q) \in T /\ Head(q) = q[1]
      /\ \A i \in 1..Len(Tail(q)) : Tail(q)[i] = q[i+1]
  BY HeadTailProperties, LenProperties, EmptySeq
<1>2. DOMAIN Tail(q) = 1..Len(q)-1
  BY <1>1, LenProperties
<1>3. \A i \in DOMAIN Tail(q) : i \in Nat /\ i + 1 \in DOMAIN q /\ i + 1 # 1
                                /\ Tail(q)[i] = q[i + 1] /\ Tail(q)[i] \in ToSet(q)
  BY <1>1, <1>2 DEF ToSet
<1>4. \A i \in DOMAIN q : i = 1 \/ (i - 1 \in DOMAIN Tail(q) /\ Tail(q)[i - 1] = q[i])
  BY <1>1, <1>2
<1>5. ToSet(q) = ToSet(Tail(q)) \cup {Head(q)}
  <2>1. \A x \in ToSet(q) : x \in ToSet(Tail(q)) \/ x = q[1]
    BY <1>4 DEF ToSet
  <2>2. ToSet(Tail(q)) \subseteq ToSet(q)
    BY <1>3 DEF ToSet
  <2>3. q[1] \in ToSet(q)
    BY <1>1 DEF ToSet
  <2>. QED
    BY <1>1, <2>1, <2>2, <2>3
<1>6. IsInjective(q) => IsInjective(Tail(q)) /\ Head(q) \notin ToSet(Tail(q))
  <2>1. SUFFICES ASSUME IsInjective(q) PROVE IsInjective(Tail(q)) /\ Head(q) \notin ToSet(Tail(q))
    OBVIOUS
  <2>2. ASSUME NEW i \in DOMAIN Tail(q), NEW j \in DOMAIN Tail(q), Tail(q)[i] = Tail(q)[j]
        PROVE  i = j
    <3>1. q[i + 1] = q[j + 1]
      BY <1>3, <2>2
    <3>2. i + 1 = j + 1
      BY <1>3, <2>1, <3>1 DEF IsInjective
    <3>. QED
      BY <1>3, <3>2
  <2>3. \A i \in DOMAIN Tail(q) : Tail(q)[i] # q[1]
    BY <1>1, <1>3, <2>1 DEF IsInjective
  <2>. QED
    BY <1>1, <2>2, <2>3 DEF IsInjective, ToSet
<1>. QED
  BY <1>1, <1>3, <1>5, <1>6

-----------------------------------------------------------------------------
(* What handlers do.                                                       *)
Made(s) == {r \in Reqs : << "put", r >> \in ToSet(s)}
Shape(s) == s \in Seq(Steps) /\ Ordered(s)
Plain(s) == s \in Seq(Steps) /\ \A i \in DOMAIN s : s[i][1] \notin {"put", "count", "timer"}

LEMMA StepKinds ==
  /\ \A r \in Reqs : r[1] \in {"buf", "ov"} /\ r \in Steps
  /\ \A x \in Steps : /\ x[1] \in {"buf", "ov", "start", "timer", "count", "put"}
                      /\ x[1] \in {"buf", "ov"} => x \in Reqs
                      /\ x[1] \in {"count", "put"} => x = << x[1], x[2] >> /\ x[2] \in Reqs
  /\ \A r \in Reqs \cup {<<>>} : << "start", r >> \in Steps
  /\ << "timer", <<>> >> \in Steps
  /\ \A r \in Reqs : << "count", r >> \in Steps /\ << "put", r >> \in Steps
BY DEF Steps, Reqs

LEMMA PlainShape ==
  ASSUME NEW s, Plain(s)
  PROVE  Shape(s) /\ Counted(s) = 0 /\ Made(s) = {}
<1>1. Ordered(s)
  BY DEF Plain, Ordered
<1>2. Counted(s) = 0
  <2>1. s # <<>> => Head(s) = s[1] /\ 1 \in DOMAIN s
    BY PoppedQueue DEF Plain
  <2>. QED
    BY <2>1 DEF Counted, Plain
<1>3. Made(s) = {}
  BY DEF Plain, Made, ToSet
<1>. QED
  BY <1>1, <1>2, <1>3 DEF Shape, Plain

LEMMA ShapeTail ==
  ASSUME NEW s, Shape(s), s # <<>>
  PROVE  /\ Shape(Tail(s)) /\ Head(s) \in Steps
         /\ ToSet(Tail(s)) \subseteq ToSet(s) /\ Head(s) \in ToSet(s)
         /\ Counted(s) = IF Head(s)[1] = "put" THEN 1 ELSE 0
         /\ Counted(Tail(s)) = IF Head(s)[1] = "count" THEN 1 ELSE 0
         /\ Head(s)[1] # "put" => Made(Tail(s)) = Made(s)
         /\ Head(s)[1] \in {"buf", "ov", "put"} => Plain(Tail(s))
         /\ Head(s)[1] = "put" => Made(s) = {Head(s)[2]}
<1>1. /\ s \in Seq(Steps) /\ Tail(s) \in Seq(Steps) /\ Head(s) \in Steps /\ Head(s) = s[1]
      /\ 1 \in DOMAIN s
      /\ ToSet(s) = ToSet(Tail(s)) \cup {Head(s)}
      /\ \A i \in DOMAIN Tail(s) : i \in Nat /\ i + 1 \in DOMAIN s /\ i + 1 # 1 /\ Tail(s)[i] = s[i + 1]
  BY PoppedQueue DEF Shape
<1>2. /\ Len(s) \in Nat \ {0} /\ Len(Tail(s)) = Len(s) - 1 /\ DOMAIN s = 1..Len(s)
      /\ DOMAIN Tail(s) = 1..Len(s)-1
  BY <1>1, HeadTailProperties, LenProperties, EmptySeq
<1>3. \A i \in DOMAIN Tail(s) :
        /\ Tail(s)[i][1] # "timer"
        /\ Tail(s)[i][1] = "count" => /\ i < Len(Tail(s)) /\ Tail(s)[i + 1] = << "put", Tail(s)[i][2] >>
                                      /\ i = 1 /\ s[1][1] \in {"start", "timer"}
        /\ Tail(s)[i][1] = "put" => i \in {1, 2} /\ s[i] = << "count", Tail(s)[i][2] >>
  BY <1>1, <1>2 DEF Shape, Ordered
<1>4. Ordered(Tail(s))
  <2>1. \A i \in DOMAIN Tail(s) : i = 2 => Tail(s)[i - 1] = s[i]
    BY <1>1, <1>2
  <2>. QED
    BY <1>3, <2>1 DEF Ordered
<1>5. Head(s)[1] \in {"buf", "ov", "put"} => Plain(Tail(s))
  <2>1. ASSUME Head(s)[1] \in {"buf", "ov", "put"}, NEW i \in DOMAIN Tail(s)
        PROVE  Tail(s)[i][1] \notin {"put", "count", "timer"}
    <3>1. Tail(s)[i][1] # "count" /\ Tail(s)[i][1] # "timer"
      BY <1>1, <1>3, <2>1
    <3>2. ASSUME Tail(s)[i][1] = "put" PROVE FALSE
      <4>1. i \in {1, 2} /\ s[i][1] = "count"
        BY <1>3, <3>2
      <4>2. i = 2
        BY <1>1, <2>1, <4>1
      <4>3. 1 \in DOMAIN Tail(s) /\ Tail(s)[1] = s[2]
        BY <1>1, <1>2, <4>2
      <4>. QED
        BY <1>1, <1>3, <2>1, <4>1, <4>2, <4>3
    <3>. QED
      BY <3>1, <3>2
  <2>. QED
    BY <1>1, <2>1 DEF Plain
<1>6. Counted(s) = IF Head(s)[1] = "put" THEN 1 ELSE 0
  BY DEF Counted
<1>7. Counted(Tail(s)) = IF Head(s)[1] = "count" THEN 1 ELSE 0
  <2>1. CASE Tail(s) = <<>>
    <3>1. Head(s)[1] # "count"
      BY <1>1, <1>2, <2>1, EmptySeq DEF Shape, Ordered
    <3>. QED
      BY <2>1, <3>1 DEF Counted
  <2>2. CASE Tail(s) # <<>>
    <3>1. Head(Tail(s)) = Tail(s)[1] /\ 1 \in DOMAIN Tail(s) /\ Tail(s)[1] = s[2]
      BY <1>1, <2>2, PoppedQueue
    <3>2. Head(s)[1] = "count" => s[2][1] = "put"
      <4>1. ASSUME s[1][1] = "count" PROVE s[2] = << "put", s[1][2] >>
        <5>1. s[1 + 1] = << "put", s[1][2] >>
          BY <1>1, <4>1 DEF Shape, Ordered
        <5>. QED
          BY <5>1
      <4>. QED
        BY <1>1, <4>1
    <3>3. ASSUME Tail(s)[1][1] = "put" PROVE Head(s)[1] = "count"
      <4>1. s[1] = << "count", Tail(s)[1][2] >>
        BY <1>3, <3>1, <3>3
      <4>. QED
        BY <1>1, <4>1
    <3>. QED
      BY <2>2, <3>1, <3>2, <3>3 DEF Counted
  <2>. QED
    BY <2>1, <2>2
<1>8. Head(s)[1] # "put" => Made(Tail(s)) = Made(s)
  BY <1>1 DEF Made
<1>9. Head(s)[1] = "put" => Made(s) = {Head(s)[2]}
  <2>1. SUFFICES ASSUME Head(s)[1] = "put" PROVE Made(s) = {Head(s)[2]}
    OBVIOUS
  <2>2. Made(Tail(s)) = {}
    BY <1>5, <2>1, PlainShape
  <2>3. Head(s) = << "put", Head(s)[2] >> /\ Head(s)[2] \in Reqs
    BY <1>1, <2>1, StepKinds
  <2>4. ASSUME NEW r \in Reqs PROVE << "put", r >> \in ToSet(s) <=> r = Head(s)[2]
    <3>1. << "put", r >> \notin ToSet(Tail(s))
      BY <2>2 DEF Made
    <3>2. << "put", r >> \in ToSet(s) <=> << "put", r >> = Head(s)
      BY <1>1, <3>1
    <3>. QED
      BY <2>3, <3>2
  <2>. QED
    BY <2>3, <2>4 DEF Made
<1>. QED
  BY <1>1, <1>4, <1>5, <1>6, <1>7, <1>8, <1>9 DEF Shape

LEMMA OneRequest ==
  ASSUME NEW s, Shape(s)
  PROVE  \A i, j \in DOMAIN s : s[i][1] = "put" /\ s[j][1] = "put" => i = j
BY DEF Shape, Ordered

(* The steps a request is made in.                                         *)
LEMMA Begun ==
  ASSUME NEW t, Plain(t), NEW r \in Reqs,
         NEW s, s = << << "start", r >>, << "count", r >>, << "put", r >> >> \o t
  PROVE  /\ Shape(s) /\ Counted(s) = 0 /\ Made(s) = {r}
         /\ ToSet(s) \cap Reqs = ToSet(t) \cap Reqs
<1>. DEFINE h == << << "start", r >>, << "count", r >>, << "put", r >> >>
<1>1. /\ h \in Seq(Steps) /\ Len(h) = 3 /\ t \in Seq(Steps)
      /\ h[1] = << "start", r >> /\ h[2] = << "count", r >> /\ h[3] = << "put", r >>
  BY StepKinds DEF Plain
<1>. HIDE DEF h
<1>2. /\ s \in Seq(Steps) /\ Len(s) = 3 + Len(t) /\ Len(t) \in Nat
      /\ \A i \in 1..3 + Len(t) : s[i] = IF i <= 3 THEN h[i] ELSE t[i - 3]
  BY <1>1, ConcatProperties, LenProperties DEF h
<1>3. DOMAIN s = 1..3 + Len(t) /\ DOMAIN t = 1..Len(t)
  BY <1>1, <1>2, LenProperties
<1>4. /\ s[1] = << "start", r >> /\ s[2] = << "count", r >> /\ s[3] = << "put", r >>
      /\ {1, 2, 3} \subseteq DOMAIN s
  BY <1>1, <1>2, <1>3
<1>5. /\ \A i \in DOMAIN s : i \in {1, 2, 3} \/ (i - 3 \in DOMAIN t /\ s[i] = t[i - 3])
      /\ \A i \in DOMAIN t : i + 3 \in DOMAIN s /\ s[i + 3] = t[i]
  <2>1. ASSUME NEW i \in DOMAIN s, i \notin {1, 2, 3}
        PROVE  i - 3 \in DOMAIN t /\ s[i] = t[i - 3]
    <3>1. i \in Nat /\ 3 < i /\ i <= 3 + Len(t)
      BY <1>2, <1>3, <2>1
    <3>2. i - 3 \in DOMAIN t
      BY <1>2, <1>3, <3>1
    <3>. QED
      BY <1>2, <1>3, <3>1, <3>2
  <2>2. ASSUME NEW i \in DOMAIN t
        PROVE  i + 3 \in DOMAIN s /\ s[i + 3] = t[i]
    <3>1. i \in Nat /\ 0 < i /\ i <= Len(t)
      BY <1>2, <1>3
    <3>2. i + 3 \in 1..3 + Len(t) /\ ~(i + 3 <= 3) /\ (i + 3) - 3 = i
      BY <1>2, <3>1
    <3>. QED
      BY <1>2, <1>3, <3>2
  <2>. QED
    BY <2>1, <2>2
<1>6. \A i \in DOMAIN s : i \in {1, 2, 3} \/ s[i][1] \notin {"put", "count", "timer"}
  BY <1>5 DEF Plain
<1>7. Ordered(s)
  <2>1. ASSUME NEW i \in DOMAIN s
        PROVE  /\ s[i][1] = "timer" => i = 1
               /\ s[i][1] = "count" => i = 2
               /\ s[i][1] = "put" => i = 3
    <3>1. CASE i \notin {1, 2, 3}
      BY <1>6, <3>1
    <3>2. CASE i = 1
      <4>1. s[i][1] = "start"
        BY <1>4, <3>2
      <4>. QED
        BY <3>2, <4>1
    <3>3. CASE i = 2
      <4>1. s[i][1] = "count"
        BY <1>4, <3>3
      <4>. QED
        BY <3>3, <4>1
    <3>4. CASE i = 3
      <4>1. s[i][1] = "put"
        BY <1>4, <3>4
      <4>. QED
        BY <3>4, <4>1
    <3>. QED
      BY <3>1, <3>2, <3>3, <3>4
  <2>2. 2 < Len(s) /\ s[2 + 1] = << "put", s[2][2] >> /\ s[1][1] = "start"
        /\ s[3 - 1] = << "count", s[3][2] >>
    BY <1>2, <1>4
  <2>. QED
    BY <2>1, <2>2 DEF Ordered
<1>8. Counted(s) = 0
  <2>1. s # <<>>
    BY <1>2, EmptySeq
  <2>2. Head(s) = s[1]
    BY <1>2, <2>1, HeadTailProperties
  <2>. QED
    BY <1>4, <2>2 DEF Counted
<1>9. Made(s) = {r}
  <2>1. << "put", r >> \in ToSet(s)
    BY <1>4 DEF ToSet
  <2>2. ASSUME NEW x \in Reqs, << "put", x >> \in ToSet(s) PROVE x = r
    <3>1. PICK i \in DOMAIN s : s[i] = << "put", x >>
      BY <2>2 DEF ToSet
    <3>2. s[i][1] = "put"
      BY <3>1
    <3>3. i = 3
      BY <1>4, <1>6, <3>2
    <3>. QED
      BY <1>4, <3>1, <3>3
  <2>. QED
    BY <2>1, <2>2 DEF Made
<1>10. ToSet(s) \cap Reqs = ToSet(t) \cap Reqs
  <2>1. ASSUME NEW x \in ToSet(s) PROVE x \in ToSet(t) \/ x \in {s[1], s[2], s[3]}
    <3>1. PICK i \in DOMAIN s : x = s[i]
      BY DEF ToSet
    <3>2. i \notin {1, 2, 3} => x \in ToSet(t)
      BY <1>5, <3>1 DEF ToSet
    <3>. QED
      BY <3>1, <3>2
  <2>2. ToSet(t) \subseteq ToSet(s)
    BY <1>5 DEF ToSet
  <2>3. {s[1], s[2], s[3]} \cap Reqs = {}
    BY <1>4, StepKinds
  <2>. QED
    BY <2>1, <2>2, <2>3
<1>. QED
  BY <1>2, <1>7, <1>8, <1>9, <1>10 DEF Shape

(* The timer is started in place of the step that found the window clean.  *)
LEMMA Timed ==
  ASSUME NEW s, Shape(s), s # <<>>, Head(s)[1] = "start",
         NEW s1, s1 = << << "timer", <<>> >> >> \o Tail(s)
  PROVE  /\ Shape(s1) /\ Counted(s1) = 0 /\ Made(s1) = Made(s)
         /\ ToSet(s1) \cap Reqs \subseteq ToSet(s)
<1>. DEFINE h == << << "timer", <<>> >> >>
<1>1. /\ s \in Seq(Steps) /\ Tail(s) \in Seq(Steps) /\ Head(s) = s[1] /\ 1 \in DOMAIN s
      /\ ToSet(s) = ToSet(Tail(s)) \cup {Head(s)}
  BY PoppedQueue DEF Shape
<1>2. /\ Len(s) \in Nat \ {0} /\ Len(Tail(s)) = Len(s) - 1 /\ DOMAIN s = 1..Len(s)
      /\ \A i \in 1..Len(s)-1 : Tail(s)[i] = s[i + 1]
  BY <1>1, HeadTailProperties, LenProperties, EmptySeq
<1>3. h \in Seq(Steps) /\ Len(h) = 1 /\ h[1] = << "timer", <<>> >>
  BY StepKinds
<1>. HIDE DEF h
<1>4. /\ s1 \in Seq(Steps) /\ Len(s1) = Len(s)
      /\ \A i \in 1..Len(s) : s1[i] = IF i <= 1 THEN h[i] ELSE Tail(s)[i - 1]
  BY <1>1, <1>2, <1>3, ConcatProperties DEF h
<1>5. /\ DOMAIN s1 = DOMAIN s /\ s1[1] = << "timer", <<>> >>
      /\ \A i \in DOMAIN s : i # 1 => s1[i] = s[i]
  BY <1>2, <1>3, <1>4, LenProperties
<1>6. Ordered(s1)
  <2>1. ASSUME NEW i \in DOMAIN s, i # 1
        PROVE  /\ s1[i] = s[i] /\ s[i][1] # "timer"
               /\ s[i][1] = "count" => /\ i < Len(s1) /\ s1[i + 1] = << "put", s[i][2] >>
                                       /\ i = 2 /\ s1[1][1] \in {"start", "timer"}
               /\ s[i][1] = "put" => i \in {2, 3} /\ s1[i - 1] = << "count", s[i][2] >>
    <3>1. /\ s1[i] = s[i] /\ s[i][1] # "timer"
          /\ s[i][1] = "count" => /\ i < Len(s) /\ s[i + 1] = << "put", s[i][2] >> /\ i = 2
          /\ s[i][1] = "put" => i \in {2, 3} /\ s[i - 1] = << "count", s[i][2] >>
      BY <1>5, <2>1 DEF Shape, Ordered
    <3>2. s1[1][1] = "timer"
      BY <1>5
    <3>3. i \in 1..Len(s)
      BY <1>2
    <3>4. ASSUME s[i][1] = "count" PROVE s1[i + 1] = << "put", s[i][2] >>
      <4>1. i + 1 \in DOMAIN s /\ i + 1 # 1
        BY <1>2, <3>1, <3>4
      <4>. QED
        BY <1>5, <3>1, <3>4, <4>1
    <3>5. ASSUME s[i][1] = "put" PROVE s1[i - 1] = << "count", s[i][2] >>
      <4>1. s[i - 1] = << "count", s[i][2] >> /\ i \in {2, 3}
        BY <3>1, <3>5
      <4>2. i - 1 # 1
        <5>1. i - 1 = 1 => s[i - 1] = s[1]
          OBVIOUS
        <5>2. s[1][1] = "start" /\ s[i - 1][1] = "count"
          BY <1>1, <4>1
        <5>. QED
          BY <5>1, <5>2
      <4>3. i - 1 \in DOMAIN s
        BY <1>2, <3>3, <4>1
      <4>. QED
        BY <1>5, <4>1, <4>2, <4>3
    <3>. QED
      BY <1>4, <3>1, <3>2, <3>4, <3>5
  <2>2. s1[1][1] = "timer"
    BY <1>5
  <2>3. ASSUME NEW i \in DOMAIN s1
        PROVE  /\ s1[i][1] = "timer" => i = 1
               /\ s1[i][1] = "count" =>
                    /\ i < Len(s1) /\ s1[i + 1] = << "put", s1[i][2] >>
                    /\ i = 1 \/ (i = 2 /\ s1[1][1] \in {"start", "timer"})
               /\ s1[i][1] = "put" =>
                    i = 1 \/ (i \in {2, 3} /\ s1[i - 1] = << "count", s1[i][2] >>)
    <3>1. CASE i = 1
      BY <2>2, <3>1
    <3>2. CASE i # 1
      <4>1. i \in DOMAIN s
        BY <1>5
      <4>2. /\ s1[i] = s[i] /\ s[i][1] # "timer"
            /\ s[i][1] = "count" => /\ i < Len(s1) /\ s1[i + 1] = << "put", s[i][2] >>
                                    /\ i = 2 /\ s1[1][1] \in {"start", "timer"}
            /\ s[i][1] = "put" => i \in {2, 3} /\ s1[i - 1] = << "count", s[i][2] >>
        BY <2>1, <3>2, <4>1
      <4>. QED
        BY <4>2
    <3>. QED
      BY <3>1, <3>2
  <2>. QED
    BY <2>3 DEF Ordered
<1>7. Counted(s1) = 0 /\ Head(s1) = s1[1] /\ s1 # <<>>
  <2>1. s1 # <<>>
    BY <1>2, <1>4, EmptySeq
  <2>2. Head(s1) = s1[1]
    BY <1>4, <2>1, HeadTailProperties
  <2>. QED
    BY <1>5, <2>1, <2>2 DEF Counted
<1>8. ToSet(s1) \ {<< "timer", <<>> >>} = ToSet(Tail(s)) \ {<< "timer", <<>> >>}
  <2>1. \A i \in DOMAIN s1 : i # 1 => s1[i] \in ToSet(Tail(s))
    <3>1. ASSUME NEW i \in DOMAIN s1, i # 1 PROVE s1[i] \in ToSet(Tail(s))
      <4>1. i - 1 \in 1..Len(s)-1 /\ s[(i - 1) + 1] = s[i]
        BY <1>2, <1>5, <3>1
      <4>2. i - 1 \in DOMAIN Tail(s)
        BY <1>1, <1>2, <4>1, LenProperties
      <4>3. Tail(s)[i - 1] = s1[i]
        BY <1>2, <1>5, <3>1, <4>1
      <4>. QED
        BY <4>2, <4>3 DEF ToSet
    <3>. QED
      BY <3>1
  <2>2. ToSet(Tail(s)) \subseteq ToSet(s1)
    <3>1. ASSUME NEW i \in DOMAIN Tail(s) PROVE Tail(s)[i] \in ToSet(s1)
      <4>1. i \in 1..Len(s)-1
        BY <1>1, <1>2, LenProperties
      <4>2. i + 1 \in DOMAIN s /\ i + 1 # 1
        BY <1>2, <4>1
      <4>3. s1[i + 1] = Tail(s)[i]
        BY <1>2, <1>5, <4>1, <4>2
      <4>. QED
        BY <1>5, <4>2, <4>3 DEF ToSet
    <3>. QED
      BY <3>1 DEF ToSet
  <2>. QED
    BY <1>5, <2>1, <2>2 DEF ToSet
<1>9. Made(s1) = Made(s)
  <2>1. \A r \in Reqs : << "put", r >> # << "timer", <<>> >> /\ << "put", r >> # Head(s)
    OBVIOUS
  <2>. QED
    BY <1>1, <1>8, <2>1 DEF Made
<1>10. ToSet(s1) \cap Reqs \subseteq ToSet(s)
  BY <1>1, <1>8, StepKinds
<1>. QED
  BY <1>4, <1>6, <1>7, <1>9, <1>10 DEF Shape

-----------------------------------------------------------------------------
(* The invariant in parts: the objects, the requests for them, and the     *)
(* handlers.                                                               *)
BufType == [st : {"free", "live", "del"}, queued : BOOLEAN, ov : Ovs \cup {NoOv}]
OvType  == [st : {"free", "live", "del"}, queued : BOOLEAN]

Objs(B, O) ==
  /\ B \in [Bufs -> BufType] /\ O \in [Ovs -> OvType]
  /\ \A b \in Bufs : B[b].st # "free" => B[b].ov \in Ovs /\ O[B[b].ov].st = "live"
  /\ \A b, c \in Bufs : B[b].st # "free" /\ B[c].st # "free" /\ B[b].ov = B[c].ov => b = c

Asked(B, O, r) == IF r[1] = "buf" THEN B[r[2]].queued ELSE O[r[2]].queued
LiveAt(B, O, r) == IF r[1] = "buf" THEN B[r[2]].st = "live" ELSE O[r[2]].st = "live"

Drawable(B, O, d, M) ==
  /\ IsInjective(d)
  /\ \A r \in Reqs : /\ Asked(B, O, r) <=> r \in ToSet(d) \/ r \in M
                     /\ ~(r \in ToSet(d) /\ r \in M)

Flagged(B, O) ==
  /\ \A b \in Bufs : /\ B[b].st = "del" => B[b].queued
                     /\ B[b].st = "free" => ~B[b].queued
  /\ \A o \in Ovs : /\ O[o].st = "del" => O[o].queued
                    /\ O[o].st = "free" => ~O[o].queued

Untouched(B, O, d, t, v) ==
  /\ v = <<>> /\ Drawable(B, O, d, Made(t)) /\ Flagged(B, O)
  /\ \A r \in ToSet(t) \cap Reqs : LiveAt(B, O, r)

Core(B, O, d, n, t, v, w, k) ==
  /\ Objs(B, O) /\ d \in Seq(Reqs) /\ Shape(t) /\ Shape(v) /\ (w \/ v = <<>>)
  /\ n = Len(d) + Counted(t) + Counted(v)
  /\ k \/ Untouched(B, O, d, t, v)

Typed ==
  /\ win \in [refs : Nat, dirty : BOOLEAN, timer : BOOLEAN, shut : BOOLEAN]
  /\ {waiting, struck} \subseteq BOOLEAN
  /\ used \in [handlers : 0..MaxHandlers, signals : 0..MaxSignals]

LEMMA MadeEmpty == Shape(<<>>) /\ Counted(<<>>) = 0 /\ Made(<<>>) = {} /\ ToSet(<<>>) = {}
<1>1. <<>> \in Seq(Steps) /\ DOMAIN <<>> = {}
  BY EmptySeq
<1>2. Plain(<<>>) /\ ToSet(<<>>) = {}
  BY <1>1 DEF Plain, ToSet
<1>. QED
  BY <1>2, PlainShape

LEMMA UntouchedIs ==
  ASSUME NEW B, NEW O, NEW d, NEW t, NEW v, Shape(t)
  PROVE  Untouched(B, O, d, t, v) <=>
           /\ v = <<>>
           /\ IsInjective(d)
           /\ \A i, j \in DOMAIN t : t[i][1] = "put" /\ t[j][1] = "put" => i = j
           /\ \A r \in Reqs : LET making == << "put", r >> \in ToSet(t) \cup ToSet(v) IN
                /\ Asked(B, O, r) <=> r \in ToSet(d) \/ making
                /\ ~(r \in ToSet(d) /\ making)
           /\ \A b \in Bufs : B[b].st = "del" => B[b].queued
           /\ \A o \in Ovs : O[o].st = "del" => O[o].queued
           /\ \A r \in ToSet(t) \cap Reqs : LiveAt(B, O, r)
           /\ \A b \in Bufs : B[b].st = "free" => ~B[b].queued
           /\ \A o \in Ovs : O[o].st = "free" => ~O[o].queued
<1>1. v = <<>> => \A r \in Reqs : r \in Made(t) <=> << "put", r >> \in ToSet(t) \cup ToSet(v)
  BY MadeEmpty DEF Made
<1>2. \A i, j \in DOMAIN t : t[i][1] = "put" /\ t[j][1] = "put" => i = j
  BY OneRequest
<1>3. Flagged(B, O) <=> /\ \A b \in Bufs : B[b].st = "del" => B[b].queued
                        /\ \A o \in Ovs : O[o].st = "del" => O[o].queued
                        /\ \A b \in Bufs : B[b].st = "free" => ~B[b].queued
                        /\ \A o \in Ovs : O[o].st = "free" => ~O[o].queued
  BY DEF Flagged
<1>4. ASSUME v = <<>>
      PROVE  Drawable(B, O, d, Made(t)) <=>
               /\ IsInjective(d)
               /\ \A r \in Reqs : LET making == << "put", r >> \in ToSet(t) \cup ToSet(v) IN
                    /\ Asked(B, O, r) <=> r \in ToSet(d) \/ making
                    /\ ~(r \in ToSet(d) /\ making)
  BY <1>1, <1>4, Zenon DEF Drawable
<1>. QED
  BY <1>2, <1>3, <1>4, Zenon DEF Untouched

LEMMA CoreIs == IInv <=> Typed /\ Core(buf, ov, drawq, win.refs, todo, saved, waiting, struck)
<1>1. /\ TypeOK /\ OvsMatch /\ Ordered(todo) /\ Ordered(saved)
      <=> /\ Typed /\ Objs(buf, ov) /\ drawq \in Seq(Reqs) /\ Shape(todo) /\ Shape(saved)
  BY DEF TypeOK, OvsMatch, Typed, Objs, Shape, BufType, OvType
<1>2. ASSUME Shape(todo)
      PROVE  /\ ~struck =>
                  /\ IsInjective(drawq)
                  /\ \A i, j \in DOMAIN todo : todo[i][1] = "put" /\ todo[j][1] = "put" => i = j
                  /\ \A r \in Reqs : /\ Queued(r) <=> r \in ToSet(drawq) \/ Making(r)
                                     /\ ~(r \in ToSet(drawq) /\ Making(r))
                  /\ \A b \in Bufs : buf[b].st = "del" => buf[b].queued
                  /\ \A o \in Ovs : ov[o].st = "del" => ov[o].queued
             /\ HandlersMatch
             <=> struck \/ Untouched(buf, ov, drawq, todo, saved)
  BY <1>2, UntouchedIs DEF HandlersMatch, Queued, Making, Asked, IsLive, LiveAt
<1>. QED
  BY <1>1, <1>2 DEF IInv, RequestsMatch, Core

LEMMA CoreNext ==
  IInv' <=> Typed' /\ Core(buf', ov', drawq', win'.refs, todo', saved', waiting', struck')
<1>1. /\ TypeOK' /\ OvsMatch' /\ Ordered(todo') /\ Ordered(saved')
      <=> /\ Typed' /\ Objs(buf', ov') /\ drawq' \in Seq(Reqs) /\ Shape(todo') /\ Shape(saved')
  BY DEF TypeOK, OvsMatch, Typed, Objs, Shape, BufType, OvType
<1>2. ASSUME Shape(todo')
      PROVE  /\ ~struck' =>
                  /\ IsInjective(drawq')
                  /\ \A i, j \in DOMAIN todo' : todo'[i][1] = "put" /\ todo'[j][1] = "put" => i = j
                  /\ \A r \in Reqs : /\ (Queued(r)') <=> r \in ToSet(drawq') \/ (Making(r)')
                                     /\ ~(r \in ToSet(drawq') /\ (Making(r)'))
                  /\ \A b \in Bufs : buf'[b].st = "del" => buf'[b].queued
                  /\ \A o \in Ovs : ov'[o].st = "del" => ov'[o].queued
             /\ HandlersMatch'
             <=> struck' \/ Untouched(buf', ov', drawq', todo', saved')
  BY <1>2, UntouchedIs DEF HandlersMatch, Queued, Making, Asked, IsLive, LiveAt
<1>3. /\ Counted(todo)' = Counted(todo') /\ Counted(saved)' = Counted(saved')
  BY DEF Counted
<1>4. /\ Ordered(todo)' <=> Ordered(todo')
  BY DEF Ordered
<1>5. /\ Ordered(saved)' <=> Ordered(saved')
  BY DEF Ordered
<1>. QED
  BY <1>1, <1>2, <1>3, <1>4, <1>5 DEF IInv, RequestsMatch, Core

-----------------------------------------------------------------------------
(* One lemma for each action.                                              *)
LEMMA Facts ==
  ASSUME IInv
  PROVE  /\ Typed /\ Objs(buf, ov) /\ drawq \in Seq(Reqs) /\ Shape(todo) /\ Shape(saved)
         /\ (waiting \/ saved = <<>>)
         /\ win.refs = Len(drawq) + Counted(todo) + Counted(saved)
         /\ struck \/ Untouched(buf, ov, drawq, todo, saved)
BY CoreIs DEF Core

(* A handler that changes no object, and draws live ones.                  *)
LEMMA Asks ==
  ASSUME IInv, NEW s \in Seq(Reqs), Handler(s), UNCHANGED <<buf, ov>>,
         \A r \in ToSet(s) : LiveAt(buf, ov, r)
  PROVE  IInv'
<1>1. /\ Typed /\ Objs(buf, ov) /\ drawq \in Seq(Reqs) /\ Shape(saved) /\ (waiting \/ saved = <<>>)
      /\ win.refs = Len(drawq) + Counted(todo) + Counted(saved)
      /\ struck \/ Untouched(buf, ov, drawq, todo, saved)
  BY Facts
<1>2. /\ todo = <<>> /\ todo' = s /\ UNCHANGED <<drawq, win, saved, waiting, struck>>
      /\ used.handlers < MaxHandlers /\ used' = [used EXCEPT !.handlers = @ + 1]
  BY DEF Handler
<1>3. Typed'
  <2>1. used.handlers \in 0..MaxHandlers /\ MaxHandlers \in Nat
    BY <1>1, DrawAssumption DEF Typed
  <2>2. used.handlers + 1 \in 0..MaxHandlers
    BY <1>2, <2>1
  <2>. QED
    BY <1>1, <1>2, <2>2 DEF Typed
<1>4. Shape(s) /\ Counted(s) = 0 /\ Made(s) = {}
  <2>1. Plain(s)
    <3>1. \A i \in DOMAIN s : s[i] \in Reqs
      BY LenProperties, ElementOfSeq
    <3>2. \A i \in DOMAIN s : s[i][1] \in {"buf", "ov"} /\ s[i] \in Steps
      BY <3>1, StepKinds
    <3>3. s \in Seq(Steps)
      BY <3>2, LenProperties, SeqDef
    <3>. QED
      BY <3>2, <3>3 DEF Plain
  <2>. QED
    BY <2>1, PlainShape
<1>5. struck \/ Untouched(buf, ov, drawq, s, saved)
  BY <1>1, <1>2, <1>4, MadeEmpty DEF Untouched
<1>6. Core(buf, ov, drawq, win.refs, s, saved, waiting, struck)
  BY <1>1, <1>2, <1>4, <1>5, MadeEmpty DEF Core
<1>. QED
  BY <1>2, <1>3, <1>6, CoreNext

LEMMA RefreshSafe ==
  ASSUME IInv, NEW b \in Bufs, BufRefresh(b) \/ BufSetPlugin(b) \/ BufToggleFocus(b)
  PROVE  IInv'
<1>1. b \in Live /\ UNCHANGED <<buf, ov>>
  BY DEF BufRefresh, BufSetPlugin, BufToggleFocus
<1>2. PICK x : x = BufReq(b)
  OBVIOUS
<1>3. PICK y : y = OvReq(b)
  OBVIOUS
<1>4. /\ x \in Reqs /\ LiveAt(buf, ov, x) /\ y \in Reqs /\ LiveAt(buf, ov, y)
  <2>1. Objs(buf, ov)
    BY Facts
  <2>2. buf[b].st = "live" /\ buf[b].ov \in Ovs /\ ov[buf[b].ov].st = "live"
    BY <1>1, <2>1 DEF Live, Objs
  <2>. QED
    BY <1>2, <1>3, <2>2 DEF BufReq, OvReq, Reqs, LiveAt
<1>5. PICK s \in {<< x >>, << y >>, << y, x >>} : Handler(s)
  BY <1>2, <1>3 DEF BufRefresh, BufSetPlugin, BufToggleFocus
<1>6. s \in Seq(Reqs) /\ ToSet(s) \subseteq {x, y}
  <2>1. CASE s = << x >>
    BY <1>4, <2>1 DEF ToSet
  <2>2. CASE s = << y >>
    BY <1>4, <2>2 DEF ToSet
  <2>3. CASE s = << y, x >>
    BY <1>4, <2>3 DEF ToSet
  <2>. QED
    BY <1>5, <2>1, <2>2, <2>3
<1>. QED
  BY <1>1, <1>4, <1>5, <1>6, Asks

(* A handler that changes objects, between which nothing is to be drawn.   *)
Changed(B, O, B1, O1) ==
  /\ Objs(B1, O1)
  /\ Flagged(B, O) => Flagged(B1, O1) /\ \A r \in Reqs : Asked(B1, O1, r) <=> Asked(B, O, r)

LEMMA Changes ==
  ASSUME IInv, Handler(<<>>), Changed(buf, ov, buf', ov')
  PROVE  IInv'
<1>1. /\ Typed /\ Objs(buf, ov) /\ drawq \in Seq(Reqs) /\ Shape(saved) /\ (waiting \/ saved = <<>>)
      /\ win.refs = Len(drawq) + Counted(todo) + Counted(saved)
      /\ struck \/ Untouched(buf, ov, drawq, todo, saved)
  BY Facts
<1>2. /\ todo = <<>> /\ todo' = <<>> /\ UNCHANGED <<drawq, win, saved, waiting, struck>>
      /\ used.handlers < MaxHandlers /\ used' = [used EXCEPT !.handlers = @ + 1]
  BY DEF Handler
<1>3. Typed'
  <2>1. used.handlers \in 0..MaxHandlers /\ MaxHandlers \in Nat
    BY <1>1, DrawAssumption DEF Typed
  <2>2. used.handlers + 1 \in 0..MaxHandlers
    BY <1>2, <2>1
  <2>. QED
    BY <1>1, <1>2, <2>2 DEF Typed
<1>4. struck \/ Untouched(buf', ov', drawq, <<>>, saved)
  BY <1>1, <1>2, MadeEmpty DEF Untouched, Drawable, Changed
<1>5. Core(buf', ov', drawq, win.refs, <<>>, saved, waiting, struck)
  BY <1>1, <1>2, <1>4, MadeEmpty DEF Core, Changed
<1>. QED
  BY <1>2, <1>3, <1>5, CoreNext

LEMMA BufNewSafe ==
  ASSUME IInv, NEW b \in Bufs, NEW o \in Ovs, BufNew(b, o)
  PROVE  IInv'
<1>1. /\ Handler(<<>>) /\ Objs(buf, ov) /\ buf[b].st = "free" /\ ov[o].st = "free"
      /\ buf' = [buf EXCEPT ![b] = [st |-> "live", queued |-> FALSE, ov |-> o]]
      /\ ov' = [ov EXCEPT ![o] = [st |-> "live", queued |-> FALSE]]
  BY Facts DEF BufNew
<1>2. /\ buf' \in [Bufs -> BufType] /\ ov' \in [Ovs -> OvType]
      /\ buf'[b] = [st |-> "live", queued |-> FALSE, ov |-> o]
      /\ ov'[o] = [st |-> "live", queued |-> FALSE]
      /\ \A c \in Bufs : c # b => buf'[c] = buf[c]
      /\ \A p \in Ovs : p # o => ov'[p] = ov[p]
  BY <1>1 DEF Objs, BufType, OvType
<1>3. Objs(buf', ov')
  <2>1. \A c \in Bufs : c # b /\ buf[c].st # "free" => buf[c].ov \in Ovs \ {o}
    BY <1>1 DEF Objs
  <2>2. \A c \in Bufs : buf'[c].st # "free" => buf'[c].ov \in Ovs /\ ov'[buf'[c].ov].st = "live"
    BY <1>1, <1>2, <2>1 DEF Objs
  <2>3. ASSUME NEW c \in Bufs, NEW e \in Bufs, buf'[c].st # "free", buf'[e].st # "free",
               buf'[c].ov = buf'[e].ov
        PROVE  c = e
    BY <1>1, <1>2, <2>1, <2>3 DEF Objs
  <2>. QED
    BY <1>2, <2>2, <2>3 DEF Objs
<1>4. Flagged(buf, ov) => Flagged(buf', ov')
  BY <1>1, <1>2 DEF Flagged
<1>5. ASSUME Flagged(buf, ov), NEW r \in Reqs PROVE Asked(buf', ov', r) <=> Asked(buf, ov, r)
  <2>1. ~buf[b].queued /\ ~ov[o].queued
    BY <1>1, <1>5 DEF Flagged
  <2>. QED
    BY <1>2, <2>1 DEF Asked, Reqs
<1>. QED
  BY <1>1, <1>3, <1>4, <1>5, Changes DEF Changed

(* buf_expire, of a buffer that is there.                                  *)
Gone(B, O, b, B1, O1) ==
  /\ Objs(B1, O1) /\ B1[b] = FreeBuf /\ \A c \in Bufs : c # b => B1[c] = B[c]
  /\ \A o \in Ovs : O1[o].queued <=> O[o].queued
  /\ Flagged(B, O) => Flagged(B1, O1)

LEMMA Expired ==
  ASSUME NEW B, NEW O, Objs(B, O), NEW b \in Bufs, B[b].st # "free",
         NEW B1, B1 = [B EXCEPT ![b] = FreeBuf], NEW O1, O1 = OverlayDelete(O, B[b].ov)
  PROVE  Gone(B, O, b, B1, O1)
<1>1. PICK o \in Ovs : o = B[b].ov /\ O[o].st = "live"
  BY DEF Objs
<1>2. /\ B \in [Bufs -> BufType] /\ O \in [Ovs -> OvType]
  BY DEF Objs
<1>3. FreeBuf \in BufType /\ FreeOv \in OvType /\ FreeBuf.st = "free" /\ FreeBuf.queued = FALSE
      /\ FreeOv.st = "free" /\ FreeOv.queued = FALSE
  BY DEF FreeBuf, FreeOv, BufType, OvType
<1>4. B1 \in [Bufs -> BufType] /\ B1[b] = FreeBuf /\ \A c \in Bufs : c # b => B1[c] = B[c]
  BY <1>2, <1>3
<1>5. /\ O1 \in [Ovs -> OvType] /\ \A p \in Ovs : p # o => O1[p] = O[p]
      /\ O1[o].st = IF O[o].queued THEN "del" ELSE "free"
      /\ O1[o].queued = O[o].queued
  <2>1. O1 = IF O[o].queued THEN [O EXCEPT ![o].st = "del"] ELSE [O EXCEPT ![o] = FreeOv]
    BY <1>1 DEF OverlayDelete
  <2>2. O[o] \in OvType
    BY <1>2
  <2>3. CASE O[o].queued
    BY <1>2, <2>1, <2>2, <2>3 DEF OvType
  <2>4. CASE ~O[o].queued
    BY <1>2, <1>3, <2>1, <2>2, <2>4 DEF OvType
  <2>. QED
    BY <2>3, <2>4
<1>6. Objs(B1, O1)
  <2>1. ASSUME NEW c \in Bufs, B1[c].st # "free"
        PROVE  c # b /\ B1[c] = B[c] /\ B[c].st # "free" /\ B[c].ov \in Ovs /\ B[c].ov # o
    BY <1>1, <1>3, <1>4, <2>1 DEF Objs
  <2>2. \A c \in Bufs : B1[c].st # "free" => B1[c].ov \in Ovs /\ O1[B1[c].ov].st = "live"
    BY <1>5, <2>1 DEF Objs
  <2>3. ASSUME NEW c \in Bufs, NEW e \in Bufs, B1[c].st # "free", B1[e].st # "free", B1[c].ov = B1[e].ov
        PROVE  c = e
    BY <2>1, <2>3 DEF Objs
  <2>. QED
    BY <1>4, <1>5, <2>2, <2>3 DEF Objs
<1>7. \A p \in Ovs : O1[p].queued <=> O[p].queued
  BY <1>5
<1>8. Flagged(B, O) => Flagged(B1, O1)
  BY <1>3, <1>4, <1>5 DEF Flagged
<1>. QED
  BY <1>4, <1>6, <1>7, <1>8 DEF Gone

LEMMA BufDeleteSafe ==
  ASSUME IInv, NEW b \in Bufs, BufDelete(b)
  PROVE  IInv'
<1>1. Handler(<<>>) /\ Objs(buf, ov) /\ buf[b].st = "live" /\ buf \in [Bufs -> BufType]
  BY Facts DEF BufDelete, Live, Objs
<1>2. CASE buf[b].queued /\ buf' = [buf EXCEPT ![b].st = "del"] /\ UNCHANGED ov
  <2>1. /\ buf' \in [Bufs -> BufType]
        /\ buf'[b].st = "del" /\ buf'[b].queued /\ buf'[b].ov = buf[b].ov
        /\ \A c \in Bufs : c # b => buf'[c] = buf[c]
    BY <1>1, <1>2 DEF BufType
  <2>2. \A c \in Bufs : (buf'[c].st # "free" <=> buf[c].st # "free") /\ buf'[c].ov = buf[c].ov
    BY <1>1, <2>1
  <2>3. Objs(buf', ov')
    BY <1>1, <1>2, <2>1, <2>2 DEF Objs
  <2>4. Flagged(buf, ov) => Flagged(buf', ov')
    BY <1>2, <2>1 DEF Flagged
  <2>5. \A r \in Reqs : Asked(buf', ov', r) <=> Asked(buf, ov, r)
    BY <1>2, <2>1 DEF Asked, Reqs
  <2>. QED
    BY <1>1, <2>3, <2>4, <2>5, Changes DEF Changed
<1>3. CASE ~buf[b].queued /\ Expire(b)
  <2>1. buf' = [buf EXCEPT ![b] = FreeBuf] /\ ov' = OverlayDelete(ov, buf[b].ov)
    BY <1>3 DEF Expire
  <2>2. Gone(buf, ov, b, buf', ov')
    <3>1. buf[b].st # "free"
      BY <1>1
    <3>. QED
      BY <1>1, <2>1, <3>1, Expired
  <2>3. \A r \in Reqs : Asked(buf', ov', r) <=> Asked(buf, ov, r)
    BY <1>3, <2>2 DEF Asked, Reqs, FreeBuf, Gone
  <2>. QED
    BY <1>1, <2>2, <2>3, Changes DEF Changed, Gone
<1>. QED
  BY <1>2, <1>3 DEF BufDelete, IsQueued

-----------------------------------------------------------------------------
(* window_req_draw: the first half of buf_refresh marks the object.        *)
LEMMA Marked ==
  ASSUME NEW r \in Reqs, Objs(buf, ov), Mark(r)
  PROVE  /\ Objs(buf', ov') /\ Asked(buf', ov', r)
         /\ \A x \in Reqs : x # r => (Asked(buf', ov', x) <=> Asked(buf, ov, x))
         /\ \A x \in Reqs : LiveAt(buf', ov', x) <=> LiveAt(buf, ov, x)
         /\ Flagged(buf, ov) /\ LiveAt(buf, ov, r) => Flagged(buf', ov')
<1>1. buf \in [Bufs -> BufType] /\ ov \in [Ovs -> OvType]
  BY DEF Objs
<1>2. CASE r[1] = "buf"
  <2>1. PICK b \in Bufs : r = << "buf", b >>
    BY <1>2 DEF Reqs
  <2>2. buf' = [buf EXCEPT ![b].queued = TRUE] /\ ov' = ov
    BY <2>1 DEF Mark
  <2>3. /\ buf' \in [Bufs -> BufType]
        /\ buf'[b].st = buf[b].st /\ buf'[b].queued /\ buf'[b].ov = buf[b].ov
        /\ \A c \in Bufs : c # b => buf'[c] = buf[c]
    BY <1>1, <2>2 DEF BufType
  <2>4. \A c \in Bufs : buf'[c].st = buf[c].st /\ buf'[c].ov = buf[c].ov
    BY <2>3
  <2>5. Objs(buf', ov')
    BY <1>1, <2>2, <2>3, <2>4 DEF Objs
  <2>6. /\ Asked(buf', ov', r)
        /\ \A x \in Reqs : x # r => (Asked(buf', ov', x) <=> Asked(buf, ov, x))
    BY <2>1, <2>2, <2>3 DEF Asked, Reqs
  <2>7. \A x \in Reqs : LiveAt(buf', ov', x) <=> LiveAt(buf, ov, x)
    BY <2>2, <2>4 DEF LiveAt, Reqs
  <2>8. Flagged(buf, ov) /\ LiveAt(buf, ov, r) => Flagged(buf', ov')
    BY <2>1, <2>2, <2>3 DEF Flagged, LiveAt
  <2>. QED
    BY <2>5, <2>6, <2>7, <2>8
<1>3. CASE r[1] = "ov"
  <2>1. PICK o \in Ovs : r = << "ov", o >>
    BY <1>3 DEF Reqs
  <2>2. ov' = [ov EXCEPT ![o].queued = TRUE] /\ buf' = buf
    BY <2>1 DEF Mark
  <2>3. /\ ov' \in [Ovs -> OvType]
        /\ ov'[o].st = ov[o].st /\ ov'[o].queued
        /\ \A p \in Ovs : p # o => ov'[p] = ov[p]
    BY <1>1, <2>2 DEF OvType
  <2>4. \A p \in Ovs : ov'[p].st = ov[p].st
    BY <2>3
  <2>5. Objs(buf', ov')
    BY <1>1, <2>2, <2>3, <2>4 DEF Objs
  <2>6. /\ Asked(buf', ov', r)
        /\ \A x \in Reqs : x # r => (Asked(buf', ov', x) <=> Asked(buf, ov, x))
    BY <2>1, <2>2, <2>3 DEF Asked, Reqs
  <2>7. \A x \in Reqs : LiveAt(buf', ov', x) <=> LiveAt(buf, ov, x)
    BY <2>2, <2>4 DEF LiveAt, Reqs
  <2>8. Flagged(buf, ov) /\ LiveAt(buf, ov, r) => Flagged(buf', ov')
    BY <2>1, <2>2, <2>3 DEF Flagged, LiveAt
  <2>. QED
    BY <2>5, <2>6, <2>7, <2>8
<1>. QED
  BY <1>2, <1>3, StepKinds

(* The steps of a handler, with d, n, t what becomes of drawq, win.refs    *)
(* and todo.                                                               *)
LEMMA StepSafe ==
  ASSUME IInv, Step
  PROVE  IInv'
<1>1. /\ Typed /\ Objs(buf, ov) /\ drawq \in Seq(Reqs) /\ Shape(todo) /\ Shape(saved)
      /\ (waiting \/ saved = <<>>)
      /\ win.refs = Len(drawq) + Counted(todo) + Counted(saved)
      /\ struck \/ Untouched(buf, ov, drawq, todo, saved)
  BY Facts
<1>2. PICK s : s = Head(todo)
  OBVIOUS
<1>3. PICK t : t = Tail(todo)
  OBVIOUS
<1>4. /\ todo # <<>> /\ UNCHANGED <<saved, waiting, struck, used>>
  BY DEF Step
<1>5. /\ Shape(t) /\ s \in Steps /\ ToSet(t) \subseteq ToSet(todo) /\ s \in ToSet(todo)
      /\ Counted(todo) = IF s[1] = "put" THEN 1 ELSE 0
      /\ Counted(t) = IF s[1] = "count" THEN 1 ELSE 0
      /\ s[1] # "put" => Made(t) = Made(todo)
      /\ s[1] \in {"buf", "ov", "put"} => Plain(t)
      /\ s[1] = "put" => Made(todo) = {s[2]}
  BY <1>1, <1>2, <1>3, <1>4, ShapeTail
<1>6. Len(drawq) \in Nat /\ Counted(saved) \in {0, 1} /\ win.refs \in Nat
  BY <1>1, LenProperties DEF Counted, Typed
<1>7. CASE s[1] \in {"buf", "ov"} /\ Queued(s) /\ todo' = t /\ UNCHANGED <<buf, ov, win, drawq>>
  <2>1. Counted(t) = Counted(todo) /\ Made(t) = Made(todo)
    BY <1>5, <1>7
  <2>2. struck \/ Untouched(buf, ov, drawq, t, saved)
    BY <1>1, <1>5, <2>1 DEF Untouched
  <2>3. Core(buf, ov, drawq, win.refs, t, saved, waiting, struck)
    BY <1>1, <1>5, <2>1, <2>2 DEF Core
  <2>. QED
    BY <1>1, <1>4, <1>7, <2>3, CoreNext DEF Typed
<1>8. CASE /\ s[1] \in {"buf", "ov"} /\ ~Queued(s) /\ Mark(s)
           /\ todo' = << << "start", s >>, << "count", s >>, << "put", s >> >> \o t
           /\ UNCHANGED <<win, drawq>>
  <2>1. s \in Reqs /\ Plain(t) /\ Counted(todo) = 0
    BY <1>5, <1>8, StepKinds
  <2>2. PICK t1 : t1 = << << "start", s >>, << "count", s >>, << "put", s >> >> \o t
    OBVIOUS
  <2>3. /\ Shape(t1) /\ Counted(t1) = 0 /\ Made(t1) = {s} /\ ToSet(t1) \cap Reqs = ToSet(t) \cap Reqs
    BY <2>1, <2>2, Begun
  <2>4. /\ Objs(buf', ov') /\ Asked(buf', ov', s)
        /\ \A x \in Reqs : x # s => (Asked(buf', ov', x) <=> Asked(buf, ov, x))
        /\ \A x \in Reqs : LiveAt(buf', ov', x) <=> LiveAt(buf, ov, x)
        /\ Flagged(buf, ov) /\ LiveAt(buf, ov, s) => Flagged(buf', ov')
    BY <1>1, <1>8, <2>1, Marked
  <2>5. ASSUME Untouched(buf, ov, drawq, todo, saved)
        PROVE  Untouched(buf', ov', drawq, t1, saved)
    <3>1. Made(todo) = {} /\ ~Asked(buf, ov, s)
      <4>1. Made(t) = {} /\ Made(t) = Made(todo)
        BY <1>5, <2>1, <1>8, PlainShape
      <4>. QED
        BY <1>8, <4>1 DEF Asked, Queued
    <3>2. LiveAt(buf, ov, s) /\ Flagged(buf', ov')
      BY <1>5, <2>1, <2>4, <2>5 DEF Untouched
    <3>3. Drawable(buf', ov', drawq, Made(t1))
      BY <2>1, <2>3, <2>4, <2>5, <3>1 DEF Untouched, Drawable
    <3>4. \A r \in ToSet(t1) \cap Reqs : LiveAt(buf', ov', r)
      BY <1>5, <2>3, <2>4, <2>5 DEF Untouched
    <3>. QED
      BY <2>5, <3>2, <3>3, <3>4 DEF Untouched
  <2>6. Core(buf', ov', drawq, win.refs, t1, saved, waiting, struck)
    BY <1>1, <2>1, <2>3, <2>4, <2>5 DEF Core
  <2>. QED
    BY <1>1, <1>4, <1>8, <2>2, <2>6, CoreNext DEF Typed
<1>9. CASE /\ s[1] = "start" /\ win' = [win EXCEPT !.dirty = TRUE]
           /\ todo' = (IF win.dirty THEN <<>> ELSE << << "timer", <<>> >> >>) \o t
           /\ UNCHANGED <<buf, ov, drawq>>
  <2>1. /\ Shape(todo') /\ Counted(todo') = 0 /\ Made(todo') = Made(todo)
        /\ ToSet(todo') \cap Reqs \subseteq ToSet(todo)
    <3>1. CASE win.dirty
      <4>1. t \in Seq(Steps) /\ todo' = t
        BY <1>5, <1>9, <3>1 DEF Shape
      <4>. QED
        BY <1>5, <1>9, <4>1
    <3>2. CASE ~win.dirty
      BY <1>1, <1>2, <1>3, <1>4, <1>9, <3>2, Timed
    <3>. QED
      BY <3>1, <3>2
  <2>2. Counted(todo) = 0 /\ win'.refs = win.refs /\ Typed'
    BY <1>1, <1>4, <1>5, <1>9 DEF Typed
  <2>3. struck \/ Untouched(buf, ov, drawq, todo', saved)
    BY <1>1, <2>1 DEF Untouched
  <2>4. Core(buf, ov, drawq, win.refs, todo', saved, waiting, struck)
    BY <1>1, <2>1, <2>2, <2>3 DEF Core
  <2>. QED
    BY <1>4, <1>9, <2>2, <2>4, CoreNext
<1>10. CASE /\ s[1] = "timer" /\ win' = [win EXCEPT !.timer = TRUE]
            /\ todo' = t /\ UNCHANGED <<buf, ov, drawq>>
  <2>1. Counted(todo) = 0 /\ Counted(t) = 0 /\ Made(t) = Made(todo)
    BY <1>5, <1>10
  <2>2. win'.refs = win.refs /\ Typed'
    BY <1>1, <1>4, <1>10 DEF Typed
  <2>3. struck \/ Untouched(buf, ov, drawq, t, saved)
    BY <1>1, <1>5, <2>1 DEF Untouched
  <2>4. Core(buf, ov, drawq, win.refs, t, saved, waiting, struck)
    BY <1>1, <1>5, <2>1, <2>3 DEF Core
  <2>. QED
    BY <1>4, <1>10, <2>2, <2>4, CoreNext
<1>11. CASE /\ s[1] = "count" /\ win' = [win EXCEPT !.refs = @ + 1]
            /\ todo' = t /\ UNCHANGED <<buf, ov, drawq>>
  <2>1. Counted(todo) = 0 /\ Counted(t) = 1 /\ Made(t) = Made(todo)
    BY <1>5, <1>11
  <2>2. win'.refs = win.refs + 1 /\ Typed'
    BY <1>1, <1>4, <1>11 DEF Typed
  <2>3. struck \/ Untouched(buf, ov, drawq, t, saved)
    BY <1>1, <1>5, <2>1 DEF Untouched
  <2>4. win.refs + 1 = Len(drawq) + Counted(t) + Counted(saved)
    BY <1>1, <1>6, <2>1
  <2>5. Core(buf, ov, drawq, win.refs + 1, t, saved, waiting, struck)
    BY <1>1, <1>5, <2>3, <2>4 DEF Core
  <2>. QED
    BY <1>4, <1>11, <2>2, <2>5, CoreNext
<1>12. CASE /\ s[1] = "put" /\ drawq' = Append(drawq, s[2])
            /\ todo' = t /\ UNCHANGED <<buf, ov, win>>
  <2>1. /\ Counted(todo) = 1 /\ Counted(t) = 0 /\ Made(todo) = {s[2]} /\ Made(t) = {} /\ s[2] \in Reqs
    BY <1>5, <1>12, PlainShape, StepKinds
  <2>2. PICK d : d = Append(drawq, s[2])
    OBVIOUS
  <2>3. /\ d \in Seq(Reqs) /\ ToSet(d) = ToSet(drawq) \cup {s[2]} /\ Len(d) = Len(drawq) + 1
        /\ IsInjective(drawq) /\ s[2] \notin ToSet(drawq) => IsInjective(d)
    BY <1>1, <2>1, <2>2, AppendedQueue, AppendProperties
  <2>4. ASSUME Untouched(buf, ov, drawq, todo, saved)
        PROVE  Untouched(buf, ov, d, t, saved)
    <3>1. Drawable(buf, ov, d, Made(t))
      BY <2>1, <2>3, <2>4 DEF Untouched, Drawable
    <3>. QED
      BY <1>5, <2>4, <3>1 DEF Untouched
  <2>5. win.refs = Len(d) + Counted(t) + Counted(saved)
    BY <1>1, <1>6, <2>1, <2>3
  <2>6. Core(buf, ov, d, win.refs, t, saved, waiting, struck)
    BY <1>1, <1>5, <2>3, <2>4, <2>5 DEF Core
  <2>. QED
    BY <1>1, <1>4, <1>12, <2>2, <2>6, CoreNext DEF Typed
<1>. QED
  <2>1. LET x == Head(todo) IN
     CASE x[1] \in {"buf", "ov"} /\ Queued(x) ->
            todo' = Tail(todo) /\ UNCHANGED <<buf, ov, win, drawq>>
       [] x[1] \in {"buf", "ov"} /\ ~Queued(x) ->
            /\ Mark(x)
            /\ todo' = << << "start", x >>, << "count", x >>, << "put", x >> >> \o Tail(todo)
            /\ UNCHANGED <<win, drawq>>
       [] x[1] = "start" ->
            /\ win' = [win EXCEPT !.dirty = TRUE]
            /\ todo' = (IF win.dirty THEN <<>> ELSE << << "timer", <<>> >> >>) \o Tail(todo)
            /\ UNCHANGED <<buf, ov, drawq>>
       [] x[1] = "timer" ->
            /\ win' = [win EXCEPT !.timer = TRUE]
            /\ todo' = Tail(todo) /\ UNCHANGED <<buf, ov, drawq>>
       [] x[1] = "count" ->
            /\ win' = [win EXCEPT !.refs = @ + 1]
            /\ todo' = Tail(todo) /\ UNCHANGED <<buf, ov, drawq>>
       [] x[1] = "put" ->
            /\ drawq' = Append(drawq, x[2])
            /\ todo' = Tail(todo) /\ UNCHANGED <<buf, ov, win>>
    BY DEF Step
  <2>2. s[1] \in {"buf", "ov", "start", "timer", "count", "put"}
    BY <1>5, StepKinds
  <2>. QED
    BY <1>2, <1>3, <1>7, <1>8, <1>9, <1>10, <1>11, <1>12, <2>1, <2>2

-----------------------------------------------------------------------------
(* buf_draw and overlay_draw, of the first event of the queue.             *)
Shows(B, O, x, B1, O1) ==
  /\ Objs(B1, O1) /\ ~Asked(B1, O1, x)
  /\ \A r \in Reqs : r # x => (Asked(B1, O1, r) <=> Asked(B, O, r))
  /\ Flagged(B, O) => Flagged(B1, O1)

LEMMA WindowDrawSafe ==
  ASSUME IInv, WindowDraw
  PROVE  IInv'
<1>1. /\ Typed /\ Objs(buf, ov) /\ drawq \in Seq(Reqs) /\ Shape(saved)
      /\ (waiting \/ saved = <<>>)
      /\ win.refs = Len(drawq) + Counted(todo) + Counted(saved)
      /\ struck \/ Untouched(buf, ov, drawq, todo, saved)
  BY Facts
<1>2. /\ todo = <<>> /\ drawq # <<>> /\ drawq' = Tail(drawq) /\ win' = [win EXCEPT !.refs = @ - 1]
      /\ UNCHANGED <<todo, saved, waiting, struck, used>>
  BY DEF WindowDraw
<1>3. PICK x \in Reqs : x = Head(drawq)
  BY <1>1, <1>2, PoppedQueue
<1>4. buf \in [Bufs -> BufType] /\ ov \in [Ovs -> OvType]
  BY <1>1 DEF Objs
<1>5. Shows(buf, ov, x, buf', ov')
  <2>0. /\ x[1] = "ov" => Drawn(x[2])
        /\ x[1] = "buf" /\ buf[x[2]].st = "del" => Expire(x[2])
        /\ x[1] = "buf" /\ buf[x[2]].st # "del" => BufDrawn(x[2])
    <3>1. (CASE x[1] = "ov" -> Drawn(x[2])
             [] x[1] = "buf" /\ buf[x[2]].st = "del" -> Expire(x[2])
             [] x[1] = "buf" /\ buf[x[2]].st # "del" -> BufDrawn(x[2]))
      BY <1>3 DEF WindowDraw
    <3>2. x[1] \in {"buf", "ov"}
      BY StepKinds
    <3>. QED
      BY <3>1, <3>2
  <2>1. CASE x[1] = "ov"
    <3>1. PICK o \in Ovs : x = << "ov", o >>
      BY <2>1 DEF Reqs
    <3>2. Drawn(o)
      BY <2>0, <3>1
    <3>3. /\ buf' = buf /\ ov' \in [Ovs -> OvType] /\ ~ov'[o].queued
          /\ ov'[o].st = IF ov[o].st = "del" THEN "free" ELSE ov[o].st
          /\ \A p \in Ovs : p # o => ov'[p] = ov[p]
      <4>1. FreeOv \in OvType /\ FreeOv.st = "free" /\ ~FreeOv.queued
        BY DEF FreeOv, OvType
      <4>. QED
        BY <1>4, <3>2, <4>1 DEF Drawn, OvType
    <3>4. \A p \in Ovs : ov[p].st = "live" => ov'[p].st = "live"
      BY <3>3
    <3>5. Objs(buf', ov')
      BY <1>1, <3>3, <3>4 DEF Objs
    <3>6. /\ ~Asked(buf', ov', x)
          /\ \A r \in Reqs : r # x => (Asked(buf', ov', r) <=> Asked(buf, ov, r))
      BY <3>1, <3>3 DEF Asked, Reqs
    <3>7. Flagged(buf, ov) => Flagged(buf', ov')
      BY <1>4, <3>3 DEF Flagged, OvType
    <3>. QED
      BY <3>5, <3>6, <3>7 DEF Shows
  <2>2. CASE x[1] = "buf"
    <3>1. PICK b \in Bufs : x = << "buf", b >>
      BY <2>2 DEF Reqs
    <3>2. CASE buf[b].st = "del"
      <4>1. Expire(b)
        BY <2>0, <3>1, <3>2
      <4>2. buf' = [buf EXCEPT ![b] = FreeBuf] /\ ov' = OverlayDelete(ov, buf[b].ov) /\ buf[b].st # "free"
        BY <3>2, <4>1 DEF Expire
      <4>3. Gone(buf, ov, b, buf', ov')
        BY <1>1, <4>2, Expired
      <4>4. /\ ~Asked(buf', ov', x)
            /\ \A r \in Reqs : r # x => (Asked(buf', ov', r) <=> Asked(buf, ov, r))
        BY <3>1, <4>3 DEF Asked, Reqs, Gone, FreeBuf
      <4>. QED
        BY <4>3, <4>4 DEF Shows, Gone
    <3>3. CASE buf[b].st # "del"
      <4>1. BufDrawn(b)
        BY <2>0, <3>1, <3>3
      <4>2. /\ ov' = ov /\ buf' \in [Bufs -> BufType] /\ ~buf'[b].queued
            /\ buf'[b].st = buf[b].st /\ buf'[b].ov = buf[b].ov
            /\ \A c \in Bufs : c # b => buf'[c] = buf[c]
        BY <1>4, <4>1 DEF BufDrawn, BufType
      <4>3. \A c \in Bufs : buf'[c].st = buf[c].st /\ buf'[c].ov = buf[c].ov
        BY <4>2
      <4>4. Objs(buf', ov')
        BY <1>1, <4>2, <4>3 DEF Objs
      <4>5. /\ ~Asked(buf', ov', x)
            /\ \A r \in Reqs : r # x => (Asked(buf', ov', r) <=> Asked(buf, ov, r))
        BY <3>1, <4>2 DEF Asked, Reqs
      <4>6. Flagged(buf, ov) => Flagged(buf', ov')
        BY <3>3, <4>2 DEF Flagged
      <4>. QED
        BY <4>4, <4>5, <4>6 DEF Shows
    <3>. QED
      BY <3>2, <3>3
  <2>. QED
    BY <1>3, <2>1, <2>2, StepKinds
<1>6. PICK d : d = Tail(drawq)
  OBVIOUS
<1>7. /\ d \in Seq(Reqs) /\ Len(drawq) = Len(d) + 1 /\ Len(d) \in Nat
      /\ ToSet(drawq) = ToSet(d) \cup {x}
      /\ IsInjective(drawq) => IsInjective(d) /\ x \notin ToSet(d)
  BY <1>1, <1>2, <1>3, <1>6, PoppedQueue, HeadTailProperties, LenProperties, EmptySeq
<1>8. ASSUME Untouched(buf, ov, drawq, todo, saved)
      PROVE  Untouched(buf', ov', d, todo, saved)
  <2>1. Drawable(buf', ov', d, Made(todo))
    BY <1>2, <1>3, <1>5, <1>7, <1>8, MadeEmpty DEF Untouched, Drawable, Shows
  <2>. QED
    BY <1>2, <1>5, <1>8, <2>1, MadeEmpty DEF Untouched, Shows
<1>9. win'.refs = Len(d) + Counted(todo) + Counted(saved) /\ Typed'
  <2>1. Counted(todo) = 0 /\ Counted(saved) \in {0, 1} /\ win.refs \in Nat
    BY <1>1, <1>2, MadeEmpty DEF Counted, Typed
  <2>2. win'.refs = win.refs - 1
    BY <1>1, <1>2 DEF Typed
  <2>3. win.refs - 1 = Len(d) + Counted(todo) + Counted(saved) /\ win.refs - 1 \in Nat
    BY <1>1, <1>7, <2>1
  <2>4. Typed'
    BY <1>1, <1>2, <2>3 DEF Typed
  <2>. QED
    BY <2>2, <2>3, <2>4
<1>10. Core(buf', ov', d, win'.refs, todo, saved, waiting, struck)
  BY <1>1, <1>2, <1>5, <1>7, <1>8, <1>9, MadeEmpty DEF Core, Shows
<1>. QED
  BY <1>2, <1>6, <1>9, <1>10, CoreNext

LEMMA TimerSafe ==
  ASSUME IInv, UpdateCb \/ WinShut
  PROVE  IInv'
<1>1. Typed /\ Core(buf, ov, drawq, win.refs, todo, saved, waiting, struck)
  BY CoreIs
<1>2. UNCHANGED <<buf, ov, drawq, todo, saved, waiting, struck, used>>
  BY DEF UpdateCb, WinShut
<1>3. win'.refs = win.refs /\ Typed'
  BY <1>1, <1>2 DEF UpdateCb, WinShut, Typed
<1>. QED
  BY <1>1, <1>2, <1>3, CoreNext

-----------------------------------------------------------------------------
(* The resize signal.                                                      *)
LEMMA ResizedReqs ==
  ASSUME NEW S, S \subseteq Live, Objs(buf, ov)
  PROVE  Resized(S) \in Seq(Reqs) /\ \A r \in ToSet(Resized(S)) : LiveAt(buf, ov, r)
<1>1. PICK q : q = SetToSeq(S)
  OBVIOUS
<1>2. q \in [1..Cardinality(S) -> S] /\ Cardinality(S) \in Nat
  <2>1. IsFiniteSet(S)
    <3>1. S \subseteq Bufs
      BY DEF Live
    <3>. QED
      BY <3>1, FS_Subset, DrawAssumption
  <2>2. ExistsBijection(1..Cardinality(S), S) /\ Cardinality(S) \in Nat
    BY <2>1, FS_CardinalityType
  <2>3. \E f \in [1..Cardinality(S) -> S] : IsInjective(f)
    BY <2>2 DEF ExistsBijection, Bijection, Injection
  <2>. QED
    BY <1>1, <2>2, <2>3 DEF SetToSeq
<1>3. q \in Seq(S) /\ Len(q) = Cardinality(S)
  BY <1>2, SeqDef, LenProperties
<1>4. PICK N \in Nat : N = 2 * Len(q)
  BY <1>2, <1>3
<1>5. PICK s : s = [i \in 1..N |-> BufSetSizeOfs(q[(i + 1) \div 2])[2 - (i % 2)]]
  OBVIOUS
<1>6. s = Resized(S)
  BY <1>1, <1>4, <1>5 DEF Resized
<1>7. ASSUME NEW i \in 1..N
      PROVE  s[i] \in Reqs /\ LiveAt(buf, ov, s[i])
  <2>1. (i + 1) \div 2 \in 1..Len(q) /\ 2 - (i % 2) \in {1, 2}
    BY <1>2, <1>3, <1>4
  <2>2. PICK b : b = q[(i + 1) \div 2]
    OBVIOUS
  <2>3. b \in S
    BY <1>2, <1>3, <2>1, <2>2
  <2>4. b \in Bufs /\ buf[b].st = "live" /\ buf[b].ov \in Ovs /\ ov[buf[b].ov].st = "live"
    BY <2>3 DEF Live, Objs
  <2>5. s[i] \in {OvReq(b), BufReq(b)}
    BY <1>5, <2>1, <2>2 DEF BufSetSizeOfs
  <2>. QED
    BY <2>4, <2>5 DEF OvReq, BufReq, Reqs, LiveAt
<1>8. s \in Seq(Reqs) /\ DOMAIN s = 1..N
  <2>1. s \in [1..N -> Reqs]
    BY <1>5, <1>7
  <2>. QED
    BY <2>1, SeqDef
<1>. QED
  BY <1>6, <1>7, <1>8 DEF ToSet

LEMMA SigwinchSafe ==
  ASSUME IInv, Sigwinch
  PROVE  IInv'
<1>1. /\ Typed /\ Objs(buf, ov) /\ drawq \in Seq(Reqs) /\ Shape(todo) /\ Shape(saved)
      /\ (waiting \/ saved = <<>>)
      /\ win.refs = Len(drawq) + Counted(todo) + Counted(saved)
      /\ struck \/ Untouched(buf, ov, drawq, todo, saved)
  BY Facts
<1>2. /\ ~waiting /\ used.signals < MaxSignals /\ used' = [used EXCEPT !.signals = @ + 1]
      /\ saved' = todo /\ struck' = (struck \/ todo # <<>>) /\ waiting' = TRUE
      /\ todo' = Resized(Live) \o << << "start", <<>> >> >>
      /\ UNCHANGED <<buf, ov, drawq, win>>
  BY DEF Sigwinch
<1>3. PICK s : s = Resized(Live)
  OBVIOUS
<1>4. PICK t : t = s \o << << "start", <<>> >> >>
  OBVIOUS
<1>5. s \in Seq(Reqs) /\ \A r \in ToSet(s) : LiveAt(buf, ov, r)
  BY <1>1, <1>3, ResizedReqs
<1>6. /\ t \in Seq(Steps) /\ DOMAIN t = 1..Len(s) + 1 /\ Len(s) \in Nat /\ DOMAIN s = 1..Len(s)
      /\ t[Len(s) + 1] = << "start", <<>> >> /\ \A i \in 1..Len(s) : t[i] = s[i]
  <2>1. PICK x : x = << "start", <<>> >>
    OBVIOUS
  <2>2. x \in Steps
    BY <2>1, StepKinds
  <2>3. << x >> \in Seq(Steps) /\ Len(<< x >>) = 1 /\ << x >>[1] = x
    BY <2>2
  <2>4. s \in Seq(Steps) /\ Len(s) \in Nat /\ DOMAIN s = 1..Len(s)
    <3>1. \A r \in Reqs : r \in Steps
      BY StepKinds
    <3>. QED
      BY <1>5, <3>1, LenProperties, SeqDef
  <2>5. t = s \o << x >>
    BY <1>4, <2>1
  <2>6. /\ t \in Seq(Steps) /\ Len(t) = Len(s) + 1
        /\ \A i \in 1..Len(s) + 1 : t[i] = IF i <= Len(s) THEN s[i] ELSE << x >>[i - Len(s)]
    BY <2>3, <2>4, <2>5, ConcatProperties
  <2>7. t[Len(s) + 1] = x
    BY <2>3, <2>4, <2>6
  <2>8. \A i \in 1..Len(s) : t[i] = s[i]
    BY <2>4, <2>6
  <2>9. DOMAIN t = 1..Len(s) + 1
    BY <2>6, LenProperties
  <2>. QED
    BY <2>1, <2>4, <2>6, <2>7, <2>8, <2>9
<1>7. \A i \in DOMAIN t : i \in DOMAIN s \/ t[i] = << "start", <<>> >>
  BY <1>6
<1>8. Plain(t)
  <2>1. ASSUME NEW i \in DOMAIN s PROVE t[i][1] \in {"buf", "ov"}
    <3>1. t[i] \in Reqs
      BY <1>5, <1>6, ElementOfSeq
    <3>. QED
      BY <3>1, StepKinds
  <2>. QED
    BY <1>6, <1>7, <2>1 DEF Plain
<1>9. \A r \in ToSet(t) \cap Reqs : LiveAt(buf, ov, r)
  <2>1. ASSUME NEW r \in Reqs, r \in ToSet(t) PROVE LiveAt(buf, ov, r)
    <3>1. PICK i \in DOMAIN t : t[i] = r
      BY <2>1 DEF ToSet
    <3>2. r # << "start", <<>> >>
      BY StepKinds
    <3>3. i \in DOMAIN s /\ s[i] = r
      BY <1>6, <1>7, <3>1, <3>2
    <3>. QED
      BY <1>5, <3>3 DEF ToSet
  <2>. QED
    BY <2>1
<1>10. Shape(t) /\ Counted(t) = 0 /\ Made(t) = {}
  BY <1>8, PlainShape
<1>11. struck' \/ Untouched(buf, ov, drawq, t, todo)
  <2>1. ASSUME todo = <<>>, Untouched(buf, ov, drawq, todo, saved)
        PROVE  Untouched(buf, ov, drawq, t, todo)
    BY <1>9, <1>10, <2>1, MadeEmpty DEF Untouched, Drawable
  <2>. QED
    BY <1>1, <1>2, <2>1
<1>12. win.refs = Len(drawq) + Counted(t) + Counted(todo)
  <2>1. Counted(saved) = 0 /\ Counted(todo) \in {0, 1} /\ Len(drawq) \in Nat
    BY <1>1, <1>2, MadeEmpty, LenProperties DEF Counted
  <2>. QED
    BY <1>1, <1>10, <2>1
<1>13. Typed'
  <2>1. used.signals \in 0..MaxSignals /\ MaxSignals \in Nat
    BY <1>1, DrawAssumption DEF Typed
  <2>2. used.signals + 1 \in 0..MaxSignals
    BY <1>2, <2>1
  <2>. QED
    BY <1>1, <1>2, <2>2 DEF Typed
<1>14. Core(buf, ov, drawq, win.refs, t, todo, TRUE, struck')
  BY <1>1, <1>10, <1>11, <1>12 DEF Core
<1>. QED
  BY <1>2, <1>3, <1>4, <1>13, <1>14, CoreNext

LEMMA SigwinchEndSafe ==
  ASSUME IInv, SigwinchEnd
  PROVE  IInv'
<1>1. /\ Typed /\ Objs(buf, ov) /\ drawq \in Seq(Reqs) /\ Shape(todo) /\ Shape(saved)
      /\ win.refs = Len(drawq) + Counted(todo) + Counted(saved)
      /\ struck \/ Untouched(buf, ov, drawq, todo, saved)
  BY Facts
<1>2. /\ todo = <<>> /\ waiting' = FALSE /\ todo' = saved /\ saved' = <<>>
      /\ UNCHANGED <<buf, ov, drawq, win, struck, used>>
  BY DEF SigwinchEnd
<1>3. struck \/ Untouched(buf, ov, drawq, saved, <<>>)
  BY <1>1, <1>2 DEF Untouched
<1>4. win.refs = Len(drawq) + Counted(saved) + Counted(<<>>)
  <2>1. Counted(<<>>) = 0 /\ Counted(saved) \in {0, 1} /\ Len(drawq) \in Nat
    BY <1>1, MadeEmpty, LenProperties DEF Counted
  <2>. QED
    BY <1>1, <1>2, <2>1
<1>5. Core(buf, ov, drawq, win.refs, saved, <<>>, FALSE, struck)
  BY <1>1, <1>3, <1>4, MadeEmpty DEF Core
<1>6. Typed'
  BY <1>1, <1>2 DEF Typed
<1>. QED
  BY <1>2, <1>5, <1>6, CoreNext

-----------------------------------------------------------------------------
LEMMA InitSafe == Init => IInv
<1>1. SUFFICES ASSUME Init PROVE IInv
  OBVIOUS
<1>2. /\ buf = [b \in Bufs |-> FreeBuf] /\ ov = [o \in Ovs |-> FreeOv] /\ drawq = <<>>
      /\ win = [refs |-> 0, dirty |-> FALSE, timer |-> FALSE, shut |-> FALSE]
      /\ todo = <<>> /\ saved = <<>> /\ waiting = FALSE /\ struck = FALSE
      /\ used = [handlers |-> 0, signals |-> 0]
  BY <1>1 DEF Init
<1>3. Typed
  <2>1. 0 \in Nat /\ 0 \in 0..MaxHandlers /\ 0 \in 0..MaxSignals
    BY DrawAssumption
  <2>2. win \in [refs : Nat, dirty : BOOLEAN, timer : BOOLEAN, shut : BOOLEAN]
    BY <1>2
  <2>3. used \in [handlers : 0..MaxHandlers, signals : 0..MaxSignals]
    BY <1>2, <2>1
  <2>. QED
    BY <1>2, <2>2, <2>3 DEF Typed
<1>4. /\ FreeBuf \in BufType /\ FreeOv \in OvType /\ FreeBuf.st = "free" /\ FreeOv.st = "free"
      /\ ~FreeBuf.queued /\ ~FreeOv.queued
  BY DEF FreeBuf, FreeOv, BufType, OvType
<1>5. Objs(buf, ov) /\ Flagged(buf, ov)
  BY <1>2, <1>4 DEF Objs, Flagged
<1>6. drawq \in Seq(Reqs) /\ Len(drawq) = 0 /\ IsInjective(drawq) /\ ToSet(drawq) = {}
  BY <1>2, EmptySeq DEF IsInjective, ToSet
<1>7. \A r \in Reqs : ~Asked(buf, ov, r)
  BY <1>2, <1>4 DEF Asked, Reqs
<1>8. Untouched(buf, ov, drawq, todo, saved)
  BY <1>2, <1>5, <1>6, <1>7, MadeEmpty DEF Untouched, Drawable
<1>9. win.refs = Len(drawq) + Counted(todo) + Counted(saved)
  BY <1>2, <1>6, MadeEmpty
<1>10. Core(buf, ov, drawq, win.refs, todo, saved, waiting, struck)
  BY <1>2, <1>5, <1>6, <1>8, <1>9, MadeEmpty DEF Core
<1>. QED
  BY <1>3, <1>10, CoreIs

LEMMA NextSafe == IInv /\ [Next]_vars => IInv'
<1>. SUFFICES ASSUME IInv, [Next]_vars PROVE IInv'
  OBVIOUS
<1>1. ASSUME NEW b \in Bufs, BufRefresh(b) \/ BufSetPlugin(b) \/ BufToggleFocus(b)
      PROVE  IInv'
  BY <1>1, RefreshSafe
<1>2. ASSUME NEW b \in Bufs, BufDelete(b)
      PROVE  IInv'
  BY <1>2, BufDeleteSafe
<1>3. ASSUME NEW b \in Bufs, NEW o \in Ovs, BufNew(b, o)
      PROVE  IInv'
  BY <1>3, BufNewSafe
<1>4. CASE Step
  BY <1>4, StepSafe
<1>5. CASE WindowDraw
  BY <1>5, WindowDrawSafe
<1>6. CASE UpdateCb \/ WinShut
  BY <1>6, TimerSafe
<1>7. CASE Sigwinch
  BY <1>7, SigwinchSafe
<1>8. CASE SigwinchEnd
  BY <1>8, SigwinchEndSafe
<1>9. CASE UNCHANGED vars
  <2>1. Typed /\ Core(buf, ov, drawq, win.refs, todo, saved, waiting, struck)
    BY CoreIs
  <2>. QED
    BY <1>9, <2>1, CoreNext DEF vars, Typed
<1>. QED
  BY <1>1, <1>2, <1>3, <1>4, <1>5, <1>6, <1>7, <1>8, <1>9 DEF Next

(* The invariant: besides what follows, handlers make one request after    *)
(* the other, whose steps follow in order (window_req_draw), a buffer that *)
(* is not freed has a live overlay of its own (buf_new, buf_expire), and   *)
(* no freed object is queued unless a signal interrupted a handler.        *)
THEOREM InvariantCorrect == Spec => []IInv
  BY InitSafe, NextSafe, PTL DEF Spec

(* Every variable keeps its type; the count of requests is never negative. *)
THEOREM TypeCorrect == Spec => []TypeOK
<1>1. IInv => TypeOK
  BY DEF IInv
<1>. QED
  BY <1>1, InvariantCorrect, PTL

(* window.refs is the number of the events that will take it back, and one *)
(* for each handler between its count and its event; unless a signal came  *)
(* in the middle of a handler, a buffer or overlay is in the queue once if *)
(* it is marked and not at all otherwise, also when it is deleted, so none *)
(* is drawn after it is freed and none waits for ever to be freed.         *)
THEOREM RequestsCorrect == Spec => []RequestsMatch
<1>1. IInv => RequestsMatch
  BY DEF IInv
<1>. QED
  BY <1>1, InvariantCorrect, PTL
=============================================================================

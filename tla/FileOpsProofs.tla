---------------------------- MODULE FileOpsProofs ----------------------------
(* The inductive invariants of FileOps and what follows from them, for any *)
(* forest of files and any number of groups: items are used while they are *)
(* there, directories come before their contents, and nothing is lost      *)
(* where no directory is moved to another device.                          *)
EXTENDS FileOps, FiniteSetTheorems, SequenceTheorems, TLAPS

-----------------------------------------------------------------------------
(* The forest.                                                             *)
LEMMA Forest ==
  /\ IsFiniteSet(Nodes) /\ NoNode \notin Nodes
  /\ \A n \in Nodes : Parent[n] # NoNode => Parent[n] \in Nodes /\ n \notin Above[Parent[n]]
BY FileAssumption

LEMMA AboveLeast ==
  ASSUME NEW S \in Upward, NEW n \in S
  PROVE  Above[n] \subseteq S
BY DEF Above, Upward

LEMMA AboveUpward ==
  ASSUME NEW n \in Nodes
  PROVE  /\ n \in Above[n] /\ Above[n] \in Upward
         /\ \A m \in Above[n] : m \in Nodes /\ Above[m] \subseteq Above[n]
<1>1. n \in Above[n] /\ Above[n] \subseteq Nodes
  BY DEF Above
<1>2. \A m \in Above[n] : Parent[m] # NoNode => Parent[m] \in Above[n]
  BY Forest DEF Above, Upward
<1>3. Above[n] \in Upward
  BY <1>1, <1>2 DEF Upward
<1>. QED
  BY <1>1, <1>3, AboveLeast

LEMMA AboveParent ==
  ASSUME NEW n \in Nodes
  PROVE  Above[n] = IF Parent[n] = NoNode THEN {n} ELSE {n} \cup Above[Parent[n]]
<1>1. CASE Parent[n] = NoNode
  <2>1. {n} \in Upward
    BY <1>1 DEF Upward
  <2>. QED
    BY <1>1, <2>1, AboveLeast, AboveUpward
<1>2. CASE Parent[n] # NoNode
  <2>1. Parent[n] \in Nodes
    BY <1>2, Forest
  <2>2. {n} \cup Above[Parent[n]] \in Upward
    BY <2>1, AboveUpward DEF Upward
  <2>3. Above[n] \subseteq {n} \cup Above[Parent[n]]
    BY <2>2, AboveLeast
  <2>4. Parent[n] \in Above[n]
    BY <1>2, AboveUpward DEF Upward
  <2>. QED
    BY <1>2, <2>3, <2>4, AboveUpward
<1>. QED
  BY <1>1, <1>2

(* Nothing lies above what lies below it.                                  *)
LEMMA AboveAntisymmetric ==
  ASSUME NEW n \in Nodes, NEW b \in Above[n], n \in Above[b]
  PROVE  b = n
<1>1. SUFFICES ASSUME b # n PROVE FALSE
  OBVIOUS
<1>2. Parent[n] # NoNode /\ b \in Above[Parent[n]]
  BY <1>1, AboveParent
<1>3. n \in Above[Parent[n]]
  BY <1>2, Forest, AboveUpward
<1>. QED
  BY <1>2, <1>3, Forest

(* What lies above a node is a chain: of two, one is above the other, no   *)
(* two are in the same directory, and each but the first has one in it.    *)
LEMMA ChainTotal ==
  ASSUME NEW n \in Nodes, NEW x \in Above[n], NEW y \in Above[n]
  PROVE  y \in Above[x] \/ x \in Above[y]
<1>. DEFINE S == {z \in Above[n] : \A w \in Above[n] : w \in Above[z] \/ z \in Above[w]}
<1>1. n \in S
  BY AboveUpward
<1>2. ASSUME NEW z \in S, Parent[z] # NoNode PROVE Parent[z] \in S
  <2>1. z \in Nodes /\ Parent[z] \in Above[n] /\ Parent[z] \in Nodes
    BY <1>2, AboveUpward, Forest DEF Upward
  <2>2. ASSUME NEW w \in Above[n] PROVE w \in Above[Parent[z]] \/ Parent[z] \in Above[w]
    <3>1. w \in Nodes
      BY AboveUpward
    <3>2. CASE w \in Above[z]
      BY <1>2, <2>1, <3>1, <3>2, AboveParent, AboveUpward
    <3>3. CASE z \in Above[w]
      BY <1>2, <2>1, <3>1, <3>3, AboveUpward DEF Upward
    <3>. QED
      BY <3>2, <3>3
  <2>. QED
    BY <2>1, <2>2
<1>3. S \in Upward
  BY <1>2, AboveUpward DEF Upward
<1>. QED
  BY <1>1, <1>3, AboveLeast

LEMMA ChainInjective ==
  ASSUME NEW n \in Nodes, NEW x \in Above[n], NEW y \in Above[n],
         Parent[x] # NoNode, Parent[x] = Parent[y]
  PROVE  x = y
<1>1. x \in Nodes /\ y \in Nodes
  BY AboveUpward
<1>2. ASSUME NEW u \in Nodes, NEW w \in Nodes, w \in Above[u], Parent[u] # NoNode, Parent[u] = Parent[w]
      PROVE  u = w
  <2>1. u # w => w \in Above[Parent[w]]
    BY <1>2, AboveParent
  <2>. QED
    BY <1>2, <2>1, Forest
<1>. QED
  BY <1>1, <1>2, ChainTotal

LEMMA ChainStep ==
  ASSUME NEW n \in Nodes, NEW x \in Above[n], x # n
  PROVE  \E y \in Above[n] : Parent[y] = x
<1>. DEFINE S == {z \in Above[n] : z = n \/ \E y \in Above[n] : Parent[y] = z}
<1>1. S \in Upward /\ n \in S
  BY AboveUpward DEF Upward
<1>. QED
  BY <1>1, AboveLeast

-----------------------------------------------------------------------------
(* clear_fileitem: what is freed with n is a part of the chain above it,   *)
(* whose items but n had one child left, and which ends below an item that *)
(* has more.                                                               *)
LEMMA FreedIsChain ==
  ASSUME NEW refs, NEW n \in Nodes, refs[n] = 0,
         NEW F, F = Freed(refs, n)
  PROVE  /\ n \in F /\ F \subseteq Above[n]
         /\ \A c \in F \ {n} : refs[c] = 1 /\ \E b \in F : Parent[b] = c
         /\ \A c \in F : Parent[c] # NoNode /\ Parent[c] \notin F => refs[Parent[c]] # 1
<1>1. F = {a \in Above[n] : \A b \in Above[n] \ {n} : a \in Above[b] => refs[b] = 1}
  BY DEF Freed
<1>2. n \in F
  BY <1>1, AboveUpward, AboveAntisymmetric
<1>3. ASSUME NEW c \in F \ {n} PROVE refs[c] = 1 /\ \E b \in F : Parent[b] = c
  <2>1. c \in Above[n] /\ c \in Nodes /\ c \in Above[c]
    BY <1>1, AboveUpward
  <2>2. PICK b \in Above[n] : Parent[b] = c
    BY <1>1, ChainStep
  <2>3. \A x \in Above[n] : x \in Nodes /\ (b \in Above[x] => c \in Above[x])
    BY <2>1, <2>2, Forest, AboveUpward DEF Upward
  <2>4. b \in F
    BY <1>1, <2>3
  <2>. QED
    BY <1>1, <2>1, <2>2, <2>4
<1>4. ASSUME NEW c \in F, Parent[c] # NoNode, Parent[c] \notin F PROVE refs[Parent[c]] # 1
  <2>. DEFINE m == Parent[c]
  <2>1. c \in Above[n] /\ c \in Nodes /\ m \in Nodes /\ m \in Above[n] /\ m \in Above[c]
    BY <1>1, <1>4, AboveUpward, Forest DEF Upward
  <2>2. PICK b \in Above[n] \ {n} : m \in Above[b] /\ refs[b] # 1
    BY <1>1, <1>4, <2>1
  <2>3. b \in Nodes /\ c \notin Above[b]
    BY <1>1, <2>2, AboveUpward
  <2>4. b \in Above[c] /\ b # c
    BY <2>1, <2>2, <2>3, ChainTotal, AboveUpward
  <2>5. b \in Above[m]
    BY <1>4, <2>1, <2>4, AboveParent
  <2>6. b = m
    BY <2>1, <2>2, <2>5, AboveAntisymmetric
  <2>. QED
    BY <2>2, <2>6
<1>. QED
  BY <1>1, <1>2, <1>3, <1>4

-----------------------------------------------------------------------------
(* Sequences as queues.                                                    *)
LEMMA AppendedQueue ==
  ASSUME NEW T, NEW q \in Seq(T), NEW x \in T
  PROVE  /\ Append(q, x) \in Seq(T) /\ Append(q, x) # <<>>
         /\ ToSet(Append(q, x)) = ToSet(q) \cup {x}
         /\ Head(Append(q, x)) = IF q = <<>> THEN x ELSE Head(q)
         /\ DOMAIN Append(q, x) = DOMAIN q \cup {Len(q) + 1}
         /\ Append(q, x)[Len(q) + 1] = x
         /\ \A i \in DOMAIN q : i \in Nat /\ i < Len(q) + 1 /\ Append(q, x)[i] = q[i] /\ q[i] \in ToSet(q)
         /\ IsInjective(q) /\ x \notin ToSet(q) => IsInjective(Append(q, x))
<1>1. Len(q) \in Nat /\ DOMAIN q = 1..Len(q)
  BY LenProperties
<1>2. /\ Append(q, x) \in Seq(T) /\ Len(Append(q, x)) = Len(q) + 1
      /\ \A i \in 1..Len(q) : Append(q, x)[i] = q[i]
      /\ Append(q, x)[Len(q) + 1] = x
  BY AppendProperties
<1>3. DOMAIN Append(q, x) = 1..Len(q)+1
  BY <1>2, LenProperties
<1>4. DOMAIN Append(q, x) = DOMAIN q \cup {Len(q) + 1}
  BY <1>1, <1>3
<1>5. \A i \in DOMAIN q : i \in Nat /\ i < Len(q) + 1 /\ Append(q, x)[i] = q[i] /\ q[i] \in ToSet(q)
  BY <1>1, <1>2 DEF ToSet
<1>6. ToSet(Append(q, x)) = ToSet(q) \cup {x}
  BY <1>2, <1>4, <1>5 DEF ToSet
<1>7. IsInjective(q) /\ x \notin ToSet(q) => IsInjective(Append(q, x))
  BY <1>2, <1>4, <1>5 DEF IsInjective
<1>8. Append(q, x) # <<>>
  BY <1>1, <1>2
<1>9. Head(Append(q, x)) = Append(q, x)[1]
  BY <1>2, <1>8, HeadTailProperties
<1>10. Head(Append(q, x)) = IF q = <<>> THEN x ELSE Head(q)
  <2>1. CASE q = <<>>
    BY <1>2, <1>9, <2>1, EmptySeq
  <2>2. CASE q # <<>>
    <3>1. Head(q) = q[1] /\ 1 \in 1..Len(q)
      BY <1>1, <2>2, HeadTailProperties, EmptySeq
    <3>. QED
      BY <1>2, <1>9, <2>2, <3>1
  <2>. QED
    BY <2>1, <2>2
<1>. QED
  BY <1>2, <1>4, <1>5, <1>6, <1>7, <1>8, <1>10

LEMMA PoppedQueue ==
  ASSUME NEW T, NEW q \in Seq(T), q # <<>>
  PROVE  /\ Tail(q) \in Seq(T) /\ Head(q) \in T /\ Head(q) = q[1] /\ 1 \in DOMAIN q
         /\ ToSet(q) = ToSet(Tail(q)) \cup {Head(q)}
         /\ \A i \in DOMAIN Tail(q) : i \in Nat /\ i + 1 \in DOMAIN q /\ i + 1 # 1
                                      /\ Tail(q)[i] = q[i + 1] /\ Tail(q)[i] \in ToSet(q)
         /\ IsInjective(q) => IsInjective(Tail(q)) /\ Head(q) \notin ToSet(Tail(q))
<1>1. /\ Len(q) \in Nat \ {0} /\ DOMAIN q = 1..Len(q)
      /\ Tail(q) \in Seq(T) /\ Len(Tail(q)) = Len(q) - 1
      /\ Head(q) \in T /\ Head(q) = q[1]
      /\ \A i \in 1..Len(Tail(q)) : Tail(q)[i] = q[i+1]
  BY HeadTailProperties, LenProperties, EmptySeq
<1>2. DOMAIN Tail(q) = 1..Len(q)-1
  BY <1>1, LenProperties
<1>3. \A i \in DOMAIN Tail(q) : i \in Nat /\ i + 1 \in DOMAIN q /\ i + 1 # 1
                                /\ Tail(q)[i] = q[i + 1] /\ Tail(q)[i] \in ToSet(q)
  BY <1>1, <1>2 DEF ToSet
<1>4. \A i \in DOMAIN q : i = 1 \/ (i - 1 \in DOMAIN Tail(q) /\ Tail(q)[i - 1] = q[i])
  BY <1>1, <1>2
<1>5. ToSet(q) = ToSet(Tail(q)) \cup {Head(q)}
  <2>1. \A x \in ToSet(q) : x \in ToSet(Tail(q)) \/ x = q[1]
    BY <1>4 DEF ToSet
  <2>2. ToSet(Tail(q)) \subseteq ToSet(q)
    BY <1>3 DEF ToSet
  <2>3. q[1] \in ToSet(q)
    BY <1>1 DEF ToSet
  <2>. QED
    BY <1>1, <2>1, <2>2, <2>3
<1>6. IsInjective(q) => IsInjective(Tail(q)) /\ Head(q) \notin ToSet(Tail(q))
  <2>1. SUFFICES ASSUME IsInjective(q) PROVE IsInjective(Tail(q)) /\ Head(q) \notin ToSet(Tail(q))
    OBVIOUS
  <2>2. ASSUME NEW i \in DOMAIN Tail(q), NEW j \in DOMAIN Tail(q), Tail(q)[i] = Tail(q)[j]
        PROVE  i = j
    <3>1. q[i + 1] = q[j + 1]
      BY <1>3, <2>2
    <3>2. i + 1 = j + 1
      BY <1>3, <2>1, <3>1 DEF IsInjective
    <3>. QED
      BY <1>3, <3>2
  <2>3. \A i \in DOMAIN Tail(q) : Tail(q)[i] # q[1]
    BY <1>1, <1>3, <2>1 DEF IsInjective
  <2>. QED
    BY <1>1, <2>2, <2>3 DEF IsInjective, ToSet
<1>. QED
  BY <1>1, <1>3, <1>5, <1>6

-----------------------------------------------------------------------------
(* The items of a group.                                                   *)
Inside(I, m) == {c \in I : Parent[c] = m}

LEMMA InsideCount ==
  ASSUME NEW I \in SUBSET Nodes, NEW m
  PROVE  /\ IsFiniteSet(Inside(I, m)) /\ Cardinality(Inside(I, m)) \in Nat
         /\ Cardinality(Inside(I, m)) = 0 <=> Inside(I, m) = {}
         /\ \A n \in Nodes \ I : Inside(I \cup {n}, m) = IF Parent[n] = m THEN Inside(I, m) \cup {n}
                                                         ELSE Inside(I, m)
         /\ \A n \in Nodes \ I : Parent[n] = m =>
              Cardinality(Inside(I \cup {n}, m)) = Cardinality(Inside(I, m)) + 1
         /\ \A n \in I : Parent[n] = m =>
              Cardinality(Inside(I, m) \ {n}) = Cardinality(Inside(I, m)) - 1
<1>1. Inside(I, m) \in SUBSET Nodes
  BY DEF Inside
<1>2. IsFiniteSet(Inside(I, m))
  BY <1>1, Forest, FS_Subset
<1>3. /\ Cardinality(Inside(I, m)) \in Nat
      /\ Cardinality(Inside(I, m)) = 0 <=> Inside(I, m) = {}
  BY <1>2, FS_CardinalityType, FS_EmptySet
<1>4. \A n \in Nodes \ I : Inside(I \cup {n}, m) = IF Parent[n] = m THEN Inside(I, m) \cup {n}
                                                   ELSE Inside(I, m)
  BY DEF Inside
<1>5. \A n \in Nodes \ I : Parent[n] = m =>
        Cardinality(Inside(I \cup {n}, m)) = Cardinality(Inside(I, m)) + 1
  <2>1. SUFFICES ASSUME NEW n \in Nodes \ I, Parent[n] = m
                 PROVE  Cardinality(Inside(I \cup {n}, m)) = Cardinality(Inside(I, m)) + 1
    OBVIOUS
  <2>2. n \notin Inside(I, m) /\ Inside(I \cup {n}, m) = Inside(I, m) \cup {n}
    BY <1>4, <2>1 DEF Inside
  <2>. QED
    BY <1>2, <2>2, FS_AddElement
<1>6. \A n \in I : Parent[n] = m =>
        Cardinality(Inside(I, m) \ {n}) = Cardinality(Inside(I, m)) - 1
  <2>1. SUFFICES ASSUME NEW n \in I, Parent[n] = m
                 PROVE  Cardinality(Inside(I, m) \ {n}) = Cardinality(Inside(I, m)) - 1
    OBVIOUS
  <2>2. n \in Inside(I, m)
    BY <2>1 DEF Inside
  <2>. QED
    BY <1>2, <2>2, FS_RemoveElement
<1>. QED
  BY <1>2, <1>3, <1>4, <1>5, <1>6

LEMMA GroupTyped ==
  ASSUME NEW fg \in GroupType
  PROVE  /\ fg.flags \in SUBSET {"MOVE", "COPY", "UNLINK", "ERROR"}
         /\ fg.top \in Nodes /\ Parent[fg.top] = NoNode /\ fg.todo \in Seq(Nodes)
         /\ fg.items \in SUBSET Nodes /\ fg.refs \in [Nodes -> Nat]
         /\ fg.dest \in [Nodes -> Places \cup {NoDest}]
BY DEF GroupType, Tops

(* add_ent keeps them a tree.                                              *)
LEMMA AddEntItems ==
  ASSUME NEW fg \in GroupType, ItemsMatch(fg), fg.items = ToSet(fg.todo), "MOVE" \notin fg.flags,
         NEW n \in Nodes \ fg.items, Parent[n] \in fg.items,
         NEW fg1, fg1 = AddEnt(fg, n)
  PROVE  /\ fg1 \in GroupType /\ ItemsMatch(fg1)
         /\ fg1.items = fg.items \cup {n} /\ fg1.items = ToSet(fg1.todo)
         /\ fg1.flags = fg.flags /\ fg1.top = fg.top /\ fg1.dest = fg.dest
<1>. DEFINE d == Parent[n]
<1>1. /\ fg1.items = fg.items \cup {n} /\ fg1.todo = Append(fg.todo, n)
      /\ fg1.refs = [fg.refs EXCEPT ![d] = @ + 1]
      /\ fg1.flags = fg.flags /\ fg1.top = fg.top /\ fg1.dest = fg.dest
  BY DEF AddEnt, AddItem, AddRef, GroupType
<1>2. d \in Nodes /\ d # n
  BY GroupTyped
<1>3. fg1.refs \in [Nodes -> Nat]
  BY <1>1, <1>2, GroupTyped
<1>4. fg1 \in GroupType
  <2>1. fg1.todo \in Seq(Nodes)
    BY <1>1, GroupTyped, AppendedQueue
  <2>. QED
    BY <1>1, <1>3, <2>1, GroupTyped DEF AddEnt, GroupType
<1>5. fg1.items = ToSet(fg1.todo) /\ IsInjective(fg1.todo)
  BY <1>1, GroupTyped, AppendedQueue DEF ItemsMatch
<1>6. \A m \in fg1.items : m = fg.top \/ Parent[m] \in fg1.items
  BY <1>1 DEF ItemsMatch
<1>7. \A m \in Nodes : fg1.refs[m] = Cardinality({c \in fg1.items : Parent[c] = m})
  <2>1. ASSUME NEW m \in Nodes PROVE fg1.refs[m] = Cardinality(Inside(fg1.items, m))
    <3>1. fg.refs[m] = Cardinality(Inside(fg.items, m))
      BY DEF ItemsMatch, Inside
    <3>2. CASE m = d
      <4>1. Cardinality(Inside(fg.items \cup {n}, m)) = Cardinality(Inside(fg.items, m)) + 1
        <5>1. fg.items \in SUBSET Nodes
          BY GroupTyped
        <5>2. \A x \in Nodes \ fg.items : Parent[x] = m =>
                Cardinality(Inside(fg.items \cup {x}, m)) = Cardinality(Inside(fg.items, m)) + 1
          BY <5>1, InsideCount, Zenon
        <5>. QED
          BY <3>2, <5>2
      <4>2. fg1.refs[m] = fg.refs[m] + 1
        BY <1>1, <1>2, <3>2, GroupTyped
      <4>. QED
        BY <1>1, <3>1, <4>1, <4>2
    <3>3. CASE m # d
      <4>1. Inside(fg.items \cup {n}, m) = Inside(fg.items, m)
        BY <3>3 DEF Inside
      <4>. QED
        BY <1>1, <3>1, <3>3, <4>1, GroupTyped
    <3>. QED
      BY <3>2, <3>3
  <2>. QED
    BY <2>1 DEF Inside
<1>8. ASSUME NEW i \in DOMAIN fg1.todo, NEW j \in DOMAIN fg1.todo,
             Parent[fg1.todo[j]] = fg1.todo[i]
      PROVE  i < j
  <2>. DEFINE k == Len(fg.todo) + 1
  <2>1. /\ i \in DOMAIN fg.todo \/ i = k
        /\ j \in DOMAIN fg.todo \/ j = k
        /\ fg1.todo[k] = n
        /\ \A x \in DOMAIN fg.todo : fg1.todo[x] = fg.todo[x] /\ fg.todo[x] \in fg.items /\ x < k
    BY <1>1, GroupTyped, AppendedQueue
  <2>2. CASE i = k
    <3>1. CASE j = k
      BY <1>2, <1>8, <2>1, <2>2, <3>1
    <3>2. CASE j \in DOMAIN fg.todo
      <4>1. fg.todo[j] \in fg.items /\ Parent[fg.todo[j]] = n
        BY <1>8, <2>1, <2>2, <3>2
      <4>2. fg.todo[j] = fg.top \/ n \in fg.items
        BY <4>1 DEF ItemsMatch
      <4>. QED
        BY <4>1, <4>2, GroupTyped, Forest
    <3>. QED
      BY <2>1, <3>1, <3>2
  <2>3. CASE i \in DOMAIN fg.todo /\ j = k
    BY <2>1, <2>3
  <2>4. CASE i \in DOMAIN fg.todo /\ j \in DOMAIN fg.todo
    BY <1>8, <2>1, <2>4 DEF ItemsMatch
  <2>. QED
    BY <2>1, <2>2, <2>3, <2>4
<1>. QED
  BY <1>1, <1>4, <1>5, <1>6, <1>7, <1>8 DEF ItemsMatch

LEMMA InsideOne ==
  ASSUME NEW I \in SUBSET Nodes, NEW m, NEW a \in Inside(I, m), NEW b \in Inside(I, m),
         Cardinality(Inside(I, m)) = 1
  PROVE  a = b
<1>1. b \in I /\ Parent[b] = m
  BY DEF Inside
<1>2. Cardinality(Inside(I, m) \ {b}) = 0
  <2>1. \A x \in I : Parent[x] = m => Cardinality(Inside(I, m) \ {x}) = Cardinality(Inside(I, m)) - 1
    BY InsideCount, Zenon
  <2>. QED
    BY <1>1, <2>1
<1>3. IsFiniteSet(Inside(I, m) \ {b})
  BY InsideCount, FS_Subset
<1>4. Inside(I, m) \ {b} = {}
  BY <1>2, <1>3, FS_EmptySet
<1>. QED
  BY <1>4

(* clear_fileitem: with the current item, which waited in front of what is *)
(* in it and above which nothing waits, the items are freed that have      *)
(* nothing else in them.                                                   *)
LEMMA HeadItem ==
  ASSUME NEW fg \in GroupType, ItemsMatch(fg), fg.todo # <<>>, NEW n, n = Head(fg.todo)
  PROVE  /\ n \in Nodes /\ n \in fg.items
         /\ Tail(fg.todo) \in Seq(Nodes) /\ IsInjective(Tail(fg.todo))
         /\ ToSet(Tail(fg.todo)) = ToSet(fg.todo) \ {n}
         /\ Parent[n] \notin ToSet(fg.todo)
         /\ Above[n] \subseteq {x \in fg.items : x = n \/ x \notin ToSet(fg.todo)}
<1>1. /\ fg.todo \in Seq(Nodes) /\ n = fg.todo[1] /\ 1 \in DOMAIN fg.todo
      /\ n \in Nodes /\ Tail(fg.todo) \in Seq(Nodes)
      /\ ToSet(fg.todo) = ToSet(Tail(fg.todo)) \cup {n}
      /\ IsInjective(Tail(fg.todo)) /\ n \notin ToSet(Tail(fg.todo))
  BY GroupTyped, PoppedQueue DEF ItemsMatch
<1>2. n \in fg.items
  BY <1>1 DEF ItemsMatch
<1>3. Parent[n] \notin ToSet(fg.todo)
  <2>1. ASSUME NEW i \in DOMAIN fg.todo, Parent[n] = fg.todo[i] PROVE FALSE
    <3>1. i < 1
      BY <1>1, <2>1 DEF ItemsMatch
    <3>2. i \in 1..Len(fg.todo)
      BY <1>1, LenProperties
    <3>. QED
      BY <3>1, <3>2
  <2>. QED
    BY <2>1 DEF ToSet
<1>4. Above[n] \subseteq {x \in fg.items : x = n \/ x \notin ToSet(fg.todo)}
  <2>. DEFINE S == {x \in fg.items : x = n \/ x \notin ToSet(fg.todo)}
  <2>1. S \in Upward
    <3>1. ASSUME NEW x \in S, Parent[x] # NoNode PROVE Parent[x] \in S
      <4>1. Parent[x] \in fg.items
        BY <3>1, GroupTyped DEF ItemsMatch
      <4>2. Parent[x] \notin ToSet(fg.todo)
        BY <1>3 DEF ItemsMatch
      <4>. QED
        BY <4>1, <4>2
    <3>. QED
      BY <3>1, GroupTyped DEF Upward
  <2>2. n \in S
    BY <1>2
  <2>. QED
    BY <2>1, <2>2, AboveLeast
<1>. QED
  BY <1>1, <1>2, <1>3, <1>4

Cleared(fg, F) ==
  /\ F \subseteq fg.items /\ F \cap ToSet(Tail(fg.todo)) = {}
  /\ \A m \in fg.items \ F : Parent[m] \notin F
  /\ \A m \in Nodes : Deref(fg.refs, F)[m] = Cardinality(Inside(fg.items \ F, m))
  /\ \A m \in fg.items \ F : Deref(fg.refs, F)[m] > 0 \/ m \in ToSet(Tail(fg.todo))

LEMMA ClearItems ==
  ASSUME NEW fg \in GroupType, ItemsMatch(fg), fg.todo # <<>>, NEW n, n = Head(fg.todo),
         fg.refs[n] = 0, NEW F, F = Freed(fg.refs, n)
  PROVE  Cleared(fg, F)
<1>. DEFINE I == fg.items
            W == ToSet(fg.todo)
            R == fg.refs
<1>1. /\ n \in Nodes /\ n \in I /\ I \in SUBSET Nodes /\ R \in [Nodes -> Nat]
      /\ ToSet(Tail(fg.todo)) = W \ {n}
      /\ Above[n] \subseteq {x \in I : x = n \/ x \notin W}
  BY HeadItem, GroupTyped
<1>2. /\ n \in F /\ F \subseteq Above[n]
      /\ \A c \in F \ {n} : R[c] = 1 /\ \E b \in F : Parent[b] = c
      /\ \A c \in F : Parent[c] # NoNode /\ Parent[c] \notin F => R[Parent[c]] # 1
  BY <1>1, FreedIsChain
<1>3. F \subseteq I /\ F \cap (W \ {n}) = {}
  BY <1>1, <1>2
<1>4. \A m \in Nodes : R[m] = Cardinality(Inside(I, m))
  BY DEF ItemsMatch, Inside
<1>. HIDE DEF I, W, R
<1>5. ASSUME NEW m \in I \ F PROVE Parent[m] \notin F
  <2>1. SUFFICES ASSUME Parent[m] \in F PROVE FALSE
    OBVIOUS
  <2>. DEFINE c == Parent[m]
  <2>2. m \in Inside(I, c) /\ c \in Nodes
    BY <1>1, <1>3, <2>1 DEF Inside
  <2>3. CASE c = n
    <3>1. Cardinality(Inside(I, c)) = 0
      BY <1>4, <2>2, <2>3 DEF R
    <3>2. Inside(I, c) = {}
      BY <1>1, <3>1, InsideCount
    <3>. QED
      BY <2>2, <3>2
  <2>4. CASE c # n
    <3>1. PICK b \in F : Parent[b] = c
      BY <1>2, <2>1, <2>4
    <3>2. b \in Inside(I, c)
      BY <1>3, <3>1 DEF Inside
    <3>3. Cardinality(Inside(I, c)) = 1
      BY <1>2, <1>4, <2>1, <2>2, <2>4
    <3>4. m = b
      BY <1>1, <2>2, <3>2, <3>3, InsideOne
    <3>. QED
      BY <3>1, <3>4
  <2>. QED
    BY <2>3, <2>4
<1>6. ASSUME NEW m \in Nodes
      PROVE  /\ Deref(R, F)[m] = Cardinality(Inside(I \ F, m))
             /\ m \in I \ F => Deref(R, F)[m] > 0 \/ m \in W \ {n}
  <2>1. Deref(R, F)[m] = IF m \in F THEN 0
                         ELSE IF \E c \in F : Parent[c] = m THEN R[m] - 1 ELSE R[m]
    BY DEF Deref
  <2>2. m \in I \ F => R[m] > 0 \/ m \in W \ {n}
    BY <1>2 DEF ItemsMatch, I, W, R
  <2>3. CASE m \in F
    <3>1. Inside(I \ F, m) = {}
      BY <1>5, <2>3 DEF Inside
    <3>. QED
      BY <2>1, <2>3, <3>1, FS_EmptySet
  <2>4. CASE m \notin F /\ \E c \in F : Parent[c] = m
    <3>1. PICK c \in F : Parent[c] = m
      BY <2>4
    <3>2. m # NoNode /\ c \in I
      BY <1>3, <3>1, Forest
    <3>3. \A x \in F : Parent[x] = m => x = c
      BY <1>1, <1>2, <3>1, <3>2, ChainInjective
    <3>4. Inside(I \ F, m) = Inside(I, m) \ {c}
      BY <3>1, <3>3 DEF Inside
    <3>5. Cardinality(Inside(I, m) \ {c}) = Cardinality(Inside(I, m)) - 1
      <4>1. \A x \in I : Parent[x] = m => Cardinality(Inside(I, m) \ {x}) = Cardinality(Inside(I, m)) - 1
        BY <1>1, InsideCount, Zenon
      <4>. QED
        BY <3>1, <3>2, <4>1
    <3>6. Deref(R, F)[m] = R[m] - 1
      BY <2>1, <2>4
    <3>7. R[m] # 1 /\ R[m] \in Nat
      BY <1>1, <1>2, <2>4, <3>1, <3>2
    <3>8. R[m] = Cardinality(Inside(I, m))
      BY <1>4
    <3>9. m \in I \ F => Deref(R, F)[m] > 0 \/ m \in W \ {n}
      BY <2>2, <3>6, <3>7
    <3>. QED
      BY <3>4, <3>5, <3>6, <3>8, <3>9
  <2>5. CASE m \notin F /\ ~ \E c \in F : Parent[c] = m
    <3>1. Inside(I \ F, m) = Inside(I, m)
      BY <2>5 DEF Inside
    <3>. QED
      BY <1>4, <2>1, <2>2, <2>5, <3>1
  <2>. QED
    BY <2>3, <2>4, <2>5
<1>. QED
  BY <1>1, <1>2, <1>3, <1>5, <1>6 DEF Cleared, I, W, R

ItemsFreed(fg, n, F, fg1) ==
  /\ fg1 \in GroupType /\ ItemsMatch(fg1) /\ F \subseteq fg.items
  /\ fg1.todo = Tail(fg.todo) /\ ToSet(fg1.todo) = ToSet(fg.todo) \ {n}
  /\ fg1.items = fg.items \ F
  /\ fg1.flags = fg.flags /\ fg1.top = fg.top /\ fg1.dest = fg.dest

LEMMA FreeItems ==
  ASSUME NEW fg \in GroupType, ItemsMatch(fg), fg.todo # <<>>, NEW n, n = Head(fg.todo),
         NEW F, F = Freed(fg.refs, n),
         NEW fg1, fg1 = Cleaned(fg, F)
  PROVE  ItemsFreed(fg, n, F, fg1)
<1>. DEFINE R1 == Deref(fg.refs, F)
            I1 == fg.items \ F
            W1 == ToSet(Tail(fg.todo))
<1>1. /\ fg1.todo = Tail(fg.todo) /\ fg1.items = I1 /\ fg1.refs = R1
      /\ fg1.flags = fg.flags /\ fg1.top = fg.top /\ fg1.dest = fg.dest
  BY DEF GroupType, Cleaned
<1>2. /\ n \in Nodes /\ n \in fg.items /\ Parent[n] \notin ToSet(fg.todo)
      /\ Tail(fg.todo) \in Seq(Nodes) /\ IsInjective(Tail(fg.todo)) /\ W1 = ToSet(fg.todo) \ {n}
  BY HeadItem
<1>3. /\ F \subseteq fg.items /\ F \cap W1 = {}
      /\ \A m \in I1 : Parent[m] \notin F
      /\ \A m \in Nodes : R1[m] = Cardinality(Inside(I1, m))
      /\ \A m \in I1 : R1[m] > 0 \/ m \in W1
  <2>1. CASE fg.refs[n] = 0
    <3>1. Cleared(fg, F)
      BY <2>1, ClearItems
    <3>. QED
      BY <3>1 DEF Cleared
  <2>2. CASE fg.refs[n] # 0
    <3>1. F = {}
      BY <2>2 DEF Freed
    <3>2. I1 = fg.items /\ \A m \in Nodes : R1[m] = fg.refs[m]
      BY <3>1 DEF Deref
    <3>3. \A m \in I1 : R1[m] > 0 \/ m \in W1
      <4>1. \A m \in I1 : m \in Nodes /\ (fg.refs[m] > 0 \/ m \in ToSet(fg.todo))
        BY <3>2, GroupTyped DEF ItemsMatch
      <4>2. fg.refs[n] > 0
        BY <1>2, <2>2, GroupTyped
      <4>. QED
        BY <1>2, <3>2, <4>1, <4>2
    <3>4. \A m \in Nodes : R1[m] = Cardinality(Inside(I1, m))
      BY <3>2 DEF ItemsMatch, Inside
    <3>. QED
      BY <3>1, <3>3, <3>4
  <2>. QED
    BY <2>1, <2>2
<1>4. I1 \in SUBSET Nodes
  BY GroupTyped
<1>5. R1 \in [Nodes -> Nat]
  <2>1. \A m \in Nodes : R1[m] \in Nat
    <3>1. \A m : Cardinality(Inside(I1, m)) \in Nat
      BY <1>4, InsideCount, Zenon
    <3>. QED
      BY <1>3, <3>1
  <2>2. DOMAIN R1 = Nodes /\ R1 = [m \in Nodes |-> R1[m]]
    BY DEF Deref
  <2>. QED
    BY <2>1, <2>2
<1>6. fg1 \in GroupType
  BY <1>1, <1>2, <1>4, <1>5 DEF GroupType, Cleaned
<1>7. \A m \in I1 : m = fg.top \/ Parent[m] \in I1
  BY <1>3 DEF ItemsMatch
<1>8. \A m \in I1 : Parent[m] \in W1 => m \in W1
  BY <1>2 DEF ItemsMatch
<1>9. \A i, j \in DOMAIN fg1.todo : Parent[fg1.todo[j]] = fg1.todo[i] => i < j
  <2>1. SUFFICES ASSUME NEW i \in DOMAIN fg1.todo, NEW j \in DOMAIN fg1.todo,
                        Parent[fg1.todo[j]] = fg1.todo[i]
                 PROVE  i < j
    OBVIOUS
  <2>2. /\ i \in Nat /\ i + 1 \in DOMAIN fg.todo /\ fg1.todo[i] = fg.todo[i + 1]
        /\ j \in Nat /\ j + 1 \in DOMAIN fg.todo /\ fg1.todo[j] = fg.todo[j + 1]
    <3>1. fg.todo \in Seq(Nodes) /\ fg.todo # <<>>
      BY GroupTyped
    <3>2. \A k \in DOMAIN Tail(fg.todo) :
            k \in Nat /\ k + 1 \in DOMAIN fg.todo /\ Tail(fg.todo)[k] = fg.todo[k + 1]
      BY <3>1, PoppedQueue
    <3>3. i \in DOMAIN Tail(fg.todo) /\ j \in DOMAIN Tail(fg.todo) /\ fg1.todo = Tail(fg.todo)
      BY <1>1
    <3>. QED
      BY <3>2, <3>3
  <2>3. i + 1 < j + 1
    BY <2>1, <2>2 DEF ItemsMatch
  <2>. QED
    BY <2>2, <2>3
<1>10. "MOVE" \in fg.flags => I1 \subseteq {fg.top}
  BY DEF ItemsMatch
<1>11. W1 \subseteq I1
  BY <1>2, <1>3 DEF ItemsMatch
<1>. QED
  BY <1>1, <1>2, <1>3, <1>6, <1>7, <1>8, <1>9, <1>10, <1>11 DEF ItemsMatch, Inside, ItemsFreed

LEMMA RemovedQueue ==
  ASSUME NEW T, NEW q \in Seq(T), NEW i \in DOMAIN q, IsInjective(q), NEW r, r = RemoveAt(q, i)
  PROVE  r \in Seq(T) /\ IsInjective(r) /\ ToSet(r) = ToSet(q) \ {q[i]}
<1>. DEFINE n == Len(q)
            a == SubSeq(q, 1, i - 1)
            b == SubSeq(q, i + 1, n)
<1>1. n \in Nat /\ DOMAIN q = 1..n /\ i \in 1..n /\ \A k \in 1..n : q[k] \in T
  BY LenProperties, ElementOfSeq
<1>2. /\ a \in Seq(T) /\ Len(a) = i - 1 /\ \A k \in 1..i-1 : a[k] = q[k]
  <2>1. /\ a \in Seq(T) /\ Len(a) = IF 1 <= i - 1 THEN (i - 1) - 1 + 1 ELSE 0
        /\ \A k \in 1..(i - 1) - 1 + 1 : a[k] = q[1 + k - 1]
    BY <1>1, SubSeqProperties
  <2>2. Len(a) = i - 1
    BY <1>1, <2>1
  <2>3. ASSUME NEW k \in 1..i-1 PROVE a[k] = q[k]
    <3>1. k \in 1..(i - 1) - 1 + 1 /\ 1 + k - 1 = k
      BY <1>1
    <3>. QED
      BY <2>1, <3>1
  <2>. QED
    BY <2>1, <2>2, <2>3
<1>3. /\ b \in Seq(T) /\ Len(b) = n - i /\ \A k \in 1..n-i : b[k] = q[i + k]
  <2>1. /\ b \in Seq(T) /\ Len(b) = IF i + 1 <= n THEN n - (i + 1) + 1 ELSE 0
        /\ \A k \in 1..n - (i + 1) + 1 : b[k] = q[(i + 1) + k - 1]
    BY <1>1, SubSeqProperties
  <2>2. Len(b) = n - i
    BY <1>1, <2>1
  <2>3. ASSUME NEW k \in 1..n-i PROVE b[k] = q[i + k]
    <3>1. k \in 1..n - (i + 1) + 1 /\ (i + 1) + k - 1 = i + k
      BY <1>1
    <3>. QED
      BY <2>1, <3>1
  <2>. QED
    BY <2>1, <2>2, <2>3
<1>. HIDE DEF a, b
<1>4. /\ a \o b \in Seq(T) /\ Len(a \o b) = n - 1
      /\ \A k \in 1..n-1 : (a \o b)[k] = IF k < i THEN a[k] ELSE b[k - (i - 1)]
  <2>1. /\ a \o b \in Seq(T) /\ Len(a \o b) = Len(a) + Len(b)
        /\ \A k \in 1 .. Len(a) + Len(b) : (a \o b)[k] = IF k <= Len(a) THEN a[k] ELSE b[k - Len(a)]
    BY <1>2, <1>3, ConcatProperties
  <2>2. Len(a) + Len(b) = n - 1
    BY <1>1, <1>2, <1>3
  <2>3. \A k \in 1..n-1 : k <= Len(a) <=> k < i
    BY <1>1, <1>2
  <2>. QED
    BY <1>2, <2>1, <2>2, <2>3
<1>5. r = a \o b
  BY DEF RemoveAt, a, b
<1>6. r \in Seq(T) /\ DOMAIN r = 1..n-1
  <2>1. Len(r) = n - 1
    BY <1>4, <1>5
  <2>. QED
    BY <1>4, <1>5, <2>1, LenProperties
<1>7. ASSUME NEW k \in 1..n-1 PROVE r[k] = q[IF k < i THEN k ELSE k + 1]
  <2>2. CASE k < i
    <3>1. r[k] = a[k] /\ k \in 1..i-1
      BY <1>1, <1>4, <1>5, <2>2
    <3>. QED
      BY <1>2, <2>2, <3>1
  <2>3. CASE ~(k < i)
    <3>. DEFINE j == k - (i - 1)
    <3>1. r[k] = b[j] /\ j \in 1..n-i /\ i + j = k + 1
      BY <1>1, <1>4, <1>5, <2>3
    <3>. QED
      BY <1>3, <2>3, <3>1
  <2>. QED
    BY <2>2, <2>3
<1>8. \A k \in 1..n-1 : (IF k < i THEN k ELSE k + 1) \in 1..n \ {i}
  BY <1>1
<1>9. \A j \in 1..n \ {i} : \E k \in 1..n-1 : j = IF k < i THEN k ELSE k + 1
  <2>1. SUFFICES ASSUME NEW j \in 1..n \ {i} PROVE \E k \in 1..n-1 : j = IF k < i THEN k ELSE k + 1
    OBVIOUS
  <2>2. CASE j < i
    BY <1>1, <2>2
  <2>3. CASE j > i
    <3>1. j - 1 \in 1..n-1 /\ j = IF j - 1 < i THEN j - 1 ELSE (j - 1) + 1
      BY <1>1, <2>3
    <3>. QED
      BY <3>1
  <2>. QED
    BY <1>1, <2>2, <2>3
<1>10. ToSet(r) \subseteq ToSet(q) \ {q[i]}
  <2>1. ASSUME NEW k \in 1..n-1 PROVE r[k] \in ToSet(q) /\ r[k] # q[i]
    <3>1. PICK j \in 1..n \ {i} : r[k] = q[j]
      BY <1>7, <1>8
    <3>. QED
      BY <1>1, <3>1 DEF ToSet, IsInjective
  <2>. QED
    BY <1>6, <2>1 DEF ToSet
<1>11. ToSet(q) \ {q[i]} \subseteq ToSet(r)
  <2>1. ASSUME NEW j \in 1..n \ {i} PROVE q[j] \in ToSet(r)
    <3>1. PICK k \in 1..n-1 : j = IF k < i THEN k ELSE k + 1
      BY <1>9
    <3>2. r[k] = q[j]
      BY <1>7, <3>1
    <3>. QED
      BY <1>6, <3>2 DEF ToSet
  <2>. QED
    BY <1>1, <2>1 DEF ToSet
<1>12. IsInjective(r)
  <2>1. ASSUME NEW k \in 1..n-1, NEW m \in 1..n-1, r[k] = r[m] PROVE k = m
    <3>1. q[IF k < i THEN k ELSE k + 1] = q[IF m < i THEN m ELSE m + 1]
      BY <1>7, <2>1
    <3>2. (IF k < i THEN k ELSE k + 1) = (IF m < i THEN m ELSE m + 1)
      BY <1>1, <1>8, <3>1 DEF IsInjective
    <3>. QED
      BY <1>1, <3>2
  <2>. QED
    BY <1>6, <2>1 DEF IsInjective
<1>. QED
  BY <1>6, <1>10, <1>11, <1>12

-----------------------------------------------------------------------------
(* The invariant of the groups G, the walk w, the queue q and the job j.   *)
Frames == [dir : Dirs, rest : SUBSET Nodes]

Typed(G, w, q, j) ==
  /\ G \in Seq(GroupType) /\ q \in Seq(DOMAIN G) /\ j \in JobType
  /\ w \in [running : BOOLEAN, cancel : BOOLEAN, g : Nat, queue : Seq(DOMAIN G), stack : Seq(Frames)]

QueuesAt(G, w, q) ==
  /\ IsInjective(w.queue) /\ IsInjective(q) /\ ToSet(w.queue) \cap ToSet(q) = {}
  /\ \A g \in ToSet(w.queue) :
       /\ "MOVE" \notin G[g].flags
       /\ Untouched(G[g]) \/ (w.running /\ g = w.g)
  /\ \A g \in ToSet(q) : G[g].todo # <<>>

FramesAt(fg, stack) ==
  \A i \in DOMAIN stack :
    /\ stack[i].dir \in fg.items /\ stack[i].rest \subseteq Children(stack[i].dir) \ fg.items
    /\ \A k \in DOMAIN stack : stack[k].dir = stack[i].dir => i = k

WalkAt(G, w) ==
  w.running => /\ w.g \in ToSet(w.queue) /\ G[w.g].items = ToSet(G[w.g].todo) /\ G[w.g].todo # <<>>
               /\ FramesAt(G[w.g], w.stack)

CountsAt(j) ==
  /\ j.pc \in {"stat_src", "stat_dst", "scan", "mk_dest", "do_copy"} => j.opencnt = 0
  /\ j.pc = "open" => j.opencnt = 0 \/ (j.opencnt = 1 /\ j.opening # {"f1", "f2"})
  /\ j.pc = "send" => j.opencnt = 2 /\ j.offset < Chunks
  /\ j.pc \notin {"send", "close"} => j.offset = 0

JobAt(G, q, j) ==
  /\ j.running <=> j.pc # "idle"
  /\ j.running => q # <<>> /\ j.g = Head(q) /\ j.cur = Head(G[j.g].todo)
  /\ j.pc = "mk_dest" => "MOVE" \in G[j.g].flags
  /\ CountsAt(j)

Core(G, w, q, j) ==
  /\ Typed(G, w, q, j) /\ QueuesAt(G, w, q) /\ WalkAt(G, w) /\ JobAt(G, q, j)
  /\ \A g \in DOMAIN G : ItemsMatch(G[g])

RestTyped ==
  /\ disk \in [Nodes -> [Places -> {"none", "part", "whole", "other"}]]
  /\ others \in [removed : SUBSET Nodes, count : 0..MaxOthers]
  /\ starts \in Nat

LEMMA CoreIsIInv == IInv <=> RestTyped /\ Core(groups, ftw, fq, job)
<1>1. TypeOK <=> RestTyped /\ Typed(groups, ftw, fq, job)
  BY DEF TypeOK, RestTyped, Typed, Gs, Frames
<1>2. QueuesMatch <=> QueuesAt(groups, ftw, fq)
  BY DEF QueuesMatch, QueuesAt
<1>3. WalkMatches <=> WalkAt(groups, ftw)
  BY DEF WalkMatches, WalkAt, FramesAt
<1>4. JobMatches <=> JobAt(groups, fq, job)
  BY DEF JobMatches, JobAt, CountsAt, Fg
<1>. QED
  BY <1>1, <1>2, <1>3, <1>4 DEF IInv, Core, Gs

LEMMA SubSequence ==
  ASSUME NEW S, NEW T, S \subseteq T, NEW q \in Seq(S)
  PROVE  q \in Seq(T)
<1>1. Len(q) \in Nat /\ q \in [1..Len(q) -> S]
  BY LenProperties
<1>2. q \in [1..Len(q) -> T]
  BY <1>1
<1>. QED
  BY <1>1, <1>2, SeqDef

(* What the queues hold are groups.                                        *)
LEMMA CoreFacts ==
  ASSUME NEW G, NEW w, NEW q, NEW j, Core(G, w, q, j)
  PROVE  /\ G \in Seq(GroupType) /\ DOMAIN G \subseteq Nat
         /\ \A g \in DOMAIN G : G[g] \in GroupType
         /\ ToSet(w.queue) \subseteq DOMAIN G /\ ToSet(q) \subseteq DOMAIN G
         /\ w.running => w.g \in DOMAIN G
         /\ j.running => /\ j.g \in DOMAIN G /\ j.g \in ToSet(q) /\ j.g \notin ToSet(w.queue)
                         /\ G[j.g].todo # <<>>
<1>1. /\ G \in Seq(GroupType) /\ q \in Seq(DOMAIN G) /\ w.queue \in Seq(DOMAIN G)
  BY DEF Core, Typed
<1>2. DOMAIN G \subseteq Nat /\ \A g \in DOMAIN G : G[g] \in GroupType
  BY <1>1, LenProperties, ElementOfSeq
<1>3. ASSUME NEW s \in Seq(DOMAIN G) PROVE ToSet(s) \subseteq DOMAIN G
  BY LenProperties, ElementOfSeq DEF ToSet
<1>4. ToSet(w.queue) \subseteq DOMAIN G /\ ToSet(q) \subseteq DOMAIN G
  BY <1>1, <1>3
<1>5. w.running => w.g \in DOMAIN G
  BY <1>4 DEF Core, WalkAt
<1>6. j.running => j.g \in ToSet(q)
  <2>1. j.running => q # <<>> /\ j.g = Head(q)
    BY DEF Core, JobAt
  <2>2. q # <<>> => Head(q) \in ToSet(q)
    BY <1>1, PoppedQueue
  <2>. QED
    BY <2>1, <2>2
<1>. QED
  BY <1>1, <1>2, <1>4, <1>5, <1>6 DEF Core, QueuesAt

(* A new group.                                                            *)
Added(G1, w, q, j, g, x) ==
  /\ Core(G1, w, q, j)
  /\ g \in DOMAIN G1 /\ G1[g] = x /\ g \notin ToSet(w.queue) /\ g \notin ToSet(q)

LEMMA AddGroup ==
  ASSUME NEW G, NEW w, NEW q, NEW j, Core(G, w, q, j), NEW x \in GroupType, ItemsMatch(x),
         NEW G1, G1 = Append(G, x), NEW g, g = Len(G) + 1
  PROVE  Added(G1, w, q, j, g, x)
<1>1. /\ G \in Seq(GroupType) /\ ToSet(w.queue) \subseteq DOMAIN G /\ ToSet(q) \subseteq DOMAIN G
      /\ w.running => w.g \in DOMAIN G
      /\ j.running => j.g \in DOMAIN G
  BY CoreFacts
<1>2. /\ G1 \in Seq(GroupType) /\ DOMAIN G1 = DOMAIN G \cup {g} /\ G1[g] = x
      /\ \A h \in DOMAIN G : h \in Nat /\ h < g /\ G1[h] = G[h]
  BY <1>1, AppendedQueue
<1>3. g \notin DOMAIN G
  BY <1>2
<1>4. Typed(G1, w, q, j)
  <2>1. q \in Seq(DOMAIN G1) /\ w.queue \in Seq(DOMAIN G1)
    BY <1>2, SubSequence DEF Core, Typed
  <2>. QED
    BY <1>2, <2>1 DEF Core, Typed
<1>5. QueuesAt(G1, w, q)
  BY <1>1, <1>2 DEF Core, QueuesAt
<1>6. WalkAt(G1, w)
  BY <1>1, <1>2 DEF Core, WalkAt
<1>7. JobAt(G1, q, j)
  BY <1>1, <1>2 DEF Core, JobAt
<1>8. \A h \in DOMAIN G1 : ItemsMatch(G1[h])
  BY <1>2 DEF Core
<1>. QED
  BY <1>1, <1>2, <1>3, <1>4, <1>5, <1>6, <1>7, <1>8 DEF Core, Added

FlagSets == SUBSET {"MOVE", "COPY", "UNLINK", "ERROR"}

Fresh(x, n, flags, dest) ==
  /\ x \in GroupType /\ ItemsMatch(x) /\ Untouched(x) /\ x.todo # <<>>
  /\ x.top = n /\ x.flags = flags /\ x.todo = << n >> /\ x.items = {n} /\ x.dest[n] = dest
  /\ \A m \in Nodes \ {n} : x.dest[m] = NoDest

LEMMA NewGroup ==
  ASSUME NEW n \in Tops, NEW flags \in FlagSets,
         NEW dest \in Places \cup {NoDest}, NEW x, x = Group(n, flags, dest)
  PROVE  Fresh(x, n, flags, dest)
<1>1. /\ x.flags = flags /\ x.top = n /\ x.todo = << n >> /\ x.items = {n}
      /\ x.refs = [m \in Nodes |-> 0]
      /\ x.dest = [m \in Nodes |-> IF m = n THEN dest ELSE NoDest]
  BY DEF Group
<1>2. n \in Nodes /\ Parent[n] = NoNode
  BY DEF Tops
<1>3. x \in GroupType
  BY <1>1, <1>2 DEF Group, GroupType, FlagSets
<1>4. ToSet(x.todo) = {n} /\ IsInjective(x.todo) /\ DOMAIN x.todo = {1} /\ x.todo[1] = n
  BY <1>1, <1>2 DEF ToSet, IsInjective
<1>5. \A m \in Nodes : x.refs[m] = Cardinality({c \in x.items : Parent[c] = m})
  <2>1. \A m \in Nodes : {c \in x.items : Parent[c] = m} = {}
    BY <1>1, <1>2, Forest
  <2>. QED
    BY <1>1, <2>1, FS_EmptySet
<1>6. Parent[n] # n
  BY <1>2, Forest
<1>7. ItemsMatch(x)
  BY <1>1, <1>2, <1>4, <1>5, <1>6, Forest DEF ItemsMatch
<1>. QED
  BY <1>1, <1>2, <1>3, <1>7 DEF Untouched, Fresh

LEMMA NewJob ==
  ASSUME NEW g \in Nat, NEW n \in Nodes, NEW j, j = JobOf(g, n)
  PROVE  /\ j \in JobType /\ j.running /\ j.pc = "stat_src" /\ j.g = g /\ j.cur = n
         /\ j.opencnt = 0 /\ j.offset = 0
<1>1. 0 \in 0..Chunks /\ 0 \in 0..2
  BY FileAssumption
<1>. QED
  BY <1>1 DEF JobType, JobOf

(* file_start takes the first item of the first group.                     *)
LEMMA StartJob ==
  ASSUME NEW G, NEW w, NEW q, NEW j, Core(G, w, q, j)
  PROVE  Core(G, w, q, Started(G, q, j))
<1>1. CASE j.running \/ q = <<>>
  BY <1>1 DEF Started
<1>2. CASE ~j.running /\ q # <<>>
  <2>1. PICK j1 : j1 = JobOf(Head(q), Head(G[Head(q)].todo))
    OBVIOUS
  <2>2. q \in Seq(DOMAIN G) /\ G \in Seq(GroupType) /\ \A g \in DOMAIN G : g \in Nat /\ G[g] \in GroupType
    BY CoreFacts DEF Core, Typed
  <2>3. Head(q) \in DOMAIN G /\ Head(q) \in ToSet(q)
    BY <1>2, <2>2, PoppedQueue
  <2>4. G[Head(q)].todo # <<>> /\ G[Head(q)].todo \in Seq(Nodes)
    BY <2>2, <2>3, GroupTyped DEF Core, QueuesAt
  <2>5. Head(G[Head(q)].todo) \in Nodes
    BY <2>4, PoppedQueue
  <2>6. /\ j1.running /\ j1.pc = "stat_src" /\ j1.g = Head(q) /\ j1.cur = Head(G[Head(q)].todo)
        /\ j1 \in JobType /\ j1.opencnt = 0 /\ j1.offset = 0
    <3>1. Head(q) \in Nat
      BY <2>2, <2>3
    <3>. QED
      BY <2>1, <2>5, <3>1, NewJob
  <2>7. JobAt(G, q, j1)
    BY <1>2, <2>6 DEF JobAt, CountsAt
  <2>. QED
    <3>1. Started(G, q, j) = j1
      BY <1>2, <2>1 DEF Started
    <3>2. Core(G, w, q, j1)
      BY <2>6, <2>7 DEF Core, Typed
    <3>. QED
      BY <3>1, <3>2
<1>. QED
  BY <1>1, <1>2

(* file_push.                                                              *)
LEMMA PushJob ==
  ASSUME NEW G, NEW w, NEW q, NEW j, Core(G, w, q, j),
         NEW g \in DOMAIN G, g \notin ToSet(w.queue), g \notin ToSet(q), G[g].todo # <<>>
  PROVE  Core(G, w, Append(q, g), Started(G, Append(q, g), j))
<1>. DEFINE q1 == Append(q, g)
<1>1. q \in Seq(DOMAIN G)
  BY DEF Core, Typed
<1>2. /\ q1 \in Seq(DOMAIN G) /\ q1 # <<>> /\ ToSet(q1) = ToSet(q) \cup {g}
      /\ Head(q1) = IF q = <<>> THEN g ELSE Head(q)
      /\ IsInjective(q) => IsInjective(q1)
  BY <1>1, AppendedQueue
<1>. HIDE DEF q1
<1>3. QueuesAt(G, w, q1)
  BY <1>2 DEF Core, QueuesAt
<1>4. JobAt(G, q1, j)
  BY <1>2 DEF Core, JobAt
<1>5. Core(G, w, q1, j)
  BY <1>2, <1>3, <1>4 DEF Core, Typed
<1>6. Core(G, w, q1, Started(G, q1, j))
  BY <1>5, StartJob
<1>. QED
  BY <1>6 DEF q1

(* Whoever asks for a group, the walk begins with the first one.           *)
LEMMA PushWalk ==
  ASSUME NEW G, NEW q, NEW j, Core(G, ftw, q, j), NEW D,
         NEW s \in Seq(DOMAIN G), NEW g \in DOMAIN G, s # <<>>, IsInjective(s),
         ToSet(s) = ToSet(ftw.queue) \cup {g},
         g \notin ToSet(ftw.queue), g \notin ToSet(q), Untouched(G[g]), "MOVE" \notin G[g].flags
  PROVE  Core(G, Walking(G, s, D), q, j)
<1>. DEFINE w1 == Walking(G, s, D)
            h  == Head(s)
<1>1. /\ ToSet(ftw.queue) \cap ToSet(q) = {} /\ IsInjective(q)
      /\ \A x \in ToSet(ftw.queue) :
           /\ "MOVE" \notin G[x].flags
           /\ Untouched(G[x]) \/ (ftw.running /\ x = ftw.g)
      /\ \A x \in ToSet(q) : G[x].todo # <<>>
  BY DEF Core, QueuesAt
<1>2. /\ ftw \in [running : BOOLEAN, cancel : BOOLEAN, g : Nat, queue : Seq(DOMAIN G), stack : Seq(Frames)]
      /\ G \in Seq(GroupType) /\ q \in Seq(DOMAIN G) /\ j \in JobType
  BY DEF Core, Typed
<1>3. CASE ftw.running
  <2>1. w1 = [ftw EXCEPT !.queue = s]
    BY <1>3 DEF Walking
  <2>2. /\ w1.running /\ w1.g = ftw.g /\ w1.queue = s /\ w1.stack = ftw.stack
        /\ w1 \in [running : BOOLEAN, cancel : BOOLEAN, g : Nat, queue : Seq(DOMAIN G), stack : Seq(Frames)]
    BY <1>2, <1>3, <2>1
  <2>. HIDE DEF w1
  <2>3. QueuesAt(G, w1, q)
    BY <1>1, <2>2 DEF QueuesAt
  <2>4. WalkAt(G, w1)
    BY <1>3, <2>2 DEF Core, WalkAt
  <2>. QED
    BY <1>2, <2>2, <2>3, <2>4 DEF Core, Typed, w1
<1>4. CASE ~ftw.running
  <2>. DEFINE n == G[h].top
              st == IF n \in Dirs /\ Has(D, n, Origin)
                    THEN << [dir |-> n, rest |-> Children(n)] >> ELSE <<>>
  <2>1. w1 = [running |-> TRUE, cancel |-> FALSE, g |-> h, queue |-> s, stack |-> st]
    BY <1>4 DEF Walking, WalkOf
  <2>2. h \in DOMAIN G /\ h \in ToSet(s) /\ h \in Nat /\ G[h] \in GroupType
    <3>1. h \in DOMAIN G /\ h \in ToSet(s)
      BY PoppedQueue
    <3>. QED
      BY <3>1, CoreFacts
  <2>3. Untouched(G[h])
    BY <1>1, <1>4, <2>2
  <2>4. G[h].todo = << n >> /\ G[h].items = {n} /\ n \in Nodes
    BY <2>2, <2>3, GroupTyped DEF Untouched
  <2>5. ToSet(G[h].todo) = {n} /\ G[h].todo # <<>>
    BY <2>4 DEF ToSet
  <2>6. Children(n) \in SUBSET Nodes /\ n \notin Children(n)
    BY Forest, <2>2, GroupTyped DEF Children
  <2>7. /\ st \in Seq(Frames) /\ FramesAt(G[h], st)
    <3>1. CASE n \in Dirs /\ Has(D, n, Origin)
      <4>. DEFINE fr == [dir |-> n, rest |-> Children(n)]
      <4>1. st = << fr >> /\ fr \in Frames /\ fr.dir = n /\ fr.rest = Children(n)
        BY <2>6, <3>1 DEF Frames
      <4>. HIDE DEF fr
      <4>2. DOMAIN st = {1} /\ st[1] = fr /\ st \in Seq(Frames)
        BY <4>1
      <4>. QED
        BY <2>4, <2>6, <4>1, <4>2 DEF FramesAt
    <3>2. CASE ~(n \in Dirs /\ Has(D, n, Origin))
      <4>1. st = <<>>
        BY <3>2
      <4>2. DOMAIN st = {} /\ st \in Seq(Frames)
        BY <4>1
      <4>. QED
        BY <4>2 DEF FramesAt
    <3>. QED
      BY <3>1, <3>2
  <2>. HIDE DEF st
  <2>8. /\ w1.running /\ w1.g = h /\ w1.queue = s /\ w1.stack = st
        /\ w1 \in [running : BOOLEAN, cancel : BOOLEAN, g : Nat, queue : Seq(DOMAIN G), stack : Seq(Frames)]
    BY <2>1, <2>2, <2>7
  <2>. HIDE DEF w1, h, n
  <2>9. QueuesAt(G, w1, q)
    BY <1>1, <1>4, <2>8 DEF QueuesAt
  <2>10. WalkAt(G, w1)
    BY <2>2, <2>4, <2>5, <2>7, <2>8 DEF WalkAt
  <2>. QED
    BY <1>2, <2>8, <2>9, <2>10 DEF Core, Typed, w1
<1>. QED
  BY <1>3, <1>4

(* The end of a walk.                                                      *)
LEMMA EndWalk ==
  ASSUME NEW G, NEW w, NEW q, NEW j, Core(G, w, q, j), w.running,
         NEW i \in DOMAIN w.queue, w.queue[i] = w.g,
         NEW w1, w1 = NoWalk(RemoveAt(w.queue, i))
  PROVE  /\ Core(G, w1, q, j)
         /\ w.g \in DOMAIN G /\ w.g \notin ToSet(w1.queue) /\ w.g \notin ToSet(q) /\ G[w.g].todo # <<>>
<1>. DEFINE r == RemoveAt(w.queue, i)
<1>1. w.queue \in Seq(DOMAIN G) /\ IsInjective(w.queue)
  BY DEF Core, Typed, QueuesAt
<1>2. r \in Seq(DOMAIN G) /\ IsInjective(r) /\ ToSet(r) = ToSet(w.queue) \ {w.g}
  BY <1>1, RemovedQueue
<1>. HIDE DEF r
<1>3. w1 = [running |-> FALSE, cancel |-> FALSE, g |-> 0, queue |-> r, stack |-> <<>>]
  BY DEF NoWalk, r
<1>4. /\ ~w1.running /\ w1.queue = r
      /\ w1 \in [running : BOOLEAN, cancel : BOOLEAN, g : Nat, queue : Seq(DOMAIN G), stack : Seq(Frames)]
  <2>1. << >> \in Seq(Frames) /\ 0 \in Nat
    OBVIOUS
  <2>2. w1 \in [running : BOOLEAN, cancel : BOOLEAN, g : Nat, queue : Seq(DOMAIN G), stack : Seq(Frames)]
    <3>. DEFINE T == Seq(DOMAIN G)
                U == Seq(Frames)
    <3>1. r \in T /\ << >> \in U
      BY <1>2, <2>1
    <3>. HIDE DEF T, U
    <3>2. w1 \in [running : BOOLEAN, cancel : BOOLEAN, g : Nat, queue : T, stack : U]
      BY <1>3, <2>1, <3>1
    <3>. QED
      BY <3>2 DEF T, U
  <2>3. ~w1.running /\ w1.queue = r
    BY <1>3
  <2>. QED
    BY <2>2, <2>3
<1>5. QueuesAt(G, w1, q)
  BY <1>2, <1>4 DEF Core, QueuesAt
<1>6. WalkAt(G, w1)
  BY <1>4 DEF WalkAt
<1>7. Core(G, w1, q, j)
  BY <1>4, <1>5, <1>6 DEF Core, Typed
<1>8. w.g \in ToSet(w.queue) /\ w.g \in DOMAIN G /\ G[w.g].todo # <<>>
  BY CoreFacts DEF Core, WalkAt
<1>9. w.g \notin ToSet(q)
  BY <1>8 DEF Core, QueuesAt
<1>. QED
  BY <1>2, <1>4, <1>7, <1>8, <1>9

(* The stack of directories.                                               *)
LEMMA Stack ==
  ASSUME NEW st \in Seq(Frames), st # <<>>, NEW L, L = Len(st), NEW back, back = SubSeq(st, 1, L - 1)
  PROVE  /\ L \in DOMAIN st /\ DOMAIN st = 1..L /\ L \in Nat \ {0} /\ st[L] \in Frames
         /\ back \in Seq(Frames) /\ DOMAIN back = 1..L-1 /\ \A k \in 1..L-1 : back[k] = st[k]
         /\ \A fr \in Frames :
              LET here == Append(back, fr) IN
              /\ here \in Seq(Frames) /\ DOMAIN here = 1..L /\ here[L] = fr
              /\ \A k \in 1..L-1 : here[k] = st[k]
<1>1. L \in Nat \ {0} /\ DOMAIN st = 1..L /\ \A k \in 1..L : st[k] \in Frames
  BY LenProperties, EmptySeq, ElementOfSeq
<1>2. /\ back \in Seq(Frames) /\ Len(back) = L - 1 /\ \A k \in 1..L-1 : back[k] = st[k]
  <2>1. /\ back \in Seq(Frames) /\ Len(back) = IF 1 <= L - 1 THEN (L - 1) - 1 + 1 ELSE 0
        /\ \A k \in 1..(L - 1) - 1 + 1 : back[k] = st[1 + k - 1]
    BY <1>1, SubSeqProperties
  <2>2. Len(back) = L - 1
    BY <1>1, <2>1
  <2>3. ASSUME NEW k \in 1..L-1 PROVE back[k] = st[k]
    <3>1. k \in 1..(L - 1) - 1 + 1 /\ 1 + k - 1 = k
      BY <1>1
    <3>. QED
      BY <2>1, <3>1
  <2>. QED
    BY <2>1, <2>2, <2>3
<1>3. DOMAIN back = 1..L-1
  BY <1>2, LenProperties
<1>4. ASSUME NEW fr \in Frames, NEW here, here = Append(back, fr)
      PROVE  /\ here \in Seq(Frames) /\ DOMAIN here = 1..L /\ here[L] = fr
             /\ \A k \in 1..L-1 : here[k] = st[k]
  <2>1. /\ here \in Seq(Frames) /\ Len(here) = Len(back) + 1
        /\ \A k \in 1..Len(back) : here[k] = back[k]
        /\ here[Len(back) + 1] = fr
    BY <1>2, <1>4, AppendProperties
  <2>2. Len(here) = L
    BY <1>1, <1>2, <2>1
  <2>. QED
    BY <1>1, <1>2, <2>1, <2>2, LenProperties
<1>. QED
  BY <1>1, <1>2, <1>3, <1>4

Entered(n) == [dir |-> n, rest |-> Children(n)]

(* do_ftw, of an entry n of the directory it is in: the frames that are    *)
(* left have items, and no item of what they have still to look at.        *)
HereAt(back, top, n) == Append(back, [top EXCEPT !.rest = @ \ {n}])

FramesKept(fg, top, back) ==
  /\ back \in Seq(Frames) /\ FramesAt(fg, back)
  /\ \A n \in top.rest :
       /\ n \in Nodes \ fg.items /\ Parent[n] \in fg.items
       /\ HereAt(back, top, n) \in Seq(Frames) /\ FramesAt(fg, HereAt(back, top, n))
       /\ \A fg1 : fg1.items = fg.items \cup {n} =>
            /\ FramesAt(fg1, HereAt(back, top, n))
            /\ n \in Dirs => /\ Append(HereAt(back, top, n), Entered(n)) \in Seq(Frames)
                             /\ FramesAt(fg1, Append(HereAt(back, top, n), Entered(n)))

LEMMA WalkFrames ==
  ASSUME NEW fg \in GroupType, ItemsMatch(fg), NEW st \in Seq(Frames), st # <<>>, FramesAt(fg, st),
         NEW L, L = Len(st), NEW back, back = SubSeq(st, 1, L - 1)
  PROVE  FramesKept(fg, st[L], back)
<1>. SUFFICES /\ back \in Seq(Frames) /\ FramesAt(fg, back)
              /\ \A n \in st[L].rest :
                   LET here == Append(back, [st[L] EXCEPT !.rest = @ \ {n}]) IN
                   /\ n \in Nodes \ fg.items /\ Parent[n] \in fg.items
                   /\ here \in Seq(Frames) /\ FramesAt(fg, here)
                   /\ \A fg1 : fg1.items = fg.items \cup {n} =>
                        /\ FramesAt(fg1, here)
                        /\ n \in Dirs => /\ Append(here, Entered(n)) \in Seq(Frames)
                                         /\ FramesAt(fg1, Append(here, Entered(n)))
  BY DEF FramesKept, HereAt
<1>1. /\ L \in DOMAIN st /\ DOMAIN st = 1..L /\ L \in Nat \ {0} /\ st[L] \in Frames
      /\ back \in Seq(Frames) /\ DOMAIN back = 1..L-1 /\ \A k \in 1..L-1 : back[k] = st[k]
      /\ \A fr \in Frames :
           LET here == Append(back, fr) IN
           /\ here \in Seq(Frames) /\ DOMAIN here = 1..L /\ here[L] = fr
           /\ \A k \in 1..L-1 : here[k] = st[k]
  BY Stack
<1>2. \A k \in 1..L : /\ st[k].dir \in fg.items /\ st[k].rest \subseteq Children(st[k].dir) \ fg.items
                      /\ \A l \in 1..L : st[l].dir = st[k].dir => k = l
  BY <1>1 DEF FramesAt
<1>3. FramesAt(fg, back)
  BY <1>1, <1>2 DEF FramesAt
<1>4. ASSUME NEW n \in st[L].rest, NEW here, here = Append(back, [st[L] EXCEPT !.rest = @ \ {n}])
      PROVE  /\ n \in Nodes \ fg.items /\ Parent[n] \in fg.items
             /\ here \in Seq(Frames) /\ FramesAt(fg, here)
             /\ \A fg1 : fg1.items = fg.items \cup {n} =>
                  /\ FramesAt(fg1, here)
                  /\ n \in Dirs => /\ Append(here, Entered(n)) \in Seq(Frames)
                                   /\ FramesAt(fg1, Append(here, Entered(n)))
  <2>. DEFINE fr == [st[L] EXCEPT !.rest = @ \ {n}]
  <2>1. fr \in Frames /\ fr.dir = st[L].dir /\ fr.rest = st[L].rest \ {n}
    BY <1>1 DEF Frames
  <2>. HIDE DEF fr
  <2>2. /\ here \in Seq(Frames) /\ DOMAIN here = 1..L /\ here[L] = fr
        /\ \A k \in 1..L-1 : here[k] = st[k]
    BY <1>1, <1>4, <2>1 DEF fr
  <2>3. n \in Nodes \ fg.items /\ Parent[n] = st[L].dir /\ Parent[n] \in fg.items /\ Parent[n] # n
    BY <1>1, <1>2, <1>4 DEF Children
  <2>4. \A k \in 1..L : /\ here[k].dir = st[k].dir /\ here[k].rest \subseteq st[k].rest
                        /\ n \notin here[k].rest
    <3>1. ASSUME NEW k \in 1..L-1 PROVE n \notin st[k].rest
      <4>1. k \in 1..L /\ L \in 1..L /\ k # L
        BY <1>1
      <4>2. st[k].dir # st[L].dir
        BY <1>2, <4>1
      <4>. QED
        BY <1>2, <2>3, <4>1, <4>2 DEF Children
    <3>2. \A k \in 1..L : k = L \/ k \in 1..L-1
      BY <1>1
    <3>. QED
      BY <2>1, <2>2, <3>1, <3>2
  <2>5. \A k \in 1..L : /\ here[k].dir \in fg.items
                        /\ here[k].rest \subseteq Children(here[k].dir) \ (fg.items \cup {n})
                        /\ \A l \in 1..L : here[l].dir = here[k].dir => k = l
    BY <1>2, <2>4
  <2>6. FramesAt(fg, here)
    BY <2>2, <2>5 DEF FramesAt
  <2>7. ASSUME NEW fg1, fg1.items = fg.items \cup {n}
        PROVE  /\ FramesAt(fg1, here)
               /\ n \in Dirs => /\ Append(here, Entered(n)) \in Seq(Frames)
                                /\ FramesAt(fg1, Append(here, Entered(n)))
    <3>1. FramesAt(fg1, here)
      BY <2>2, <2>5, <2>7 DEF FramesAt
    <3>2. ASSUME n \in Dirs
          PROVE  /\ Append(here, Entered(n)) \in Seq(Frames)
                 /\ FramesAt(fg1, Append(here, Entered(n)))
      <4>. DEFINE st1 == Append(here, Entered(n))
      <4>1. /\ Entered(n) \in Frames /\ Entered(n).dir = n /\ Entered(n).rest = Children(n)
        BY <3>2 DEF Entered, Frames, Children
      <4>2. Len(here) = L
        BY <1>1, <2>2, LenProperties
      <4>3. /\ st1 \in Seq(Frames) /\ DOMAIN st1 = (1..L) \cup {L + 1} /\ st1[L + 1] = Entered(n)
            /\ \A k \in 1..L : st1[k] = here[k]
        BY <2>2, <4>1, <4>2, AppendedQueue
      <4>. HIDE DEF st1
      <4>4. Children(n) \cap fg1.items = {}
        <5>1. ASSUME NEW c \in fg1.items, Parent[c] = n PROVE FALSE
          <6>1. c \in fg.items
            BY <2>3, <2>7, <5>1
          <6>2. c = fg.top \/ n \in fg.items
            BY <5>1, <6>1 DEF ItemsMatch
          <6>. QED
            BY <2>3, <5>1, <6>2, GroupTyped, Forest
        <5>. QED
          BY <5>1 DEF Children
      <4>5. FramesAt(fg1, st1)
        <5>1. ASSUME NEW k \in (1..L) \cup {L + 1}
              PROVE  /\ st1[k].dir \in fg1.items /\ st1[k].rest \subseteq Children(st1[k].dir) \ fg1.items
                     /\ \A l \in (1..L) \cup {L + 1} : st1[l].dir = st1[k].dir => k = l
          <6>1. \A l \in 1..L : st1[l].dir # n
            BY <2>3, <2>5, <4>3
          <6>2. CASE k = L + 1
            BY <2>7, <4>1, <4>3, <4>4, <6>1, <6>2
          <6>3. CASE k \in 1..L
            <7>1. st1[k] = here[k] /\ \A l \in 1..L : st1[l] = here[l]
              BY <4>3, <6>3
            <7>2. st1[k].dir \in fg1.items /\ st1[k].rest \subseteq Children(st1[k].dir) \ fg1.items
              BY <2>5, <2>7, <6>3, <7>1
            <7>3. st1[L + 1].dir # st1[k].dir
              BY <4>1, <4>3, <6>1, <6>3
            <7>4. \A l \in 1..L : st1[l].dir = st1[k].dir => k = l
              BY <2>5, <6>3, <7>1
            <7>. QED
              BY <7>2, <7>3, <7>4
          <6>. QED
            BY <6>2, <6>3
        <5>. QED
          BY <4>3, <5>1 DEF FramesAt
      <4>. QED
        BY <4>3, <4>5 DEF st1
    <3>. QED
      BY <3>1, <3>2
  <2>. QED
    BY <2>2, <2>3, <2>6, <2>7
<1>. QED
  BY <1>1, <1>3, <1>4

-----------------------------------------------------------------------------
(* A group changes.                                                        *)
LEMMA GroupSet ==
  ASSUME NEW G \in Seq(GroupType), NEW g \in DOMAIN G, NEW x \in GroupType,
         NEW G1, G1 = [G EXCEPT ![g] = x]
  PROVE  /\ G1 \in Seq(GroupType) /\ DOMAIN G1 = DOMAIN G /\ Len(G1) = Len(G) /\ G1[g] = x
         /\ \A h \in DOMAIN G : h # g => G1[h] = G[h]
<1>1. g \in 1..Len(G) /\ DOMAIN G = 1..Len(G)
  BY LenProperties
<1>2. /\ G1 \in Seq(GroupType) /\ Len(G1) = Len(G)
      /\ \A i \in 1..Len(G) : G1[i] = IF i = g THEN x ELSE G[i]
  BY <1>1, ExceptSeq
<1>3. DOMAIN G1 = DOMAIN G
  BY <1>1
<1>. QED
  BY <1>1, <1>2, <1>3

(* Destinations and flags are of no account for items and queues.          *)
LEMMA Mark ==
  ASSUME NEW G, NEW w, NEW q, NEW j, Core(G, w, q, j), NEW g \in DOMAIN G, NEW x \in GroupType,
         x.todo = G[g].todo, x.items = G[g].items, x.refs = G[g].refs, x.top = G[g].top,
         "MOVE" \in x.flags <=> "MOVE" \in G[g].flags,
         NEW G1, G1 = [G EXCEPT ![g] = x]
  PROVE  Core(G1, w, q, j)
<1>1. /\ G1 \in Seq(GroupType) /\ DOMAIN G1 = DOMAIN G /\ G1[g] = x
      /\ \A h \in DOMAIN G : h # g => G1[h] = G[h]
  BY GroupSet DEF Core, Typed
<1>2. \A h \in DOMAIN G : /\ G1[h].todo = G[h].todo /\ G1[h].items = G[h].items
                          /\ G1[h].refs = G[h].refs /\ G1[h].top = G[h].top
                          /\ "MOVE" \in G1[h].flags <=> "MOVE" \in G[h].flags
  BY <1>1
<1>3. /\ ToSet(w.queue) \subseteq DOMAIN G /\ ToSet(q) \subseteq DOMAIN G
      /\ w.running => w.g \in DOMAIN G
      /\ j.running => j.g \in DOMAIN G
  BY CoreFacts
<1>4. Typed(G1, w, q, j)
  BY <1>1 DEF Core, Typed
<1>5. QueuesAt(G1, w, q)
  BY <1>2, <1>3 DEF Core, QueuesAt, Untouched
<1>6. WalkAt(G1, w)
  BY <1>2, <1>3 DEF Core, WalkAt, FramesAt
<1>7. JobAt(G1, q, j)
  BY <1>2, <1>3 DEF Core, JobAt
<1>8. \A h \in DOMAIN G1 : ItemsMatch(G1[h])
  <2>1. ASSUME NEW h \in DOMAIN G PROVE ItemsMatch(G1[h])
    <3>1. ItemsMatch(G[h])
      BY DEF Core
    <3>. QED
      BY <1>2, <3>1 DEF ItemsMatch
  <2>. QED
    BY <1>1, <2>1
<1>. QED
  BY <1>4, <1>5, <1>6, <1>7, <1>8 DEF Core

(* The job goes on with the item it has.                                   *)
LEMMA MoveOn ==
  ASSUME NEW G, NEW w, NEW q, NEW j, Core(G, w, q, j), j.running, NEW j1 \in JobType,
         j1.running, j1.pc # "idle", j1.g = j.g, j1.cur = j.cur,
         j1.pc = "mk_dest" => "MOVE" \in G[j.g].flags, CountsAt(j1)
  PROVE  Core(G, w, q, j1)
BY DEF Core, Typed, JobAt

(* file_stop.                                                              *)
ItemDone(G, w, q, j, x, G1) ==
  /\ Core(G1, w, IF x.todo = <<>> THEN Tail(q) ELSE q, NoJob)
  /\ DOMAIN G1 = DOMAIN G /\ Len(G1) = Len(G)
  /\ x.flags = G[j.g].flags /\ x.top = G[j.g].top /\ x.dest = G[j.g].dest

LEMMA StopCore ==
  ASSUME NEW G, NEW w, NEW q, NEW j, Core(G, w, q, j), j.running,
         NEW F, F = Freed(G[j.g].refs, j.cur),
         NEW x, x = Cleaned(G[j.g], F),
         NEW G1, G1 = [G EXCEPT ![j.g] = x]
  PROVE  ItemDone(G, w, q, j, x, G1)
<1>. DEFINE fg == G[j.g]
            q1 == IF x.todo = <<>> THEN Tail(q) ELSE q
<1>1. /\ j.g \in DOMAIN G /\ j.g \in ToSet(q) /\ j.g \notin ToSet(w.queue)
      /\ fg \in GroupType /\ fg.todo # <<>> /\ ItemsMatch(fg)
      /\ q # <<>> /\ j.g = Head(q) /\ j.cur = Head(fg.todo)
      /\ q \in Seq(DOMAIN G) /\ IsInjective(q) /\ G \in Seq(GroupType)
  BY CoreFacts DEF Core, JobAt, Typed, QueuesAt
<1>2. /\ x \in GroupType /\ ItemsMatch(x) /\ x.todo = Tail(fg.todo)
      /\ x.flags = fg.flags /\ x.top = fg.top /\ x.dest = fg.dest
  <2>1. F = Freed(fg.refs, j.cur) /\ x = Cleaned(fg, F)
    OBVIOUS
  <2>2. fg \in GroupType /\ fg.todo # <<>> /\ ItemsMatch(fg) /\ j.cur = Head(fg.todo)
    BY <1>1
  <2>. HIDE DEF fg
  <2>. QED
    BY <2>1, <2>2, FreeItems DEF ItemsFreed
<1>3. /\ G1 \in Seq(GroupType) /\ DOMAIN G1 = DOMAIN G /\ Len(G1) = Len(G) /\ G1[j.g] = x
      /\ \A h \in DOMAIN G : h # j.g => G1[h] = G[h]
  <2>1. j.g \in DOMAIN G /\ G \in Seq(GroupType) /\ x \in GroupType
    BY <1>1, <1>2
  <2>. QED
    BY <2>1, GroupSet
<1>4. /\ q1 \in Seq(DOMAIN G) /\ IsInjective(q1) /\ ToSet(q1) \subseteq ToSet(q)
      /\ \A h \in ToSet(q1) : h = j.g => x.todo # <<>>
  <2>1. /\ Tail(q) \in Seq(DOMAIN G) /\ IsInjective(Tail(q)) /\ j.g \notin ToSet(Tail(q))
        /\ ToSet(Tail(q)) \subseteq ToSet(q)
    <3>1. q \in Seq(DOMAIN G) /\ q # <<>> /\ IsInjective(q) /\ j.g = Head(q)
      BY <1>1
    <3>. QED
      BY <3>1, PoppedQueue
  <2>2. CASE x.todo = <<>>
    <3>1. q1 = Tail(q)
      BY <2>2
    <3>. QED
      BY <2>1, <3>1
  <2>3. CASE x.todo # <<>>
    <3>1. q1 = q
      BY <2>3
    <3>. QED
      BY <1>1, <2>3, <3>1
  <2>. QED
    BY <2>2, <2>3
<1>. HIDE DEF q1
<1>5. /\ ToSet(w.queue) \subseteq DOMAIN G /\ ToSet(q) \subseteq DOMAIN G
      /\ w.running => w.g \in ToSet(w.queue)
  BY CoreFacts DEF Core, WalkAt
<1>6. QueuesAt(G1, w, q1)
  BY <1>1, <1>3, <1>4, <1>5 DEF Core, QueuesAt
<1>7. WalkAt(G1, w)
  BY <1>1, <1>3, <1>5 DEF Core, WalkAt
<1>8. NoJob \in JobType /\ ~NoJob.running /\ NoJob.pc = "idle" /\ NoJob.offset = 0
  <2>1. 0 \in 0..Chunks /\ 0 \in 0..2
    BY FileAssumption
  <2>. QED
    BY <2>1 DEF NoJob, JobType
<1>9. JobAt(G1, q1, NoJob)
  BY <1>8 DEF JobAt, CountsAt
<1>10. \A h \in DOMAIN G1 : ItemsMatch(G1[h])
  BY <1>2, <1>3 DEF Core
<1>11. Typed(G1, w, q1, NoJob)
  BY <1>3, <1>4, <1>8 DEF Core, Typed
<1>. QED
  BY <1>2, <1>3, <1>6, <1>7, <1>9, <1>10, <1>11 DEF Core, q1, ItemDone

-----------------------------------------------------------------------------
(* One lemma for each action: it keeps the invariant.                      *)
Disks == [Nodes -> [Places -> {"none", "part", "whole", "other"}]]

LEMMA CoreNext == IInv' <=> RestTyped' /\ Core(groups', ftw', fq', job')
<1>1. TypeOK' <=> RestTyped' /\ Typed(groups', ftw', fq', job')
  BY DEF TypeOK, RestTyped, Typed, Gs, Frames
<1>2. QueuesMatch' <=> QueuesAt(groups', ftw', fq')
  BY DEF QueuesMatch, QueuesAt
<1>3. WalkMatches' <=> WalkAt(groups', ftw')
  BY DEF WalkMatches, WalkAt, FramesAt
<1>4. JobMatches' <=> JobAt(groups', fq', job')
  BY DEF JobMatches, JobAt, CountsAt, Fg
<1>. QED
  BY <1>1, <1>2, <1>3, <1>4 DEF IInv, Core, Gs

LEMMA FtwAddSafe ==
  ASSUME IInv, NEW kind \in Kinds, NEW n \in Tops, FtwAdd(kind, n)
  PROVE  IInv'
<1>. DEFINE fl == CASE kind = "move" -> {"MOVE"} [] kind = "copy" -> {"COPY"}
                       [] kind = "remove" -> {"UNLINK"}
            to == IF kind = "remove" THEN NoDest ELSE << "dst", 0 >>
<1>1. RestTyped /\ Core(groups, ftw, fq, job)
  BY CoreIsIInv
<1>2. kind \in {"copy", "move", "remove"}
  BY FileAssumption
<1>3. /\ fl \in FlagSets
      /\ "MOVE" \in fl <=> kind = "move"
      /\ to \in Places \cup {NoDest}
  <2>1. << "dst", 0 >> \in Places
    BY FileAssumption DEF Places
  <2>. QED
    BY <1>2, <2>1 DEF FlagSets
<1>4. PICK x : x = Group(n, fl, to)
  OBVIOUS
<1>5. PICK g : g = Len(groups) + 1
  OBVIOUS
<1>6. PICK G : G = Append(groups, x)
  OBVIOUS
<1>7. /\ groups' = G
      /\ \/ kind = "move" /\ fq' = Append(fq, g) /\ job' = Started(G, fq', job) /\ ftw' = ftw
         \/ /\ kind # "move" /\ ftw' = Walking(G, Append(ftw.queue, g), disk)
            /\ fq' = fq /\ job' = job
  <2>1. x = CASE kind = "move"   -> Group(n, {"MOVE"}, << "dst", 0 >>)
              [] kind = "copy"   -> Group(n, {"COPY"}, << "dst", 0 >>)
              [] kind = "remove" -> Group(n, {"UNLINK"}, NoDest)
    BY <1>2, <1>4
  <2>. QED
    BY <1>5, <1>6, <2>1 DEF FtwAdd
<1>. HIDE DEF fl, to
<1>8. Fresh(x, n, fl, to)
  BY <1>3, <1>4, NewGroup
<1>9. Added(G, ftw, fq, job, g, x)
  BY <1>1, <1>5, <1>6, <1>8, AddGroup DEF Fresh
<1>10. RestTyped'
  BY <1>1 DEF FtwAdd, RestTyped
<1>11. CASE kind = "move"
  <2>1. G[g].todo # <<>>
    BY <1>8, <1>9 DEF Fresh, Added
  <2>2. Core(G, ftw, Append(fq, g), Started(G, Append(fq, g), job))
    BY <1>9, <2>1, PushJob DEF Added
  <2>. QED
    BY <1>7, <1>10, <1>11, <2>2, CoreNext
<1>12. CASE kind # "move"
  <2>1. Untouched(G[g]) /\ "MOVE" \notin G[g].flags
    BY <1>3, <1>8, <1>9, <1>12 DEF Fresh, Added
  <2>2. ftw.queue \in Seq(DOMAIN G) /\ IsInjective(ftw.queue)
    BY <1>9 DEF Added, Core, Typed, QueuesAt
  <2>3. PICK s : s = Append(ftw.queue, g)
    OBVIOUS
  <2>4. s \in Seq(DOMAIN G) /\ s # <<>> /\ ToSet(s) = ToSet(ftw.queue) \cup {g} /\ IsInjective(s)
    BY <1>9, <2>2, <2>3, AppendedQueue DEF Added
  <2>5. Core(G, Walking(G, s, disk), fq, job)
    BY <1>9, <2>1, <2>4, PushWalk DEF Added
  <2>. QED
    BY <1>7, <1>10, <1>12, <2>3, <2>5, CoreNext
<1>. QED
  BY <1>11, <1>12

LEMMA FtwCancelSafe ==
  ASSUME IInv, FtwCancel
  PROVE  IInv'
<1>1. RestTyped /\ Core(groups, ftw, fq, job)
  BY CoreIsIInv
<1>2. /\ ftw' = [ftw EXCEPT !.cancel = TRUE]
      /\ UNCHANGED <<disk, others, groups, fq, job, starts>>
  BY DEF FtwCancel
<1>3. RestTyped'
  BY <1>1, <1>2 DEF RestTyped
<1>4. /\ ftw'.running <=> ftw.running
      /\ ftw'.g = ftw.g /\ ftw'.queue = ftw.queue /\ ftw'.stack = ftw.stack
      /\ Typed(groups, ftw', fq, job)
  BY <1>1, <1>2 DEF Core, Typed
<1>5. QueuesAt(groups, ftw', fq)
  BY <1>1, <1>4 DEF Core, QueuesAt
<1>6. WalkAt(groups, ftw')
  BY <1>1, <1>4 DEF Core, WalkAt
<1>7. Core(groups, ftw', fq, job)
  BY <1>1, <1>4, <1>5, <1>6 DEF Core
<1>. QED
  BY <1>2, <1>3, <1>7, CoreNext

LEMMA WalkEndSafe ==
  ASSUME IInv, WalkEnd
  PROVE  IInv'
<1>1. RestTyped /\ Core(groups, ftw, fq, job)
  BY CoreIsIInv
<1>2. PICK i \in DOMAIN ftw.queue : ftw.queue[i] = ftw.g /\ ftw' = NoWalk(RemoveAt(ftw.queue, i))
  BY DEF WalkEnd
<1>3. /\ ftw.running /\ fq' = Append(fq, ftw.g) /\ job' = Started(groups, fq', job)
      /\ UNCHANGED <<disk, others, groups, starts>>
  BY DEF WalkEnd
<1>4. RestTyped'
  BY <1>1, <1>3 DEF RestTyped
<1>5. /\ Core(groups, ftw', fq, job)
      /\ ftw.g \in DOMAIN groups /\ ftw.g \notin ToSet(ftw'.queue) /\ ftw.g \notin ToSet(fq)
      /\ groups[ftw.g].todo # <<>>
  BY <1>1, <1>2, <1>3, EndWalk
<1>6. Core(groups, ftw', Append(fq, ftw.g), Started(groups, Append(fq, ftw.g), job))
  BY <1>5, PushJob
<1>. QED
  BY <1>3, <1>4, <1>6, CoreNext

LEMMA FileStartSafe ==
  ASSUME IInv, FileStart
  PROVE  IInv'
<1>1. RestTyped /\ Core(groups, ftw, fq, job)
  BY CoreIsIInv
<1>2. /\ starts > 0 /\ starts' = starts - 1 /\ job' = Started(groups, fq, job)
      /\ UNCHANGED <<disk, others, groups, ftw, fq>>
  BY DEF FileStart
<1>3. RestTyped'
  BY <1>1, <1>2 DEF RestTyped
<1>4. Core(groups, ftw, fq, job')
  BY <1>1, <1>2, StartJob
<1>. QED
  BY <1>2, <1>3, <1>4, CoreNext

(* The group being walked gains an item, or the walk only moves.           *)
LEMMA WalkOn ==
  ASSUME NEW G, NEW w, NEW q, NEW j, Core(G, w, q, j), w.running,
         NEW G1 \in Seq(GroupType), DOMAIN G1 = DOMAIN G,
         \A h \in DOMAIN G : h # w.g => G1[h] = G[h],
         ItemsMatch(G1[w.g]), G1[w.g].items = ToSet(G1[w.g].todo), G1[w.g].todo # <<>>,
         G1[w.g].flags = G[w.g].flags,
         NEW st \in Seq(Frames), FramesAt(G1[w.g], st), NEW w1, w1 = [w EXCEPT !.stack = st]
  PROVE  Core(G1, w1, q, j)
<1>1. /\ ToSet(w.queue) \subseteq DOMAIN G /\ ToSet(q) \subseteq DOMAIN G
      /\ w.g \in DOMAIN G /\ w.g \in ToSet(w.queue) /\ w.g \notin ToSet(q)
      /\ j.running => j.g \in DOMAIN G /\ j.g # w.g
  BY CoreFacts DEF Core, WalkAt, QueuesAt
<1>2. /\ w1.running /\ w1.g = w.g /\ w1.queue = w.queue /\ w1.stack = st
      /\ w1 \in [running : BOOLEAN, cancel : BOOLEAN, g : Nat, queue : Seq(DOMAIN G), stack : Seq(Frames)]
  <2>1. w \in [running : BOOLEAN, cancel : BOOLEAN, g : Nat, queue : Seq(DOMAIN G), stack : Seq(Frames)]
    BY DEF Core, Typed
  <2>. QED
    BY <2>1
<1>3. Typed(G1, w1, q, j)
  BY <1>2 DEF Core, Typed
<1>4. QueuesAt(G1, w1, q)
  BY <1>1, <1>2 DEF Core, QueuesAt
<1>5. WalkAt(G1, w1)
  BY <1>1, <1>2 DEF WalkAt
<1>6. JobAt(G1, q, j)
  BY <1>1 DEF Core, JobAt
<1>7. \A h \in DOMAIN G1 : ItemsMatch(G1[h])
  BY DEF Core
<1>. QED
  BY <1>3, <1>4, <1>5, <1>6, <1>7 DEF Core

LEMMA WalkSafe ==
  ASSUME IInv, Walk
  PROVE  IInv'
<1>. DEFINE g    == ftw.g
            fg   == groups[ftw.g]
            L    == Len(ftw.stack)
            top  == ftw.stack[L]
            back == SubSeq(ftw.stack, 1, L - 1)
            Here(n) == HereAt(back, top, n)
<1>1. RestTyped /\ Core(groups, ftw, fq, job)
  BY CoreIsIInv
<1>2. /\ ftw.running /\ ftw.stack # <<>>
      /\ UNCHANGED <<disk, others, fq, job, starts>>
  BY DEF Walk, Chained
<1>3. /\ g \in DOMAIN groups /\ fg \in GroupType /\ ItemsMatch(fg) /\ groups \in Seq(GroupType)
      /\ g \in ToSet(ftw.queue) /\ fg.items = ToSet(fg.todo) /\ fg.todo # <<>>
      /\ FramesAt(fg, ftw.stack) /\ ftw.stack \in Seq(Frames) /\ "MOVE" \notin fg.flags
  BY <1>1, <1>2, CoreFacts DEF Core, Typed, WalkAt, QueuesAt
<1>4. RestTyped'
  BY <1>1, <1>2 DEF RestTyped
<1>5. ASSUME NEW st \in Seq(Frames), FramesAt(fg, st), ftw' = [ftw EXCEPT !.stack = st],
             groups' = groups
      PROVE  IInv'
  <2>1. Core(groups, ftw', fq, job)
    BY <1>1, <1>2, <1>3, <1>5, WalkOn
  <2>. QED
    BY <1>2, <1>4, <1>5, <2>1, CoreNext
<1>6. FramesKept(fg, top, back)
  BY <1>2, <1>3, WalkFrames
<1>7. ASSUME NEW n \in top.rest, Has(disk, n, Origin),
             groups' = [groups EXCEPT ![g] = AddEnt(groups[g], n)],
             ftw' = [ftw EXCEPT !.stack = IF n \in Dirs THEN Append(Here(n), Entered(n)) ELSE Here(n)]
      PROVE  IInv'
  <2>. DEFINE st == IF n \in Dirs THEN Append(Here(n), Entered(n)) ELSE Here(n)
  <2>1. PICK x : x = AddEnt(fg, n)
    OBVIOUS
  <2>2. /\ x \in GroupType /\ ItemsMatch(x) /\ x.items = fg.items \cup {n}
        /\ x.items = ToSet(x.todo) /\ x.flags = fg.flags
    <3>1. n \in Nodes \ fg.items /\ Parent[n] \in fg.items
      BY <1>6 DEF FramesKept
    <3>. HIDE DEF fg
    <3>. QED
      BY <1>3, <2>1, <3>1, AddEntItems
  <2>3. x.todo # <<>>
    <3>1. n \in ToSet(x.todo)
      BY <2>2
    <3>. QED
      BY <3>1 DEF ToSet
  <2>4. st \in Seq(Frames) /\ FramesAt(x, st)
    BY <1>6, <2>2 DEF FramesKept
  <2>5. groups' = [groups EXCEPT ![g] = x] /\ ftw' = [ftw EXCEPT !.stack = st]
    BY <1>7, <2>1
  <2>. HIDE DEF st
  <2>6. /\ groups' \in Seq(GroupType) /\ DOMAIN groups' = DOMAIN groups /\ groups'[g] = x
        /\ \A h \in DOMAIN groups : h # g => groups'[h] = groups[h]
    BY <1>3, <2>2, <2>5, GroupSet
  <2>7. Core(groups', ftw', fq, job)
    BY <1>1, <1>2, <2>2, <2>3, <2>4, <2>5, <2>6, WalkOn
  <2>. QED
    BY <1>2, <1>4, <2>7, CoreNext
<1>8. \/ \E n \in top.rest :
           \/ /\ Has(disk, n, Origin)
              /\ groups' = [groups EXCEPT ![g] = AddEnt(groups[g], n)]
              /\ ftw' = [ftw EXCEPT !.stack = IF n \in Dirs THEN Append(Here(n), Entered(n))
                                               ELSE Here(n)]
           \/ ftw' = [ftw EXCEPT !.stack = Here(n)] /\ groups' = groups
      \/ ftw' = [ftw EXCEPT !.stack = back] /\ groups' = groups
  BY DEF Walk, Entered, HereAt
<1>. QED
  BY <1>5, <1>6, <1>7, <1>8 DEF FramesKept

-----------------------------------------------------------------------------
(* The job.                                                                *)
Pcs == {"idle", "stat_src", "stat_dst", "scan", "mk_dest", "do_copy", "open", "send", "close", "stuck"}

LEMMA JobGoto ==
  ASSUME NEW j \in JobType, NEW pc \in Pcs, NEW j1, j1 = [j EXCEPT !.pc = pc]
  PROVE  /\ j1 \in JobType /\ j1.pc = pc
         /\ j1.running <=> j.running
         /\ j1.g = j.g /\ j1.cur = j.cur /\ j1.opening = j.opening
         /\ j1.opencnt = j.opencnt /\ j1.offset = j.offset
BY DEF JobType, Pcs

LEMMA PutTyped ==
  ASSUME NEW D \in Disks, NEW n, NEW p, NEW what \in {"none", "part", "whole", "other"}
  PROVE  Put(D, n, p, what) \in Disks
BY DEF Put, Disks

(* What is known whenever the job runs.                                    *)
LEMMA Running ==
  ASSUME IInv, job.pc # "idle"
  PROVE  /\ RestTyped /\ Core(groups, ftw, fq, job) /\ job.running
         /\ job \in JobType /\ job.g \in DOMAIN groups /\ groups \in Seq(GroupType)
         /\ Fg \in GroupType /\ Fg = groups[job.g] /\ ItemsMatch(Fg) /\ Fg.todo # <<>>
         /\ job.cur = Head(Fg.todo) /\ job.cur \in Nodes /\ job.cur \in Fg.items
         /\ Dest \in Places \cup {NoDest} /\ CountsAt(job)
<1>1. RestTyped /\ Core(groups, ftw, fq, job)
  BY CoreIsIInv
<1>2. /\ job.running /\ job \in JobType /\ job.cur = Head(groups[job.g].todo) /\ CountsAt(job)
      /\ groups \in Seq(GroupType)
  BY <1>1 DEF Core, JobAt, Typed
<1>3. /\ job.g \in DOMAIN groups /\ groups[job.g] \in GroupType /\ groups[job.g].todo # <<>>
      /\ ItemsMatch(groups[job.g])
  BY <1>1, <1>2, CoreFacts DEF Core
<1>4. job.cur \in Nodes /\ job.cur \in groups[job.g].items
  BY <1>2, <1>3, HeadItem
<1>5. Dest \in Places \cup {NoDest}
  BY <1>3, <1>4, GroupTyped DEF Dest, Fg
<1>. QED
  BY <1>1, <1>2, <1>3, <1>4, <1>5 DEF Fg

(* A step that at most marks the group and goes on.                        *)
LEMMA GoOn ==
  ASSUME IInv, job.pc # "idle", NEW x \in GroupType,
         x.todo = Fg.todo, x.items = Fg.items, x.refs = Fg.refs, x.top = Fg.top,
         "MOVE" \in x.flags <=> "MOVE" \in Fg.flags,
         groups' = [groups EXCEPT ![job.g] = x],
         job' \in JobType, job'.running, job'.pc # "idle", job'.g = job.g, job'.cur = job.cur,
         job'.pc = "mk_dest" => "MOVE" \in Fg.flags, CountsAt(job'),
         UNCHANGED <<ftw, fq>>, RestTyped'
  PROVE  IInv'
<1>1. /\ Core(groups, ftw, fq, job) /\ job.running /\ job.g \in DOMAIN groups
      /\ groups \in Seq(GroupType) /\ Fg = groups[job.g]
  BY Running
<1>2. PICK G1 : G1 = [groups EXCEPT ![job.g] = x]
  OBVIOUS
<1>3. Core(G1, ftw, fq, job)
  <2>1. /\ x.todo = groups[job.g].todo /\ x.items = groups[job.g].items
        /\ x.refs = groups[job.g].refs /\ x.top = groups[job.g].top
        /\ "MOVE" \in x.flags <=> "MOVE" \in groups[job.g].flags
    BY <1>1
  <2>. QED
    BY <1>1, <1>2, <2>1, Mark
<1>4. G1[job.g] = x
  BY <1>1, <1>2, GroupSet
<1>5. Core(G1, ftw, fq, job')
  <2>1. job'.pc = "mk_dest" => "MOVE" \in G1[job.g].flags
    BY <1>4
  <2>. QED
    BY <1>1, <1>3, <2>1, MoveOn
<1>. QED
  BY <1>2, <1>5, CoreNext

(* The same with the groups as they are.                                   *)
LEMMA GoOnUnmarked ==
  ASSUME IInv, job.pc # "idle", UNCHANGED groups,
         job' \in JobType, job'.running, job'.pc # "idle", job'.g = job.g, job'.cur = job.cur,
         job'.pc = "mk_dest" => "MOVE" \in Fg.flags, CountsAt(job'),
         UNCHANGED <<ftw, fq>>, RestTyped'
  PROVE  IInv'
<1>1. Core(groups, ftw, fq, job) /\ job.running /\ Fg = groups[job.g]
  BY Running
<1>2. Core(groups, ftw, fq, job')
  BY <1>1, MoveOn
<1>. QED
  BY <1>2, CoreNext

(* file_stop, of the job j at the head of the queue q.                     *)
StopAt(G, D, q, j, G1, D1, q1, j1) ==
  LET F == Freed(G[j.g].refs, j.cur)
      x == Cleaned(G[j.g], F)
  IN  /\ G1 = [G EXCEPT ![j.g] = x] /\ D1 = Unlinked(D, G[j.g], F)
      /\ q1 = (IF x.todo = <<>> THEN Tail(q) ELSE q) /\ j1 = NoJob

Stopped(G, w, G1, D1, q1, j1) ==
  /\ Core(G1, w, q1, j1) /\ D1 \in Disks /\ DOMAIN G1 = DOMAIN G

LEMMA StopStep ==
  ASSUME NEW G, NEW w, NEW q, NEW j, NEW D \in Disks, Core(G, w, q, j), j.running,
         NEW G1, NEW D1, NEW q1, NEW j1, StopAt(G, D, q, j, G1, D1, q1, j1)
  PROVE  Stopped(G, w, G1, D1, q1, j1)
<1>1. PICK F : F = Freed(G[j.g].refs, j.cur)
  OBVIOUS
<1>2. PICK x : x = Cleaned(G[j.g], F)
  OBVIOUS
<1>3. /\ G1 = [G EXCEPT ![j.g] = x] /\ D1 = Unlinked(D, G[j.g], F)
      /\ q1 = (IF x.todo = <<>> THEN Tail(q) ELSE q) /\ j1 = NoJob
  BY <1>1, <1>2 DEF StopAt
<1>4. Core(G1, w, q1, j1) /\ DOMAIN G1 = DOMAIN G
  <2>1. G1 = [G EXCEPT ![j.g] = x]
    BY <1>3
  <2>2. ItemDone(G, w, q, j, x, G1)
    BY <1>1, <1>2, <2>1, StopCore
  <2>. QED
    BY <1>3, <2>2 DEF ItemDone
<1>5. D1 \in Disks
  BY <1>3 DEF Unlinked, Disks
<1>. QED
  BY <1>4, <1>5 DEF Stopped

LEMMA StopSafe ==
  ASSUME IInv, job.pc # "idle", NEW D \in Disks,
         StopAt(groups, D, fq, job, groups', disk', fq', job'), starts' = StartQueued(starts),
         UNCHANGED <<others, ftw>>
  PROVE  IInv'
<1>1. RestTyped /\ Core(groups, ftw, fq, job) /\ job.running
  BY Running
<1>2. Stopped(groups, ftw, groups', disk', fq', job')
  BY <1>1, StopStep
<1>3. RestTyped'
  BY <1>1, <1>2 DEF RestTyped, Disks, Stopped, StartQueued
<1>. QED
  BY <1>2, <1>3, CoreNext DEF Stopped

LEMMA StatSrcSafe ==
  ASSUME IInv, StatSrc
  PROVE  IInv'
<1>1. /\ RestTyped /\ job \in JobType /\ job.running /\ CountsAt(job) /\ groups \in Seq(GroupType)
      /\ Fg \in GroupType /\ Fg = groups[job.g] /\ Dest \in Places \cup {NoDest} /\ job.cur \in Nodes
      /\ job.pc = "stat_src"
  BY Running DEF StatSrc
<1>2. CASE FileStopped
  <2>1. StopAt(groups, disk, fq, job, groups', disk', fq', job')
    BY <1>2 DEF FileStopped, Stop, StopAt
  <2>2. starts' = StartQueued(starts) /\ UNCHANGED <<others, ftw>>
    BY <1>2 DEF FileStopped, Stop
  <2>3. disk \in Disks
    BY <1>1 DEF RestTyped, Disks
  <2>. QED
    BY <1>1, <2>1, <2>2, <2>3, StopSafe
<1>3. CASE /\ groups' = [groups EXCEPT ![job.g].dest[job.cur] = CurDest] /\ Goto("stat_dst")
           /\ UNCHANGED <<disk, others, ftw, fq, starts>>
  <2>1. CurDest \in Places \cup {NoDest}
    BY <1>1, GroupTyped DEF CurDest
  <2>2. PICK x : x = [Fg EXCEPT !.dest[job.cur] = CurDest]
    OBVIOUS
  <2>3. /\ x \in GroupType /\ x.todo = Fg.todo /\ x.items = Fg.items /\ x.refs = Fg.refs
        /\ x.top = Fg.top /\ x.flags = Fg.flags
    BY <1>1, <2>1, <2>2 DEF GroupType
  <2>4. groups' = [groups EXCEPT ![job.g] = x]
    BY <1>1, <1>3, <2>2
  <2>5. /\ job' \in JobType /\ job'.running /\ job'.pc = "stat_dst" /\ job'.g = job.g
        /\ job'.cur = job.cur /\ CountsAt(job')
    <3>1. /\ job' \in JobType /\ job'.pc = "stat_dst"
          /\ job'.running <=> job.running
          /\ job'.g = job.g /\ job'.cur = job.cur
          /\ job'.opencnt = job.opencnt /\ job'.offset = job.offset
      BY <1>1, <1>3, JobGoto DEF Goto, Pcs
    <3>. QED
      BY <1>1, <3>1 DEF CountsAt
  <2>6. RestTyped'
    BY <1>1, <1>3 DEF RestTyped
  <2>. QED
    BY <1>1, <1>3, <2>3, <2>4, <2>5, <2>6, GoOn
<1>4. CASE Goto("stuck") /\ UNCHANGED <<disk, others, groups, ftw, fq, starts>>
  <2>1. /\ job' \in JobType /\ job'.running /\ job'.pc = "stuck" /\ job'.g = job.g
        /\ job'.cur = job.cur /\ CountsAt(job')
    <3>1. /\ job' \in JobType /\ job'.pc = "stuck"
          /\ job'.running <=> job.running
          /\ job'.g = job.g /\ job'.cur = job.cur
          /\ job'.opencnt = job.opencnt /\ job'.offset = job.offset
      BY <1>1, <1>4, JobGoto DEF Goto, Pcs
    <3>. QED
      BY <1>1, <3>1 DEF CountsAt
  <2>2. RestTyped'
    BY <1>1, <1>4 DEF RestTyped
  <2>. QED
    BY <1>1, <1>4, <2>1, <2>2, GoOnUnmarked
<1>. QED
  BY <1>2, <1>3, <1>4 DEF StatSrc

Went(j, j1, pc) ==
  /\ j1 \in JobType /\ j1.running /\ j1.pc = pc /\ j1.g = j.g /\ j1.cur = j.cur
  /\ j1.opening = j.opening /\ j1.opencnt = j.opencnt /\ j1.offset = j.offset

LEMMA WentTo ==
  ASSUME NEW j \in JobType, j.running, NEW pc \in Pcs, NEW j1, j1 = [j EXCEPT !.pc = pc]
  PROVE  Went(j, j1, pc)
BY JobGoto DEF Went

LEMMA StatDstSafe ==
  ASSUME IInv, StatDst
  PROVE  IInv'
<1>1. /\ RestTyped /\ job \in JobType /\ job.running /\ CountsAt(job) /\ job.pc = "stat_dst"
  BY Running DEF StatDst
<1>2. PICK pc \in {"scan", "mk_dest", "do_copy"} :
           job' = [job EXCEPT !.pc = pc] /\ (pc = "mk_dest" => "MOVE" \in Fg.flags)
  BY DEF StatDst, Goto
<1>3. UNCHANGED <<disk, others, groups, ftw, fq, starts>>
  BY DEF StatDst
<1>4. Went(job, job', pc)
  BY <1>1, <1>2, WentTo DEF Pcs
<1>5. CountsAt(job')
  BY <1>1, <1>4 DEF Went, CountsAt
<1>6. RestTyped'
  BY <1>1, <1>3 DEF RestTyped
<1>. QED
  BY <1>1, <1>2, <1>3, <1>4, <1>5, <1>6, GoOnUnmarked DEF Went

LEMMA ScanCbSafe ==
  ASSUME IInv, ScanCb
  PROVE  IInv'
<1>1. /\ RestTyped /\ job \in JobType /\ job.running /\ CountsAt(job) /\ groups \in Seq(GroupType)
      /\ Fg \in GroupType /\ Fg = groups[job.g] /\ Dest \in Places \cup {NoDest} /\ job.cur \in Nodes
      /\ job.pc = "scan"
  BY Running DEF ScanCb
<1>2. /\ groups' = [groups EXCEPT ![job.g].dest[job.cur] = VersionName(@)]
      /\ job' = [job EXCEPT !.pc = "stat_dst"] /\ Dest[2] <= MaxGroups
      /\ UNCHANGED <<disk, others, ftw, fq, starts>>
  BY DEF ScanCb, Goto
<1>3. VersionName(Dest) \in Places \cup {NoDest}
  BY <1>1, <1>2, FileAssumption DEF VersionName, Places, NoDest
<1>4. PICK x : x = [Fg EXCEPT !.dest[job.cur] = VersionName(Dest)]
  OBVIOUS
<1>5. /\ x \in GroupType /\ x.todo = Fg.todo /\ x.items = Fg.items /\ x.refs = Fg.refs
      /\ x.top = Fg.top /\ x.flags = Fg.flags
  BY <1>1, <1>3, <1>4 DEF GroupType
<1>6. groups' = [groups EXCEPT ![job.g] = x]
  <2>1. x = [Fg EXCEPT !.dest = [Fg.dest EXCEPT ![job.cur] = VersionName(Fg.dest[job.cur])]]
    BY <1>4 DEF Dest
  <2>. QED
    BY <1>1, <1>2, <2>1
<1>7. Went(job, job', "stat_dst")
  BY <1>1, <1>2, WentTo DEF Pcs
<1>8. CountsAt(job')
  BY <1>1, <1>7 DEF Went, CountsAt
<1>9. RestTyped'
  BY <1>1, <1>2 DEF RestTyped
<1>. QED
  BY <1>1, <1>2, <1>5, <1>6, <1>7, <1>8, <1>9, GoOn DEF Went

(* A group gets the flag F_ERROR or F_UNLINK.                              *)
LEMMA Flagged ==
  ASSUME NEW fg \in GroupType, NEW flag \in {"UNLINK", "ERROR"},
         NEW x, x = [fg EXCEPT !.flags = @ \cup {flag}]
  PROVE  /\ x \in GroupType /\ x.todo = fg.todo /\ x.items = fg.items /\ x.refs = fg.refs
         /\ x.top = fg.top /\ x.dest = fg.dest /\ x.flags = fg.flags \cup {flag}
         /\ "MOVE" \in x.flags <=> "MOVE" \in fg.flags
BY DEF GroupType

LEMMA MovedTyped ==
  ASSUME NEW D \in Disks, NEW n, NEW p
  PROVE  Moved(D, n, p) \in Disks
<1>1. Origin \in Places
  BY FileAssumption DEF Origin, Places
<1>2. \A m \in Nodes : /\ D[m] \in [Places -> {"none", "part", "whole", "other"}]
                       /\ D[m][Origin] \in {"none", "part", "whole", "other"}
  BY <1>1 DEF Disks
<1>. QED
  BY <1>2 DEF Moved, Disks

LEMMA MkDestSafe ==
  ASSUME IInv, MkDest
  PROVE  IInv'
<1>1. /\ RestTyped /\ Core(groups, ftw, fq, job) /\ job \in JobType /\ job.running /\ CountsAt(job)
      /\ groups \in Seq(GroupType) /\ Fg \in GroupType /\ Fg = groups[job.g]
      /\ job.cur \in Nodes /\ job.g \in DOMAIN groups /\ job.pc = "mk_dest"
  BY Running DEF MkDest
<1>2. disk \in Disks
  BY <1>1 DEF RestTyped, Disks
<1>3. CASE /\ Stop([groups EXCEPT ![job.g].flags = @ \cup {"UNLINK"}], Moved(disk, job.cur, Dest))
           /\ UNCHANGED <<others, ftw>>
  <2>1. PICK x : x = [Fg EXCEPT !.flags = @ \cup {"UNLINK"}]
    OBVIOUS
  <2>2. PICK G : G = [groups EXCEPT ![job.g].flags = @ \cup {"UNLINK"}]
    OBVIOUS
  <2>3. PICK D : D = Moved(disk, job.cur, Dest)
    OBVIOUS
  <2>4. /\ x \in GroupType /\ x.todo = Fg.todo /\ x.items = Fg.items /\ x.refs = Fg.refs
        /\ x.top = Fg.top
        /\ "MOVE" \in x.flags <=> "MOVE" \in Fg.flags
    BY <1>1, <2>1, Flagged
  <2>5. G = [groups EXCEPT ![job.g] = x]
    BY <1>1, <2>1, <2>2
  <2>6. Core(G, ftw, fq, job)
    BY <1>1, <2>4, <2>5, Mark
  <2>7. StopAt(G, D, fq, job, groups', disk', fq', job')
    BY <1>3, <2>2, <2>3 DEF Stop, StopAt
  <2>8. D \in Disks
    BY <1>2, <2>3, MovedTyped
  <2>9. Stopped(G, ftw, groups', disk', fq', job')
    BY <1>1, <2>6, <2>7, <2>8, StopStep
  <2>10. RestTyped'
    <3>1. starts' = StartQueued(starts) /\ others' = others
      BY <1>3 DEF Stop
    <3>. QED
      BY <1>1, <2>9, <3>1 DEF RestTyped, Disks, Stopped, StartQueued
  <2>. QED
    BY <1>3, <2>9, <2>10, CoreNext DEF Stopped
<1>4. CASE Failed /\ Goto("stuck") /\ UNCHANGED <<disk, others, ftw, fq, starts>>
  <2>1. PICK x : x = [Fg EXCEPT !.flags = @ \cup {"ERROR"}]
    OBVIOUS
  <2>2. /\ x \in GroupType /\ x.todo = Fg.todo /\ x.items = Fg.items /\ x.refs = Fg.refs
        /\ x.top = Fg.top
        /\ "MOVE" \in x.flags <=> "MOVE" \in Fg.flags
    BY <1>1, <2>1, Flagged
  <2>3. groups' = [groups EXCEPT ![job.g] = x]
    BY <1>1, <1>4, <2>1 DEF Failed
  <2>4. Went(job, job', "stuck")
    BY <1>1, <1>4, WentTo DEF Goto, Pcs
  <2>5. CountsAt(job')
    BY <1>1, <2>4 DEF Went, CountsAt
  <2>6. RestTyped'
    BY <1>1, <1>4 DEF RestTyped
  <2>. QED
    BY <1>1, <1>4, <2>2, <2>3, <2>4, <2>5, <2>6, GoOn DEF Went
<1>. QED
  BY <1>3, <1>4 DEF MkDest

Prepended(T, q, x, s) ==
  /\ s \in Seq(T) /\ s # <<>> /\ Head(s) = x
  /\ ToSet(s) = ToSet(q) \cup {x} /\ IsInjective(s)

LEMMA PrependedQueue ==
  ASSUME NEW T, NEW q \in Seq(T), NEW x \in T, x \notin ToSet(q), IsInjective(q),
         NEW s, s = << x >> \o q
  PROVE  Prepended(T, q, x, s)
<1>1. /\ Len(q) \in Nat /\ DOMAIN q = 1..Len(q) /\ \A i \in 1..Len(q) : q[i] \in T
  BY LenProperties
<1>2. s \in Seq(T) /\ Len(s) = Len(q) + 1 /\ DOMAIN s = 1..(Len(q) + 1)
      /\ s[1] = x /\ \A i \in 2..(Len(q) + 1) : s[i] = q[i - 1]
  <2>1. << x >> \in Seq(T) /\ Len(<< x >>) = 1 /\ << x >>[1] = x
    OBVIOUS
  <2>2. /\ s \in Seq(T) /\ Len(s) = 1 + Len(q)
        /\ \A i \in 1..(1 + Len(q)) : s[i] = IF i <= 1 THEN << x >>[i] ELSE q[i - 1]
    BY <2>1, ConcatProperties
  <2>. QED
    BY <1>1, <2>1, <2>2, LenProperties
<1>3. s # <<>> /\ Head(s) = x
  BY <1>1, <1>2
<1>4. \A i \in 1..Len(q) : i + 1 \in 2..(Len(q) + 1) /\ s[i + 1] = q[i]
  BY <1>1, <1>2
<1>5. \A i \in 2..(Len(q) + 1) : i - 1 \in 1..Len(q)
  BY <1>1
<1>6. \A i \in 1..(Len(q) + 1) : i = 1 \/ i \in 2..(Len(q) + 1)
  BY <1>1
<1>7. 1 \in 1..(Len(q) + 1) /\ \A i \in 2..(Len(q) + 1) : i \in 1..(Len(q) + 1)
  BY <1>1
<1>8. ToSet(s) = ToSet(q) \cup {x}
  <2>1. ASSUME NEW y \in ToSet(s) PROVE y \in ToSet(q) \cup {x}
    BY <1>1, <1>2, <1>5, <1>6 DEF ToSet
  <2>2. ASSUME NEW y \in ToSet(q) PROVE y \in ToSet(s)
    <3>1. PICK i \in 1..Len(q) : y = q[i]
      BY <1>1 DEF ToSet
    <3>. QED
      BY <1>2, <1>4, <1>7, <3>1 DEF ToSet
  <2>3. x \in ToSet(s)
    BY <1>2, <1>7 DEF ToSet
  <2>. QED
    BY <2>1, <2>2, <2>3
<1>9. IsInjective(s)
  <2>1. \A i, k \in 1..Len(q) : q[i] = q[k] => i = k
    BY <1>1 DEF IsInjective
  <2>2. \A i \in 2..(Len(q) + 1) : s[i] # x
    BY <1>1, <1>2, <1>5 DEF ToSet
  <2>3. \A i, k \in 2..(Len(q) + 1) : s[i] = s[k] => i = k
    <3>1. ASSUME NEW i \in 2..(Len(q) + 1), NEW k \in 2..(Len(q) + 1), s[i] = s[k]
          PROVE  i = k
      <4>1. i - 1 = k - 1
        BY <1>2, <1>5, <2>1, <3>1
      <4>. QED
        BY <1>1, <4>1
    <3>. QED
      BY <3>1
  <2>4. \A i, k \in 1..(Len(q) + 1) : s[i] = s[k] => i = k
    BY <1>2, <1>6, <2>2, <2>3
  <2>. QED
    BY <1>2, <2>4 DEF IsInjective
<1>. QED
  BY <1>2, <1>3, <1>8, <1>9 DEF Prepended

LEMMA RetryAsCopySafe ==
  ASSUME IInv, RetryAsCopy
  PROVE  IInv'
<1>1. /\ RestTyped /\ Core(groups, ftw, fq, job) /\ job.running
      /\ groups \in Seq(GroupType) /\ Fg \in GroupType /\ Fg = groups[job.g] /\ ItemsMatch(Fg)
      /\ job.cur \in Fg.items /\ job.g \in DOMAIN groups /\ Dest \in Places \cup {NoDest}
      /\ job.pc = "mk_dest" /\ Dest[1] = "dst"
  BY Running DEF RetryAsCopy
<1>2. disk \in Disks
  BY <1>1 DEF RestTyped, Disks
<1>3. job.cur \in Tops
  <2>1. "MOVE" \in Fg.flags
    BY <1>1 DEF Core, JobAt
  <2>2. job.cur = Fg.top
    BY <1>1, <2>1 DEF ItemsMatch
  <2>. QED
    BY <1>1, <2>2 DEF GroupType
<1>4. PICK x : x = Group(job.cur, {"UNLINK", "COPY"}, << Dest[1], 0 >>)
  OBVIOUS
<1>5. PICK g : g = Len(groups) + 1
  OBVIOUS
<1>6. PICK G : G = Append(groups, x)
  OBVIOUS
<1>7. PICK s : s = << g >> \o ftw.queue
  OBVIOUS
<1>8. /\ Stop(G, disk) /\ ftw' = Walking(G, s, disk) /\ UNCHANGED others
  BY <1>4, <1>5, <1>6, <1>7 DEF RetryAsCopy
<1>9. Fresh(x, job.cur, {"UNLINK", "COPY"}, << Dest[1], 0 >>)
  <2>1. PICK to : to = << Dest[1], 0 >>
    OBVIOUS
  <2>2. to \in Places \cup {NoDest}
    BY <1>1, <2>1, FileAssumption DEF Places
  <2>3. PICK fl : fl = {"UNLINK", "COPY"}
    OBVIOUS
  <2>4. fl \in FlagSets
    BY <2>3 DEF FlagSets
  <2>5. x = Group(job.cur, fl, to)
    BY <1>4, <2>1, <2>3
  <2>6. Fresh(x, job.cur, fl, to)
    BY <1>3, <2>2, <2>4, <2>5, NewGroup
  <2>. QED
    BY <2>1, <2>3, <2>6
<1>10. Added(G, ftw, fq, job, g, x)
  <2>1. x \in GroupType /\ ItemsMatch(x)
    BY <1>9 DEF Fresh
  <2>. QED
    BY <1>1, <1>5, <1>6, <2>1, AddGroup
<1>11. Core(G, ftw, fq, job) /\ g \in DOMAIN G /\ G[g] = x /\ g \notin ToSet(ftw.queue) /\ g \notin ToSet(fq)
  BY <1>10 DEF Added
<1>12. StopAt(G, disk, fq, job, groups', disk', fq', job') /\ starts' = StartQueued(starts)
  BY <1>8 DEF Stop, StopAt
<1>13. Core(groups', ftw, fq', job') /\ disk' \in Disks /\ DOMAIN groups' = DOMAIN G
  <2>1. Stopped(G, ftw, groups', disk', fq', job')
    BY <1>1, <1>2, <1>11, <1>12, StopStep
  <2>. QED
    BY <2>1 DEF Stopped
<1>14. groups'[g] = x /\ g \in DOMAIN groups' /\ ToSet(fq') \subseteq ToSet(fq)
  <2>1. g # job.g
    <3>1. job.g \in ToSet(fq)
      BY <1>1, CoreFacts
    <3>. QED
      BY <1>11, <3>1
  <2>2. PICK z : groups' = [G EXCEPT ![job.g] = z]
    BY <1>12 DEF StopAt
  <2>3. fq' = fq \/ fq' = Tail(fq)
    BY <1>12 DEF StopAt
  <2>4. fq # <<>> /\ fq \in Seq(DOMAIN groups)
    BY <1>1 DEF Core, JobAt, Typed
  <2>5. ToSet(Tail(fq)) \subseteq ToSet(fq)
    BY <2>4, PoppedQueue
  <2>. QED
    BY <1>11, <1>13, <2>1, <2>2, <2>3, <2>5
<1>15. s \in Seq(DOMAIN groups') /\ s # <<>> /\ Head(s) = g /\ ToSet(s) = ToSet(ftw.queue) \cup {g}
       /\ IsInjective(s)
  <2>1. ftw.queue \in Seq(DOMAIN groups') /\ IsInjective(ftw.queue)
    BY <1>13 DEF Core, Typed, QueuesAt
  <2>2. Prepended(DOMAIN groups', ftw.queue, g, s)
    BY <1>7, <1>11, <1>14, <2>1, PrependedQueue
  <2>. QED
    BY <2>2 DEF Prepended
<1>16. PICK G2 : G2 = groups'
  OBVIOUS
<1>17. PICK q2 : q2 = fq'
  OBVIOUS
<1>18. PICK j2 : j2 = job'
  OBVIOUS
<1>19. Walking(G, s, disk) = Walking(G2, s, disk)
  <2>1. G[Head(s)] = G2[Head(s)]
    BY <1>11, <1>14, <1>15, <1>16
  <2>. QED
    BY <2>1 DEF Walking, WalkOf
<1>20. Core(G2, ftw', q2, j2)
  <2>1. Untouched(G2[g]) /\ "MOVE" \notin G2[g].flags
    BY <1>9, <1>14, <1>16 DEF Fresh
  <2>2. g \notin ToSet(q2) /\ g \notin ToSet(ftw.queue) /\ g \in DOMAIN G2
    BY <1>11, <1>14, <1>16, <1>17
  <2>3. Core(G2, ftw, q2, j2)
    BY <1>13, <1>16, <1>17, <1>18
  <2>4. s \in Seq(DOMAIN G2) /\ s # <<>> /\ ToSet(s) = ToSet(ftw.queue) \cup {g} /\ IsInjective(s)
    BY <1>15, <1>16
  <2>5. Core(G2, Walking(G2, s, disk), q2, j2)
    BY <2>1, <2>2, <2>3, <2>4, PushWalk
  <2>. QED
    BY <1>8, <1>19, <2>5
<1>21. RestTyped'
  BY <1>1, <1>8, <1>12, <1>13 DEF RestTyped, Disks, StartQueued
<1>. QED
  BY <1>16, <1>17, <1>18, <1>20, <1>21, CoreNext

LEMMA DoCopySafe ==
  ASSUME IInv, DoCopy
  PROVE  IInv'
<1>1. /\ RestTyped /\ job \in JobType /\ job.running /\ CountsAt(job) /\ job.pc = "do_copy"
  BY Running DEF DoCopy
<1>2. disk \in Disks
  BY <1>1 DEF RestTyped, Disks
<1>3. CASE /\ Stop(groups, IF Room(job.cur) THEN Put(disk, job.cur, Dest, "whole") ELSE disk)
           /\ UNCHANGED <<others, ftw>>
  <2>1. PICK D : D = IF Room(job.cur) THEN Put(disk, job.cur, Dest, "whole") ELSE disk
    OBVIOUS
  <2>2. D \in Disks
    BY <1>2, <2>1, PutTyped
  <2>3. StopAt(groups, D, fq, job, groups', disk', fq', job') /\ starts' = StartQueued(starts)
    BY <1>3, <2>1 DEF Stop, StopAt
  <2>. QED
    BY <1>1, <1>3, <2>2, <2>3, StopSafe
<1>4. CASE /\ job' = [job EXCEPT !.pc = "open", !.opening = {"f1", "f2"}]
           /\ UNCHANGED <<disk, others, groups, ftw, fq, starts>>
  <2>1. /\ job' \in JobType /\ job'.running /\ job'.pc = "open" /\ job'.g = job.g
        /\ job'.cur = job.cur /\ job'.opencnt = job.opencnt /\ job'.offset = job.offset
    BY <1>1, <1>4 DEF JobType
  <2>2. CountsAt(job')
    BY <1>1, <2>1 DEF CountsAt
  <2>3. RestTyped'
    BY <1>1, <1>4 DEF RestTyped
  <2>. QED
    BY <1>1, <1>4, <2>1, <2>2, <2>3, GoOnUnmarked
<1>. QED
  BY <1>3, <1>4 DEF DoCopy

(* The job after open_cb and write_cb.                                     *)
JobOpens(j, left, cnt) ==
  [j EXCEPT !.opening = left, !.opencnt = cnt,
            !.pc = IF cnt = 2 THEN "send" ELSE IF left = {} THEN "stuck" ELSE @]
JobWrites(j, last) ==
  [j EXCEPT !.offset = @ + 1, !.pc = IF last THEN "close" ELSE @]

Continues(j, j1) ==
  /\ j1 \in JobType /\ j1.running /\ j1.pc \notin {"idle", "mk_dest"}
  /\ j1.g = j.g /\ j1.cur = j.cur /\ CountsAt(j1)

LEMMA OpenedJob ==
  ASSUME NEW j \in JobType, j.running, CountsAt(j), j.pc = "open", NEW f \in j.opening,
         NEW cnt \in {j.opencnt, j.opencnt + 1}, NEW j1, j1 = JobOpens(j, j.opening \ {f}, cnt)
  PROVE  Continues(j, j1)
<1>1. /\ j1.running /\ j1.g = j.g /\ j1.cur = j.cur /\ j1.offset = j.offset /\ j1.opencnt = cnt
      /\ j1.opening = j.opening \ {f}
      /\ j1.pc = IF cnt = 2 THEN "send" ELSE IF j1.opening = {} THEN "stuck" ELSE "open"
  BY DEF JobType, JobOpens
<1>2. j.offset = 0 /\ j.opencnt \in {0, 1}
  BY DEF CountsAt
<1>3. cnt \in 0..2 /\ 0 < Chunks /\ 0 \in 0..Chunks
  BY <1>2, FileAssumption
<1>4. j1.opening \in SUBSET {"f1", "f2"} /\ j1.opening # {"f1", "f2"}
  BY <1>1 DEF JobType
<1>5. j1 \in JobType
  BY <1>1, <1>3, <1>4 DEF JobType, JobOpens
<1>6. CountsAt(j1)
  BY <1>1, <1>2, <1>3, <1>4 DEF CountsAt
<1>. QED
  BY <1>1, <1>5, <1>6 DEF Continues

LEMMA WrittenJob ==
  ASSUME NEW j \in JobType, j.running, CountsAt(j), j.pc = "send",
         NEW j1, j1 = JobWrites(j, j.offset + 1 = Chunks)
  PROVE  Continues(j, j1)
<1>1. /\ j1.running /\ j1.g = j.g /\ j1.cur = j.cur /\ j1.offset = j.offset + 1
      /\ j1.opencnt = j.opencnt /\ j1.opening = j.opening
      /\ j1.pc = IF j.offset + 1 = Chunks THEN "close" ELSE "send"
  BY DEF JobType, JobWrites
<1>2. j.opencnt = 2 /\ j.offset < Chunks
  BY DEF CountsAt
<1>3. j.offset \in 0..Chunks /\ Chunks \in Nat
  BY FileAssumption DEF JobType
<1>4. j.offset + 1 \in 0..Chunks /\ (j.offset + 1 # Chunks => j.offset + 1 < Chunks)
  BY <1>2, <1>3
<1>5. j1 \in JobType
  BY <1>1, <1>4 DEF JobType, JobWrites
<1>6. CountsAt(j1)
  BY <1>1, <1>2, <1>4 DEF CountsAt
<1>. QED
  BY <1>1, <1>5, <1>6 DEF Continues

LEMMA OpenCbSafe ==
  ASSUME IInv, NEW f \in {"f1", "f2"}, OpenCb(f)
  PROVE  IInv'
<1>1. /\ RestTyped /\ job \in JobType /\ job.running /\ CountsAt(job) /\ job.pc = "open"
      /\ f \in job.opening
  BY Running DEF OpenCb
<1>2. PICK cnt \in {job.opencnt, job.opencnt + 1} : job' = JobOpens(job, job.opening \ {f}, cnt)
  BY DEF OpenCb, JobOpens
<1>3. UNCHANGED <<others, groups, ftw, fq, starts>>
  BY DEF OpenCb
<1>4. Continues(job, job')
  BY <1>1, <1>2, OpenedJob
<1>5. disk' \in Disks
  <2>1. disk \in Disks
    BY <1>1 DEF RestTyped, Disks
  <2>2. disk' = disk \/ disk' = Put(disk, job.cur, Dest, "part")
    BY DEF OpenCb
  <2>. QED
    BY <2>1, <2>2, PutTyped
<1>6. RestTyped'
  BY <1>1, <1>3, <1>5 DEF RestTyped, Disks
<1>. QED
  BY <1>1, <1>3, <1>4, <1>6, GoOnUnmarked DEF Continues

LEMMA WriteCbSafe ==
  ASSUME IInv, WriteCb
  PROVE  IInv'
<1>1. /\ RestTyped /\ job \in JobType /\ job.running /\ CountsAt(job) /\ job.pc = "send"
      /\ groups \in Seq(GroupType) /\ Fg \in GroupType /\ Fg = groups[job.g]
  BY Running DEF WriteCb
<1>2. UNCHANGED <<others, ftw, fq, starts>>
  BY DEF WriteCb
<1>3. CASE /\ job' = JobWrites(job, job.offset + 1 = Chunks)
           /\ disk' = IF job.offset + 1 = Chunks THEN Put(disk, job.cur, Dest, "whole") ELSE disk
           /\ UNCHANGED groups
  <2>1. Continues(job, job')
    BY <1>1, <1>3, WrittenJob
  <2>2. disk' \in Disks
    <3>1. disk \in Disks
      BY <1>1 DEF RestTyped, Disks
    <3>. QED
      BY <1>3, <3>1, PutTyped
  <2>3. RestTyped'
    BY <1>1, <1>2, <2>2 DEF RestTyped, Disks
  <2>. QED
    BY <1>1, <1>2, <1>3, <2>1, <2>3, GoOnUnmarked DEF Continues
<1>4. CASE Failed /\ Goto("close") /\ UNCHANGED disk
  <2>1. PICK x : x = [Fg EXCEPT !.flags = @ \cup {"ERROR"}]
    OBVIOUS
  <2>2. /\ x \in GroupType /\ x.todo = Fg.todo /\ x.items = Fg.items /\ x.refs = Fg.refs
        /\ x.top = Fg.top
        /\ "MOVE" \in x.flags <=> "MOVE" \in Fg.flags
    BY <1>1, <2>1, Flagged
  <2>3. groups' = [groups EXCEPT ![job.g] = x]
    BY <1>1, <1>4, <2>1 DEF Failed
  <2>4. Went(job, job', "close")
    BY <1>1, <1>4, WentTo DEF Goto, Pcs
  <2>5. CountsAt(job')
    BY <1>1, <2>4 DEF Went, CountsAt
  <2>6. RestTyped'
    BY <1>1, <1>2, <1>4 DEF RestTyped
  <2>. QED
    BY <1>1, <1>2, <2>2, <2>3, <2>4, <2>5, <2>6, GoOn DEF Went
<1>. QED
  BY <1>3, <1>4 DEF WriteCb, JobWrites

LEMMA CloseCbSafe ==
  ASSUME IInv, CloseCb
  PROVE  IInv'
<1>1. /\ RestTyped /\ job \in JobType /\ job.running /\ CountsAt(job) /\ job.pc = "close"
  BY Running DEF CloseCb
<1>2. CASE FileStopped
  <2>1. StopAt(groups, disk, fq, job, groups', disk', fq', job')
    BY <1>2 DEF FileStopped, Stop, StopAt
  <2>2. starts' = StartQueued(starts) /\ UNCHANGED <<others, ftw>>
    BY <1>2 DEF FileStopped, Stop
  <2>3. disk \in Disks
    BY <1>1 DEF RestTyped, Disks
  <2>. QED
    BY <1>1, <2>1, <2>2, <2>3, StopSafe
<1>3. CASE /\ job.opencnt > 1 /\ job' = [job EXCEPT !.opencnt = @ - 1]
           /\ UNCHANGED <<disk, others, groups, ftw, fq, starts>>
  <2>1. /\ job' \in JobType /\ job'.running /\ job'.pc = "close" /\ job'.g = job.g
        /\ job'.cur = job.cur
    BY <1>1, <1>3 DEF JobType
  <2>2. CountsAt(job')
    BY <2>1 DEF CountsAt
  <2>3. RestTyped'
    BY <1>1, <1>3 DEF RestTyped
  <2>. QED
    BY <1>1, <1>3, <2>1, <2>2, <2>3, GoOnUnmarked
<1>. QED
  BY <1>2, <1>3 DEF CloseCb

LEMMA OtherSafe ==
  ASSUME IInv, Other
  PROVE  IInv'
<1>1. RestTyped /\ Core(groups, ftw, fq, job)
  BY CoreIsIInv
<1>2. UNCHANGED <<groups, ftw, fq, job, starts>>
  BY DEF Other
<1>3. PICK n \in Nodes : disk' = Put(disk, n, Origin, "none") \/ disk' = Put(disk, n, << "dst", 0 >>, "other")
  BY DEF Other
<1>4. disk' \in Disks
  <2>1. disk \in Disks
    BY <1>1 DEF RestTyped, Disks
  <2>. QED
    BY <1>3, <2>1, PutTyped
<1>5. others' \in [removed : SUBSET Nodes, count : 0..MaxOthers]
  <2>1. /\ others \in [removed : SUBSET Nodes, count : 0..MaxOthers] /\ others.count < MaxOthers
        /\ MaxOthers \in Nat
    BY <1>1, FileAssumption DEF RestTyped, Other
  <2>2. others.count + 1 \in 0..MaxOthers
    BY <2>1
  <2>3. \E m \in Nodes :
          \/ others' = [removed |-> others.removed \cup {m}, count |-> others.count + 1]
          \/ others' = [others EXCEPT !.count = @ + 1]
    BY DEF Other
  <2>. QED
    BY <2>1, <2>2, <2>3
<1>6. RestTyped'
  BY <1>1, <1>2, <1>4, <1>5 DEF RestTyped, Disks
<1>. QED
  BY <1>1, <1>2, <1>6, CoreNext

-----------------------------------------------------------------------------
LEMMA InitSafe == Init => IInv
<1>. SUFFICES ASSUME Init PROVE IInv
  OBVIOUS
<1>1. /\ groups = <<>> /\ fq = <<>> /\ job = NoJob /\ starts = 0 /\ ftw = NoWalk(<<>>)
  BY DEF Init
<1>2. RestTyped
  <2>1. Origin \in Places
    BY FileAssumption DEF Origin, Places
  <2>2. disk \in [Nodes -> [Places -> {"none", "part", "whole", "other"}]]
    BY DEF Init
  <2>3. others \in [removed : SUBSET Nodes, count : 0..MaxOthers]
    BY FileAssumption DEF Init
  <2>. QED
    BY <1>1, <2>2, <2>3 DEF RestTyped
<1>3. NoJob \in JobType /\ ~NoJob.running /\ NoJob.pc = "idle" /\ NoJob.offset = 0
  <2>1. 0 \in 0..Chunks /\ 0 \in 0..2
    BY FileAssumption
  <2>. QED
    BY <2>1 DEF NoJob, JobType
<1>4. ~ftw.running /\ ftw.queue = <<>>
  BY <1>1 DEF NoWalk
<1>5. Typed(groups, ftw, fq, job)
  BY <1>1, <1>3 DEF Typed, NoWalk
<1>6. ToSet(fq) = {} /\ IsInjective(fq) /\ DOMAIN groups = {}
  BY <1>1 DEF ToSet, IsInjective
<1>7. QueuesAt(groups, ftw, fq)
  BY <1>1, <1>4, <1>6 DEF QueuesAt
<1>8. WalkAt(groups, ftw)
  BY <1>4 DEF WalkAt
<1>9. JobAt(groups, fq, job)
  BY <1>1, <1>3 DEF JobAt, CountsAt
<1>. QED
  BY <1>2, <1>5, <1>6, <1>7, <1>8, <1>9, CoreIsIInv DEF Core

LEMMA NextSafe == IInv /\ [Next]_vars => IInv'
<1>. SUFFICES ASSUME IInv, [Next]_vars PROVE IInv'
  OBVIOUS
<1>1. CASE \E kind \in Kinds, n \in Tops : FtwAdd(kind, n)
  BY <1>1, FtwAddSafe
<1>2. CASE FtwCancel
  BY <1>2, FtwCancelSafe
<1>3. CASE Walk
  BY <1>3, WalkSafe
<1>4. CASE WalkEnd
  BY <1>4, WalkEndSafe
<1>5. CASE FileStart
  BY <1>5, FileStartSafe
<1>6. CASE StatSrc
  BY <1>6, StatSrcSafe
<1>7. CASE StatDst
  BY <1>7, StatDstSafe
<1>8. CASE ScanCb
  BY <1>8, ScanCbSafe
<1>9. CASE MkDest
  BY <1>9, MkDestSafe
<1>10. CASE RetryAsCopy
  BY <1>10, RetryAsCopySafe
<1>11. CASE DoCopy
  BY <1>11, DoCopySafe
<1>12. CASE \E f \in {"f1", "f2"} : OpenCb(f)
  BY <1>12, OpenCbSafe
<1>13. CASE WriteCb
  BY <1>13, WriteCbSafe
<1>14. CASE CloseCb
  BY <1>14, CloseCbSafe
<1>15. CASE Other
  BY <1>15, OtherSafe
<1>16. CASE UNCHANGED vars
  <2>1. UNCHANGED <<disk, others, groups, ftw, fq, job, starts>>
    BY <1>16 DEF vars
  <2>2. RestTyped /\ Core(groups, ftw, fq, job)
    BY CoreIsIInv
  <2>3. RestTyped'
    BY <2>1, <2>2 DEF RestTyped
  <2>. QED
    BY <2>1, <2>2, <2>3, CoreNext
<1>. QED
  BY <1>1, <1>2, <1>3, <1>4, <1>5, <1>6, <1>7, <1>8, <1>9, <1>10, <1>11, <1>12, <1>13, <1>14,
     <1>15, <1>16 DEF Next, Job

(* The inductive invariant holds: groups, queues, walk and job agree.      *)
THEOREM InvariantCorrect == Spec => []IInv
<1>1. Init => IInv
  BY InitSafe
<1>2. IInv /\ [Next]_vars => IInv'
  BY NextSafe
<1>. QED
  BY <1>1, <1>2, PTL DEF Spec

(* The queues name groups that exist, and no reference count of ftw_add    *)
(* and clear_fileitem falls below zero.                                    *)
THEOREM TypeCorrect == Spec => []TypeOK
<1>1. IInv => TypeOK
  BY DEF IInv
<1>. QED
  BY <1>1, InvariantCorrect, PTL

(* refs counts the children of each item, every item's parent is live, and *)
(* clear_fileitem frees an item only when nothing needs it.                *)
THEOREM RefsCorrect == Spec => []RefsMatch
<1>1. IInv => RefsMatch
  <2>1. SUFFICES ASSUME IInv, NEW g \in Gs
                 PROVE  /\ InUse(g) \subseteq groups[g].items
                        /\ \A n \in groups[g].items :
                             /\ n # groups[g].top => Parent[n] \in groups[g].items
                             /\ groups[g].refs[n] = Cardinality({c \in groups[g].items : Parent[c] = n})
                             /\ groups[g].refs[n] > 0 \/ n \in InUse(g)
    BY DEF RefsMatch
  <2>2. ItemsMatch(groups[g]) /\ groups[g] \in GroupType
    BY <2>1, CoreIsIInv, CoreFacts DEF IInv, Gs
  <2>3. groups[g].items \subseteq Nodes
    BY <2>2, GroupTyped
  <2>. QED
    BY <2>2, <2>3 DEF ItemsMatch, InUse
<1>. QED
  BY <1>1, InvariantCorrect, PTL

(* do_ftw's order: a directory's item is ahead of those of its entries.    *)
THEOREM DirsFirstCorrect == Spec => []DirsFirst
<1>1. IInv => DirsFirst
  BY DEF IInv, ItemsMatch, DirsFirst
<1>. QED
  BY <1>1, InvariantCorrect, PTL

-----------------------------------------------------------------------------
(* Nothing is lost.  First what becomes of a file system D: its tree, and  *)
(* the files it has whole.                                                 *)
TreeAt(D) ==
  \A n \in Nodes, p \in Places :
    Has(D, n, p) /\ Parent[n] # NoNode => Has(D, Parent[n], p)
WholeAt(D, n) == \E p \in Places : D[n][p] = "whole"

LEMMA TreeAbove ==
  ASSUME NEW D, TreeAt(D), NEW m \in Nodes, NEW n \in Above[m], NEW p \in Places, Has(D, m, p)
  PROVE  Has(D, n, p)
<1>. DEFINE S == {x \in Nodes : Has(D, x, p)}
<1>1. S \in Upward
  BY Forest DEF TreeAt, Upward
<1>2. m \in S
  OBVIOUS
<1>. HIDE DEF S
<1>3. Above[m] \subseteq S
  BY <1>1, <1>2, AboveLeast
<1>. QED
  BY <1>3 DEF S

LEMMA PutAt ==
  ASSUME NEW D \in Disks, NEW n \in Nodes, NEW p \in Places, NEW what \in {"part", "whole", "other"},
         NEW D1, D1 = Put(D, n, p, what)
  PROVE  /\ D1[n][p] = what
         /\ \A m \in Nodes, q \in Places : (m = n /\ q = p) \/ D1[m][q] = D[m][q]
BY DEF Disks, Put

LEMMA PutTree ==
  ASSUME NEW D \in Disks, TreeAt(D), NEW n \in Nodes, NEW p \in Places,
         NEW what \in {"part", "whole", "other"}, NEW D1, D1 = Put(D, n, p, what),
         Has(D, n, p) \/ (Parent[n] # NoNode => Has(D, Parent[n], p))
  PROVE  TreeAt(D1)
<1>1. /\ D1[n][p] # "none"
      /\ \A m \in Nodes, q \in Places : (m = n /\ q = p) \/ D1[m][q] = D[m][q]
  BY PutAt
<1>2. ASSUME NEW m \in Nodes, NEW q \in Places, Has(D1, m, q), Parent[m] # NoNode
      PROVE  Has(D1, Parent[m], q)
  <2>1. Parent[m] \in Nodes
    BY <1>2, Forest
  <2>2. Has(D, Parent[m], q)
    BY <1>1, <1>2 DEF TreeAt, Has
  <2>. QED
    BY <1>1, <2>1, <2>2 DEF Has
<1>. QED
  BY <1>2 DEF TreeAt

LEMMA PutWhole ==
  ASSUME NEW D \in Disks, NEW n \in Nodes, NEW p \in Places, NEW what \in {"part", "whole", "other"},
         NEW D1, D1 = Put(D, n, p, what), what = "whole" \/ ~Has(D, n, p),
         NEW m \in Nodes, WholeAt(D, m)
  PROVE  WholeAt(D1, m)
<1>1. /\ D1[n][p] = what
      /\ \A x \in Nodes, q \in Places : (x = n /\ q = p) \/ D1[x][q] = D[x][q]
  BY PutAt
<1>2. PICK q \in Places : D[m][q] = "whole"
  BY DEF WholeAt
<1>3. D1[m][q] = "whole"
  BY <1>1, <1>2 DEF Has
<1>. QED
  BY <1>3 DEF WholeAt

(* rename finds its new name free, and all that is below goes with it.     *)
LEMMA MovedAt ==
  ASSUME NEW D \in Disks, NEW n \in Nodes, NEW p \in Places, p # Origin, NEW D1, D1 = Moved(D, n, p)
  PROVE  /\ \A m \in Below(n) : /\ m \in Nodes /\ D1[m][p] = D[m][Origin] /\ D1[m][Origin] = "none"
                                /\ \A q \in Places \ {p, Origin} : D1[m][q] = D[m][q]
         /\ \A m \in Nodes \ Below(n) : D1[m] = D[m]
<1>1. Origin \in Places
  BY FileAssumption DEF Origin, Places
<1>2. \A m \in Nodes : D[m] \in [Places -> {"none", "part", "whole", "other"}]
  BY DEF Disks
<1>3. \A m \in Nodes : D1[m] = IF m \in Below(n)
                               THEN [D[m] EXCEPT ![p] = D[m][Origin], ![Origin] = "none"] ELSE D[m]
  BY DEF Moved
<1>. QED
  BY <1>1, <1>2, <1>3 DEF Below

LEMMA MovedTree ==
  ASSUME NEW D \in Disks, TreeAt(D), NEW n \in Nodes, NEW p \in Places, p # Origin,
         Parent[n] = NoNode, NEW D1, D1 = Moved(D, n, p)
  PROVE  TreeAt(D1)
<1>1. /\ \A m \in Below(n) : /\ m \in Nodes /\ D1[m][p] = D[m][Origin] /\ D1[m][Origin] = "none"
                             /\ \A q \in Places \ {p, Origin} : D1[m][q] = D[m][q]
      /\ \A m \in Nodes \ Below(n) : D1[m] = D[m]
  BY MovedAt
<1>2. Origin \in Places
  BY FileAssumption DEF Origin, Places
<1>3. ASSUME NEW m \in Nodes, NEW q \in Places, Has(D1, m, q), Parent[m] # NoNode
      PROVE  Has(D1, Parent[m], q)
  <2>1. Parent[m] \in Nodes
    BY <1>3, Forest
  <2>2. Parent[m] \in Below(n) <=> m \in Below(n)
    <3>1. Above[m] = {m} \cup Above[Parent[m]]
      BY <1>3, AboveParent
    <3>2. m # n
      BY <1>3
    <3>. QED
      BY <2>1, <3>1, <3>2 DEF Below
  <2>3. CASE m \notin Below(n)
    BY <1>1, <1>3, <2>1, <2>2, <2>3 DEF TreeAt, Has
  <2>4. CASE m \in Below(n) /\ q = p
    <3>1. Has(D, m, Origin)
      BY <1>1, <1>3, <2>4 DEF Has
    <3>2. Has(D, Parent[m], Origin)
      BY <1>2, <1>3, <3>1 DEF TreeAt
    <3>. QED
      BY <1>1, <2>2, <2>4, <3>2 DEF Has
  <2>5. CASE m \in Below(n) /\ q # p
    <3>1. q # Origin
      BY <1>1, <1>3, <2>5 DEF Has
    <3>2. Has(D, m, q)
      BY <1>1, <1>3, <2>5, <3>1 DEF Has
    <3>3. Has(D, Parent[m], q)
      BY <1>3, <3>2 DEF TreeAt
    <3>. QED
      BY <1>1, <2>2, <2>5, <3>1, <3>3 DEF Has
  <2>. QED
    BY <2>3, <2>4, <2>5
<1>. QED
  BY <1>3 DEF TreeAt

LEMMA MovedWhole ==
  ASSUME NEW D \in Disks, TreeAt(D), NEW n \in Nodes, NEW p \in Places, p # Origin,
         ~Has(D, n, p), NEW D1, D1 = Moved(D, n, p), NEW m \in Nodes, WholeAt(D, m)
  PROVE  WholeAt(D1, m)
<1>1. /\ \A x \in Below(n) : /\ x \in Nodes /\ D1[x][p] = D[x][Origin] /\ D1[x][Origin] = "none"
                             /\ \A q \in Places \ {p, Origin} : D1[x][q] = D[x][q]
      /\ \A x \in Nodes \ Below(n) : D1[x] = D[x]
  BY MovedAt
<1>2. PICK q \in Places : D[m][q] = "whole"
  BY DEF WholeAt
<1>3. CASE m \notin Below(n)
  BY <1>1, <1>2, <1>3 DEF WholeAt
<1>4. CASE m \in Below(n)
  <2>1. q # p
    <3>1. Has(D, m, q) /\ n \in Above[m]
      BY <1>2, <1>4 DEF Has, Below
    <3>. QED
      BY <3>1, TreeAbove
  <2>2. CASE q = Origin
    BY <1>1, <1>2, <1>4, <2>2 DEF WholeAt
  <2>3. CASE q # Origin
    <3>1. D1[m][q] = "whole"
      BY <1>1, <1>2, <1>4, <2>1, <2>3
    <3>. QED
      BY <3>1 DEF WholeAt
  <2>. QED
    BY <2>2, <2>3
<1>. QED
  BY <1>3, <1>4

(* do_unlink of items that are freed.                                      *)
LEMMA UnlinkedAt ==
  ASSUME NEW D \in Disks, NEW fg, NEW F, NEW D1, D1 = Unlinked(D, fg, F)
  PROVE  /\ \A m \in Nodes : \/ D1[m] = D[m]
                             \/ /\ Unlinks(fg) /\ m \in F /\ D1[m][Origin] = "none"
                                /\ \A x \in Below(m) \ F : ~Has(D, x, Origin)
         /\ \A m \in Nodes, q \in Places \ {Origin} : D1[m][q] = D[m][q]
         /\ \A m \in Nodes : /\ D1[m][Origin] = D[m][Origin] \/ D1[m][Origin] = "none"
                             /\ Unlinks(fg) /\ m \in F /\ (\A x \in Below(m) \ F : ~Has(D, x, Origin))
                                  => D1[m][Origin] = "none"
<1>1. Origin \in Places
  BY FileAssumption DEF Origin, Places
<1>2. \A m \in Nodes : D[m] \in [Places -> {"none", "part", "whole", "other"}]
  BY DEF Disks
<1>3. CASE ~Unlinks(fg)
  <2>1. D1 = D
    BY <1>3 DEF Unlinked
  <2>. QED
    BY <1>3, <2>1
<1>4. CASE Unlinks(fg)
  <2>1. PICK gone : gone = {a \in F : \A m \in Below(a) \ F : ~Has(D, m, Origin)}
    OBVIOUS
  <2>2. \A m \in Nodes : D1[m] = IF m \in gone THEN [D[m] EXCEPT ![Origin] = "none"] ELSE D[m]
    BY <1>4, <2>1 DEF Unlinked
  <2>3. \A m \in Nodes : m \in gone => /\ D1[m][Origin] = "none"
                                       /\ \A q \in Places \ {Origin} : D1[m][q] = D[m][q]
    BY <1>1, <1>2, <2>2
  <2>4. \A m \in Nodes : m \notin gone => D1[m] = D[m]
    BY <2>2
  <2>. QED
    BY <1>4, <2>1, <2>3, <2>4
<1>. QED
  BY <1>3, <1>4

LEMMA UnlinkedTree ==
  ASSUME NEW D \in Disks, TreeAt(D), NEW fg, NEW F, NEW D1, D1 = Unlinked(D, fg, F)
  PROVE  TreeAt(D1)
<1>1. /\ \A m \in Nodes : \/ D1[m] = D[m]
                          \/ /\ Unlinks(fg) /\ m \in F /\ D1[m][Origin] = "none"
                             /\ \A x \in Below(m) \ F : ~Has(D, x, Origin)
      /\ \A m \in Nodes, q \in Places \ {Origin} : D1[m][q] = D[m][q]
      /\ \A m \in Nodes : /\ D1[m][Origin] = D[m][Origin] \/ D1[m][Origin] = "none"
                          /\ Unlinks(fg) /\ m \in F /\ (\A x \in Below(m) \ F : ~Has(D, x, Origin))
                               => D1[m][Origin] = "none"
  BY UnlinkedAt
<1>2. ASSUME NEW m \in Nodes, NEW q \in Places, Has(D1, m, q), Parent[m] # NoNode
      PROVE  Has(D1, Parent[m], q)
  <2>1. Parent[m] \in Nodes
    BY <1>2, Forest
  <2>2. Has(D, m, q)
    BY <1>1, <1>2 DEF Has
  <2>3. Has(D, Parent[m], q)
    BY <1>2, <2>2 DEF TreeAt
  <2>4. CASE q # Origin
    BY <1>1, <2>1, <2>3, <2>4 DEF Has
  <2>5. CASE q = Origin
    <3>1. SUFFICES ASSUME D1[Parent[m]] # D[Parent[m]] PROVE FALSE
      BY <2>3, <2>5 DEF Has
    <3>2. Unlinks(fg) /\ \A x \in Below(Parent[m]) \ F : ~Has(D, x, Origin)
      BY <1>1, <2>1, <3>1
    <3>3. Above[m] = {m} \cup Above[Parent[m]] /\ Parent[m] \in Above[Parent[m]]
      BY <1>2, <2>1, AboveParent, AboveUpward
    <3>4. Below(m) \subseteq Below(Parent[m])
      <4>1. ASSUME NEW x \in Below(m) PROVE x \in Below(Parent[m])
        <5>1. x \in Nodes /\ m \in Above[x]
          BY DEF Below
        <5>2. Above[m] \subseteq Above[x]
          BY <5>1, AboveUpward
        <5>. QED
          BY <3>3, <5>1, <5>2 DEF Below
      <4>. QED
        BY <4>1
    <3>5. m \in Below(m)
      BY AboveUpward DEF Below
    <3>6. m \in F
      BY <2>2, <2>5, <3>2, <3>4, <3>5
    <3>7. D1[m][Origin] = "none"
      BY <1>1, <3>2, <3>4, <3>6
    <3>. QED
      BY <1>2, <2>5, <3>7 DEF Has
  <2>. QED
    BY <2>4, <2>5
<1>. QED
  BY <1>2 DEF TreeAt

LEMMA UnlinkedWhole ==
  ASSUME NEW D \in Disks, NEW fg, NEW F, NEW D1, D1 = Unlinked(D, fg, F),
         NEW m \in Nodes, WholeAt(D, m),
         Unlinks(fg) /\ m \in F => \E q \in Places \ {Origin} : D[m][q] = "whole"
  PROVE  WholeAt(D1, m)
<1>1. /\ D1[m] = D[m] \/ (Unlinks(fg) /\ m \in F)
      /\ \A q \in Places \ {Origin} : D1[m][q] = D[m][q]
  BY UnlinkedAt
<1>. QED
  BY <1>1 DEF WholeAt

-----------------------------------------------------------------------------
(* The flags and destinations of a group.                                  *)
LEMMA TopBelow ==
  ASSUME NEW n \in Nodes
  PROVE  n \in Below(n)
BY AboveUpward DEF Below

LEMMA ParentBelow ==
  ASSUME NEW n \in Nodes, NEW m \in Nodes, Parent[m] # NoNode, Parent[m] \in Below(n)
  PROVE  m \in Below(n)
<1>1. Above[m] = {m} \cup Above[Parent[m]]
  BY AboveParent
<1>. QED
  BY <1>1 DEF Below

LEMMA FlagsFresh ==
  ASSUME NEW n \in Tops, NEW flags, NEW dest \in Places \cup {NoDest}, NEW x, Fresh(x, n, flags, dest),
         \/ flags = {"UNLINK"} /\ dest = NoDest
         \/ (flags = {"COPY"} \/ flags = {"MOVE"}) /\ dest = << "dst", 0 >>
         \/ flags = {"UNLINK", "COPY"} /\ dest = << "dst", 0 >> /\ n \notin Dirs
  PROVE  FlagsMatch(x)
<1>1. /\ x.top = n /\ x.flags = flags /\ x.todo = << n >> /\ x.items = {n} /\ x.dest[n] = dest
      /\ \A m \in Nodes \ {n} : x.dest[m] = NoDest
  BY DEF Fresh
<1>2. n \in Nodes
  BY DEF Tops
<1>3. x.items \subseteq Below(x.top)
  BY <1>1, <1>2, TopBelow
<1>4. NoDest # Origin /\ << "dst", 0 >> # Origin /\ << "dst", 0 >> # NoDest
  BY DEF NoDest, Origin
<1>5. \A m \in Nodes : x.dest[m] = dest \/ x.dest[m] = NoDest
  BY <1>1
<1>6. \A m \in Nodes : x.dest[m] # Origin
  BY <1>4, <1>5
<1>7. x.items \ ToSet(x.todo) = {}
  <2>1. n \in ToSet(<< n >>)
    BY DEF ToSet
  <2>. QED
    BY <1>1, <2>1
<1>8. CASE flags = {"UNLINK"} /\ dest = NoDest
  <2>1. x.flags \cap {"MOVE", "COPY", "UNLINK"} = {"UNLINK"}
    BY <1>1, <1>8
  <2>2. \A m \in Nodes : x.dest[m] = NoDest
    BY <1>5, <1>8
  <2>. QED
    BY <1>3, <1>6, <2>1, <2>2 DEF FlagsMatch
<1>9. CASE flags = {"MOVE"} /\ dest = << "dst", 0 >>
  <2>1. x.flags \cap {"MOVE", "COPY"} = {"MOVE"} /\ "UNLINK" \notin x.flags
    BY <1>1, <1>9
  <2>2. x.dest[x.top] # NoDest
    BY <1>1, <1>4, <1>9
  <2>. QED
    BY <1>3, <1>6, <2>1, <2>2 DEF FlagsMatch
<1>10. CASE "COPY" \in flags /\ dest = << "dst", 0 >>
  <2>1. x.flags \cap {"MOVE", "COPY"} = {"COPY"}
    BY <1>1, <1>10
  <2>2. x.dest[x.top] # NoDest
    BY <1>1, <1>4, <1>10
  <2>3. "UNLINK" \in x.flags => x.top \notin Dirs /\ x.items \subseteq {x.top}
    BY <1>1, <1>10
  <2>. QED
    BY <1>3, <1>6, <1>7, <2>1, <2>2, <2>3 DEF FlagsMatch
<1>. QED
  BY <1>8, <1>9, <1>10

LEMMA FlagsEnt ==
  ASSUME NEW fg \in GroupType, FlagsMatch(fg), NEW n \in Nodes, Parent[n] \in fg.items,
         "MOVE" \notin fg.flags, NEW x, x.flags = fg.flags, x.top = fg.top, x.dest = fg.dest,
         x.items = fg.items \cup {n}, x.items = ToSet(x.todo)
  PROVE  FlagsMatch(x)
<1>1. Parent[n] \in Nodes /\ Parent[n] # NoNode /\ fg.top \in Nodes
  BY GroupTyped, Forest
<1>2. x.items \subseteq Below(x.top)
  <2>1. n \in Below(fg.top)
    BY <1>1, ParentBelow DEF FlagsMatch
  <2>. QED
    BY <2>1 DEF FlagsMatch
<1>3. Parent[n] \in Dirs
  <2>1. Children(Parent[n]) # {}
    BY DEF Children
  <2>. QED
    BY <1>1, <2>1, FileAssumption
<1>4. x.items \ ToSet(x.todo) = {}
  OBVIOUS
<1>5. CASE /\ fg.flags \cap {"MOVE", "COPY"} = {"COPY"} /\ fg.dest[fg.top] # NoDest
           /\ "UNLINK" \in fg.flags => fg.top \notin Dirs /\ fg.items \subseteq {fg.top}
  <2>1. "UNLINK" \notin fg.flags
    BY <1>3, <1>5
  <2>. QED
    BY <1>2, <1>4, <1>5, <2>1 DEF FlagsMatch
<1>6. CASE /\ fg.flags \cap {"MOVE", "COPY", "UNLINK"} = {"UNLINK"}
           /\ \A m \in Nodes : fg.dest[m] = NoDest
  BY <1>2, <1>6 DEF FlagsMatch
<1>. QED
  BY <1>5, <1>6 DEF FlagsMatch

(* do_stat and scan_cb set the destination of the item the job is at.      *)
LEMMA FlagsDest ==
  ASSUME NEW fg \in GroupType, FlagsMatch(fg), NEW n \in Nodes, fg.dest[n] # NoDest \/ "UNLINK" \notin fg.flags \/ "COPY" \in fg.flags,
         NEW to, to # NoDest, to # Origin, NEW x, x = [fg EXCEPT !.dest[n] = to]
  PROVE  FlagsMatch(x)
<1>1. /\ x.flags = fg.flags /\ x.top = fg.top /\ x.items = fg.items /\ x.todo = fg.todo
      /\ x.dest = [fg.dest EXCEPT ![n] = to] /\ fg.dest \in [Nodes -> Places \cup {NoDest}]
  BY DEF GroupType
<1>2. x.dest[n] = to /\ \A m \in Nodes \ {n} : x.dest[m] = fg.dest[m]
  BY <1>1
<1>3. /\ \A m \in Nodes : fg.dest[m] # Origin => x.dest[m] # Origin
      /\ \A m \in Nodes : fg.dest[m] # NoDest => x.dest[m] # NoDest
  BY <1>2
<1>4. ~(/\ fg.flags \cap {"MOVE", "COPY", "UNLINK"} = {"UNLINK"}
        /\ \A m \in Nodes : fg.dest[m] = NoDest)
  OBVIOUS
<1>5. x.items \subseteq Below(x.top) /\ \A m \in Nodes : x.dest[m] # Origin
  BY <1>1, <1>3 DEF FlagsMatch
<1>6. fg.top \in Nodes /\ fg.items \subseteq Nodes
  BY GroupTyped
<1>. QED
  BY <1>1, <1>3, <1>4, <1>5, <1>6 DEF FlagsMatch

LEMMA FlagsError ==
  ASSUME NEW fg \in GroupType, FlagsMatch(fg), NEW x, x = [fg EXCEPT !.flags = @ \cup {"ERROR"}]
  PROVE  FlagsMatch(x)
<1>1. /\ x.flags = fg.flags \cup {"ERROR"} /\ x.top = fg.top /\ x.items = fg.items
      /\ x.todo = fg.todo /\ x.dest = fg.dest
  BY DEF GroupType
<1>2. /\ x.flags \cap {"MOVE", "COPY", "UNLINK"} = fg.flags \cap {"MOVE", "COPY", "UNLINK"}
      /\ x.flags \cap {"MOVE", "COPY"} = fg.flags \cap {"MOVE", "COPY"}
      /\ "UNLINK" \in x.flags <=> "UNLINK" \in fg.flags
  BY <1>1
<1>. QED
  BY <1>1, <1>2 DEF FlagsMatch

(* file_stop takes the item away.                                          *)
LEMMA FlagsClean ==
  ASSUME NEW fg \in GroupType, ItemsMatch(fg), FlagsMatch(fg), fg.todo # <<>>,
         NEW n, n = Head(fg.todo), fg.dest[n] # NoDest \/ "COPY" \notin fg.flags,
         NEW F, F = Freed(fg.refs, n), NEW x, x = Cleaned(fg, F)
  PROVE  FlagsMatch(x)
<1>1. /\ F \subseteq fg.items /\ ToSet(x.todo) = ToSet(fg.todo) \ {n} /\ x.items = fg.items \ F
      /\ x.flags = fg.flags /\ x.top = fg.top /\ x.dest = fg.dest
  <2>1. ItemsFreed(fg, n, F, x)
    BY FreeItems
  <2>. QED
    BY <2>1 DEF ItemsFreed
<1>2. x.items \subseteq Below(x.top) /\ \A m \in Nodes : x.dest[m] # Origin
  BY <1>1 DEF FlagsMatch
<1>3. CASE /\ fg.flags \cap {"MOVE", "COPY", "UNLINK"} = {"UNLINK"}
           /\ \A m \in Nodes : fg.dest[m] = NoDest
  BY <1>1, <1>2, <1>3 DEF FlagsMatch
<1>4. CASE /\ fg.flags \cap {"MOVE", "COPY"} = {"MOVE"} /\ fg.dest[fg.top] # NoDest
           /\ "UNLINK" \in fg.flags => fg.todo = <<>>
  BY <1>1, <1>2, <1>4 DEF FlagsMatch
<1>5. CASE /\ fg.flags \cap {"MOVE", "COPY"} = {"COPY"} /\ fg.dest[fg.top] # NoDest
           /\ \A m \in fg.items \ ToSet(fg.todo) : fg.dest[m] # NoDest
           /\ "UNLINK" \in fg.flags => fg.top \notin Dirs /\ fg.items \subseteq {fg.top}
  <2>1. fg.dest[n] # NoDest
    BY <1>5
  <2>2. \A m \in x.items \ ToSet(x.todo) : x.dest[m] # NoDest
    BY <1>1, <1>5, <2>1
  <2>3. "UNLINK" \in x.flags => x.top \notin Dirs /\ x.items \subseteq {x.top}
    BY <1>1, <1>5
  <2>. QED
    BY <1>1, <1>2, <1>5, <2>2, <2>3 DEF FlagsMatch
<1>. QED
  BY <1>3, <1>4, <1>5 DEF FlagsMatch

(* The one item of a rename is done with it.                               *)
LEMMA OneItem ==
  ASSUME NEW fg \in GroupType, ItemsMatch(fg), fg.todo # <<>>, fg.items \subseteq {fg.top}
  PROVE  Head(fg.todo) = fg.top /\ Tail(fg.todo) = <<>>
<1>1. /\ Head(fg.todo) \in fg.items /\ Tail(fg.todo) \in Seq(Nodes)
      /\ ToSet(Tail(fg.todo)) = ToSet(fg.todo) \ {Head(fg.todo)}
  BY HeadItem
<1>2. Head(fg.todo) = fg.top /\ ToSet(Tail(fg.todo)) = {}
  BY <1>1 DEF ItemsMatch
<1>3. ASSUME Tail(fg.todo) # <<>> PROVE FALSE
  <2>1. PICK t : t = Tail(fg.todo)
    OBVIOUS
  <2>2. t \in Seq(Nodes) /\ t # <<>>
    BY <1>1, <1>3, <2>1
  <2>3. ToSet(t) = ToSet(Tail(t)) \cup {Head(t)}
    BY <2>2, PoppedQueue
  <2>. QED
    BY <1>2, <2>1, <2>3
<1>. QED
  BY <1>2, <1>3

LEMMA FlagsRename ==
  ASSUME NEW fg \in GroupType, ItemsMatch(fg), FlagsMatch(fg), fg.todo # <<>>, "MOVE" \in fg.flags,
         NEW y, y = [fg EXCEPT !.flags = @ \cup {"UNLINK"}],
         NEW F, F = Freed(y.refs, Head(y.todo)), NEW x, x = Cleaned(y, F)
  PROVE  FlagsMatch(x) /\ x.top = fg.top /\ x.dest = fg.dest
<1>1. /\ y \in GroupType /\ y.todo = fg.todo /\ y.items = fg.items /\ y.refs = fg.refs
      /\ y.top = fg.top /\ y.dest = fg.dest /\ y.flags = fg.flags \cup {"UNLINK"}
      /\ "MOVE" \in y.flags <=> "MOVE" \in fg.flags
  BY Flagged
<1>2. ItemsMatch(y)
  BY <1>1 DEF ItemsMatch
<1>3. /\ x.todo = Tail(fg.todo) /\ x.items = fg.items \ F
      /\ x.flags = y.flags /\ x.top = fg.top /\ x.dest = fg.dest
  <2>1. y.todo # <<>>
    BY <1>1
  <2>2. PICK n : n = Head(y.todo)
    OBVIOUS
  <2>3. ItemsFreed(y, n, F, x)
    BY <1>1, <1>2, <2>1, <2>2, FreeItems
  <2>. QED
    BY <1>1, <2>3 DEF ItemsFreed
<1>4. x.todo = <<>>
  <2>1. fg.items \subseteq {fg.top}
    BY DEF ItemsMatch
  <2>. QED
    BY <1>3, <2>1, OneItem
<1>5. fg.flags \cap {"MOVE", "COPY"} = {"MOVE"} /\ fg.dest[fg.top] # NoDest
  BY DEF FlagsMatch
<1>6. x.flags \cap {"MOVE", "COPY"} = {"MOVE"}
  BY <1>1, <1>3, <1>5
<1>7. x.items \subseteq Below(x.top) /\ \A m \in Nodes : x.dest[m] # Origin
  BY <1>3 DEF FlagsMatch
<1>8. FlagsMatch(x)
  BY <1>3, <1>4, <1>5, <1>6, <1>7 DEF FlagsMatch
<1>. QED
  BY <1>3, <1>8

-----------------------------------------------------------------------------
(* What NoLoss rests on, of the disk D, the groups G, the job j and the    *)
(* files R other programs removed.                                         *)
AskedAt(G, n) ==
  \E g \in DOMAIN G : G[g].dest[G[g].top] = NoDest /\ n \in Below(G[g].top)

LossAt(D, G, R) == \A n \in Files : ~AskedAt(G, n) /\ n \notin R => WholeAt(D, n)

WritesAt(D, G, j) ==
  LET to == G[j.g].dest[j.cur] IN
  /\ j.pc \notin {"idle", "stat_src", "stuck"} => to # NoDest
  /\ j.pc \in {"open", "send", "close"} => j.cur \in Files
  /\ j.pc = "open" /\ j.opencnt = 1 /\ "f2" \notin j.opening => Has(D, j.cur, to)
  /\ j.pc = "send" => Has(D, j.cur, to)
  /\ j.pc = "close" /\ "ERROR" \notin G[j.g].flags => D[j.cur][to] = "whole"

Safe(D, G, j, R) ==
  /\ WritesAt(D, G, j) /\ TreeAt(D) /\ LossAt(D, G, R)
  /\ \A g \in DOMAIN G : FlagsMatch(G[g])

LEMMA LossIs == LossInv <=> IInv /\ Safe(disk, groups, job, others.removed)
<1>1. WritesMatch <=> WritesAt(disk, groups, job)
  BY DEF WritesMatch, WritesAt, Dest, Fg
<1>2. TreeMatches <=> TreeAt(disk)
  BY DEF TreeMatches, TreeAt
<1>3. NoLoss <=> LossAt(disk, groups, others.removed)
  BY DEF NoLoss, LossAt, AskedGone, AskedAt, Whole, WholeAt, Gs
<1>. QED
  BY <1>1, <1>2, <1>3 DEF LossInv, Safe, Gs

LEMMA LossNext == LossInv' <=> IInv' /\ Safe(disk', groups', job', others'.removed)
<1>1. WritesMatch' <=> WritesAt(disk', groups', job')
  BY DEF WritesMatch, WritesAt, Dest, Fg
<1>2. TreeMatches' <=> TreeAt(disk')
  BY DEF TreeMatches, TreeAt
<1>3. NoLoss' <=> LossAt(disk', groups', others'.removed)
  BY DEF NoLoss, LossAt, AskedGone, AskedAt, Whole, WholeAt, Gs
<1>. QED
  BY <1>1, <1>2, <1>3 DEF LossInv, Safe, Gs

(* Groups stay, and with them what was asked to go.                        *)
Grows(G, G1) ==
  /\ DOMAIN G \subseteq DOMAIN G1
  /\ \A g \in DOMAIN G : /\ G1[g].top = G[g].top
                         /\ G[g].dest[G[g].top] = NoDest => G1[g].dest[G1[g].top] = NoDest

LEMMA LossKept ==
  ASSUME NEW D, NEW G, NEW R, LossAt(D, G, R), NEW D1, NEW G1, NEW R1, Grows(G, G1), R \subseteq R1,
         \A n \in Files : WholeAt(D, n) => WholeAt(D1, n) \/ AskedAt(G1, n) \/ n \in R1
  PROVE  LossAt(D1, G1, R1)
<1>1. \A n : AskedAt(G, n) => AskedAt(G1, n)
  BY DEF Grows, AskedAt
<1>. QED
  BY <1>1 DEF LossAt

(* Steps that leave the disk alone.                                        *)
LEMMA Quiet ==
  ASSUME NEW D, NEW G, NEW j, NEW R, Safe(D, G, j, R), NEW G1, NEW j1, Grows(G, G1),
         \A g \in DOMAIN G1 : FlagsMatch(G1[g]),
         \/ /\ j1 = j
            /\ j.pc # "idle" => G1[j.g].dest = G[j.g].dest /\ G1[j.g].flags = G[j.g].flags
         \/ j1.pc \in {"idle", "stat_src", "stuck"}
  PROVE  Safe(D, G1, j1, R)
<1>1. LossAt(D, G1, R)
  BY LossKept DEF Safe
<1>2. WritesAt(D, G1, j1)
  <2>1. CASE j1.pc \in {"idle", "stat_src", "stuck"}
    BY <2>1 DEF WritesAt
  <2>2. CASE /\ j1 = j
             /\ j.pc # "idle" => G1[j.g].dest = G[j.g].dest /\ G1[j.g].flags = G[j.g].flags
    BY <2>2 DEF WritesAt, Safe
  <2>. QED
    BY <2>1, <2>2
<1>. QED
  BY <1>1, <1>2 DEF Safe

(* One lemma for each action again.                                        *)
LEMMA StartedJob ==
  ASSUME NEW G, NEW q, NEW j
  PROVE  Started(G, q, j) = j \/ Started(G, q, j).pc = "stat_src"
BY DEF Started, JobOf

LEMMA GroupsKept ==
  ASSUME NEW D, NEW G, NEW j, NEW R, Safe(D, G, j, R), NEW j1, j1 = j \/ j1.pc \in {"stat_src", "stuck"}
  PROVE  Safe(D, G, j1, R)
<1>1. Grows(G, G) /\ \A g \in DOMAIN G : FlagsMatch(G[g])
  BY DEF Grows, Safe
<1>. QED
  BY <1>1, Quiet

LEMMA FtwAddLoss ==
  ASSUME LossInv, NEW kind \in Kinds, NEW n \in Tops, FtwAdd(kind, n)
  PROVE  Safe(disk', groups', job', others'.removed)
<1>1. IInv /\ Safe(disk, groups, job, others.removed)
  BY LossIs
<1>2. RestTyped /\ Core(groups, ftw, fq, job)
  BY <1>1, CoreIsIInv
<1>3. kind \in {"copy", "move", "remove"}
  BY FileAssumption
<1>4. PICK fl, to : /\ groups' = Append(groups, Group(n, fl, to))
                    /\ \/ fl = {"UNLINK"} /\ to = NoDest
                       \/ (fl = {"COPY"} \/ fl = {"MOVE"}) /\ to = << "dst", 0 >>
  <2>1. CASE kind = "move"
    <3>1. groups' = Append(groups, Group(n, {"MOVE"}, << "dst", 0 >>))
      BY <2>1 DEF FtwAdd
    <3>. QED
      BY <3>1
  <2>2. CASE kind = "copy"
    <3>1. groups' = Append(groups, Group(n, {"COPY"}, << "dst", 0 >>))
      BY <2>2 DEF FtwAdd
    <3>. QED
      BY <3>1
  <2>3. CASE kind = "remove"
    <3>1. groups' = Append(groups, Group(n, {"UNLINK"}, NoDest))
      BY <2>3 DEF FtwAdd
    <3>. QED
      BY <3>1
  <2>. QED
    BY <1>3, <2>1, <2>2, <2>3
<1>5. PICK x : x = Group(n, fl, to)
  OBVIOUS
<1>6. fl \in FlagSets /\ to \in Places \cup {NoDest}
  <2>1. << "dst", 0 >> \in Places
    BY FileAssumption DEF Places
  <2>. QED
    BY <1>4, <2>1 DEF FlagSets
<1>7. Fresh(x, n, fl, to)
  BY <1>5, <1>6, NewGroup
<1>8. FlagsMatch(x) /\ x \in GroupType
  <2>1. \/ fl = {"UNLINK"} /\ to = NoDest
        \/ (fl = {"COPY"} \/ fl = {"MOVE"}) /\ to = << "dst", 0 >>
        \/ fl = {"UNLINK", "COPY"} /\ to = << "dst", 0 >> /\ n \notin Dirs
    BY <1>4
  <2>2. FlagsMatch(x)
    BY <1>6, <1>7, <2>1, FlagsFresh
  <2>. QED
    BY <1>7, <2>2 DEF Fresh
<1>9. /\ DOMAIN groups' = DOMAIN groups \cup {Len(groups) + 1} /\ groups'[Len(groups) + 1] = x
      /\ \A h \in DOMAIN groups : groups'[h] = groups[h]
  <2>1. groups \in Seq(GroupType) /\ groups' = Append(groups, x)
    BY <1>2, <1>4, <1>5 DEF Core, Typed
  <2>. QED
    BY <1>8, <2>1, AppendedQueue
<1>10. Grows(groups, groups') /\ \A h \in DOMAIN groups' : FlagsMatch(groups'[h])
  BY <1>1, <1>8, <1>9 DEF Grows, Safe
<1>11. job.pc # "idle" => job.g \in DOMAIN groups
  BY <1>1, Running
<1>12. job' = job \/ job'.pc = "stat_src"
  BY StartedJob DEF FtwAdd
<1>13. disk' = disk /\ others' = others
  BY DEF FtwAdd
<1>. QED
  BY <1>1, <1>9, <1>10, <1>11, <1>12, <1>13, Quiet

LEMMA WalkLoss ==
  ASSUME LossInv, Walk
  PROVE  Safe(disk', groups', job', others'.removed)
<1>1. IInv /\ Safe(disk, groups, job, others.removed)
  BY LossIs
<1>2. RestTyped /\ Core(groups, ftw, fq, job)
  BY <1>1, CoreIsIInv
<1>3. /\ ftw.running /\ ftw.stack # <<>>
      /\ UNCHANGED <<disk, others, fq, job, starts>>
  BY DEF Walk, Chained
<1>4. CASE UNCHANGED groups
  BY <1>1, <1>3, <1>4
<1>5. CASE ~UNCHANGED groups
  <2>. DEFINE L    == Len(ftw.stack)
              top  == ftw.stack[L]
  <2>1. PICK n \in top.rest : groups' = [groups EXCEPT ![ftw.g] = AddEnt(groups[ftw.g], n)]
    BY <1>5 DEF Walk
  <2>2. PICK fg : fg = groups[ftw.g]
    OBVIOUS
  <2>3. PICK x : x = AddEnt(fg, n)
    OBVIOUS
  <2>4. /\ ftw.g \in DOMAIN groups /\ fg \in GroupType /\ ItemsMatch(fg) /\ groups \in Seq(GroupType)
        /\ ftw.g \in ToSet(ftw.queue) /\ fg.items = ToSet(fg.todo)
        /\ FramesAt(fg, ftw.stack) /\ ftw.stack \in Seq(Frames) /\ "MOVE" \notin fg.flags
    BY <1>2, <1>3, <2>2, CoreFacts DEF Core, Typed, WalkAt, QueuesAt
  <2>5. n \in Nodes \ fg.items /\ Parent[n] \in fg.items
    <3>1. FramesKept(fg, top, SubSeq(ftw.stack, 1, L - 1))
      BY <1>3, <2>4, WalkFrames
    <3>. QED
      BY <3>1 DEF FramesKept
  <2>6. /\ x \in GroupType /\ x.items = fg.items \cup {n} /\ x.items = ToSet(x.todo)
        /\ x.flags = fg.flags /\ x.top = fg.top /\ x.dest = fg.dest
    BY <2>3, <2>4, <2>5, AddEntItems
  <2>7. FlagsMatch(x)
    <3>1. FlagsMatch(fg)
      BY <1>1, <2>2, <2>4 DEF Safe
    <3>. QED
      BY <2>4, <2>5, <2>6, <3>1, FlagsEnt
  <2>8. groups' = [groups EXCEPT ![ftw.g] = x]
    BY <2>1, <2>2, <2>3
  <2>9. /\ DOMAIN groups' = DOMAIN groups /\ groups'[ftw.g] = x
        /\ \A h \in DOMAIN groups : h # ftw.g => groups'[h] = groups[h]
    BY <2>4, <2>6, <2>8, GroupSet
  <2>10. Grows(groups, groups') /\ \A h \in DOMAIN groups' : FlagsMatch(groups'[h])
    BY <1>1, <2>2, <2>6, <2>7, <2>9 DEF Grows, Safe
  <2>11. job.pc # "idle" => job.g \in DOMAIN groups /\ job.g # ftw.g
    <3>1. ASSUME job.pc # "idle" PROVE job.g \in DOMAIN groups /\ job.g \notin ToSet(ftw.queue)
      <4>1. job.running
        BY <1>1, <3>1, Running
      <4>. QED
        BY <1>2, <4>1, CoreFacts
    <3>. QED
      BY <2>4, <3>1
  <2>. QED
    BY <1>1, <1>3, <2>9, <2>10, <2>11, Quiet
<1>. QED
  BY <1>4, <1>5

LEMMA RestLoss ==
  ASSUME LossInv, FtwCancel \/ WalkEnd \/ FileStart \/ UNCHANGED vars
  PROVE  Safe(disk', groups', job', others'.removed)
<1>1. Safe(disk, groups, job, others.removed)
  BY LossIs
<1>2. UNCHANGED <<disk, others, groups>> /\ (job' = job \/ job'.pc = "stat_src")
  BY StartedJob DEF FtwCancel, WalkEnd, FileStart, vars
<1>. QED
  BY <1>1, <1>2, GroupsKept

(* One group changes.                                                      *)
Marked(G, G1, g, x) ==
  /\ Grows(G, G1) /\ \A h \in DOMAIN G1 : FlagsMatch(G1[h])
  /\ G1[g] = x /\ DOMAIN G1 = DOMAIN G

LEMMA GroupMarked ==
  ASSUME NEW G \in Seq(GroupType), NEW g \in DOMAIN G, \A h \in DOMAIN G \ {g} : FlagsMatch(G[h]),
         NEW x \in GroupType, FlagsMatch(x), x.top = G[g].top,
         G[g].dest[G[g].top] = NoDest => x.dest[x.top] = NoDest,
         NEW G1, G1 = [G EXCEPT ![g] = x]
  PROVE  Marked(G, G1, g, x)
<1>1. /\ DOMAIN G1 = DOMAIN G /\ G1[g] = x
      /\ \A h \in DOMAIN G : h # g => G1[h] = G[h]
  BY GroupSet
<1>. QED
  BY <1>1 DEF Marked, Grows

(* The job looks at names.                                                 *)
LEMMA Looks ==
  ASSUME NEW D, NEW G, NEW j, NEW R, Safe(D, G, j, R), NEW G1, NEW j1, Grows(G, G1),
         \A g \in DOMAIN G1 : FlagsMatch(G1[g]),
         j1.pc \notin {"open", "send", "close"}, G1[j1.g].dest[j1.cur] # NoDest
  PROVE  Safe(D, G1, j1, R)
<1>1. LossAt(D, G1, R)
  BY LossKept DEF Safe
<1>2. WritesAt(D, G1, j1)
  BY DEF WritesAt
<1>. QED
  BY <1>1, <1>2 DEF Safe

(* file_stop loses no file, if what it unlinks was to go or is elsewhere.  *)
LEMMA StopLoss ==
  ASSUME NEW G, NEW w, NEW q, NEW j, NEW D \in Disks, Core(G, w, q, j), j.running, NEW R,
         TreeAt(D), LossAt(D, G, R), \A h \in DOMAIN G \ {j.g} : FlagsMatch(G[h]),
         NEW F, F = Freed(G[j.g].refs, j.cur), NEW x, x = Cleaned(G[j.g], F), FlagsMatch(x),
         \A m \in Files : m \in F /\ Unlinks(G[j.g]) /\ WholeAt(D, m) =>
           AskedAt(G, m) \/ \E p \in Places \ {Origin} : D[m][p] = "whole",
         NEW G1, NEW D1, NEW q1, NEW j1, StopAt(G, D, q, j, G1, D1, q1, j1)
  PROVE  Safe(D1, G1, j1, R)
<1>1. G1 = [G EXCEPT ![j.g] = x] /\ D1 = Unlinked(D, G[j.g], F) /\ j1 = NoJob
  BY DEF StopAt
<1>2. /\ G \in Seq(GroupType) /\ j.g \in DOMAIN G /\ x \in GroupType
      /\ x.top = G[j.g].top /\ x.dest = G[j.g].dest
  <2>1. PICK fg : fg = G[j.g]
    OBVIOUS
  <2>2. PICK n : n = j.cur
    OBVIOUS
  <2>3. /\ G \in Seq(GroupType) /\ j.g \in DOMAIN G
        /\ fg \in GroupType /\ ItemsMatch(fg) /\ fg.todo # <<>> /\ n = Head(fg.todo)
    BY <2>1, <2>2, CoreFacts DEF Core, JobAt
  <2>4. F = Freed(fg.refs, n) /\ x = Cleaned(fg, F)
    BY <2>1, <2>2
  <2>5. ItemsFreed(fg, n, F, x)
    BY <2>3, <2>4, FreeItems
  <2>. QED
    BY <2>1, <2>3, <2>5 DEF ItemsFreed
<1>3. Marked(G, G1, j.g, x)
  <2>1. PICK g : g = j.g
    OBVIOUS
  <2>2. /\ g \in DOMAIN G /\ x.top = G[g].top /\ G1 = [G EXCEPT ![g] = x]
        /\ G[g].dest[G[g].top] = NoDest => x.dest[x.top] = NoDest
    BY <1>1, <1>2, <2>1
  <2>3. \A h \in DOMAIN G \ {g} : FlagsMatch(G[h])
    BY <2>1
  <2>4. Marked(G, G1, g, x)
    BY <1>2, <2>2, <2>3, GroupMarked
  <2>. QED
    BY <2>1, <2>4
<1>4. TreeAt(D1)
  BY <1>1, UnlinkedTree
<1>5. LossAt(D1, G1, R)
  <2>1. \A n : AskedAt(G, n) => AskedAt(G1, n)
    BY <1>3 DEF Marked, Grows, AskedAt
  <2>2. ASSUME NEW m \in Files, WholeAt(D, m), ~AskedAt(G1, m)
        PROVE  WholeAt(D1, m)
    <3>1. m \in Nodes
      BY DEF Files
    <3>2. Unlinks(G[j.g]) /\ m \in F => \E p \in Places \ {Origin} : D[m][p] = "whole"
      BY <2>1, <2>2
    <3>. QED
      BY <1>1, <2>2, <3>1, <3>2, UnlinkedWhole
  <2>3. \A m \in Files : WholeAt(D, m) => WholeAt(D1, m) \/ AskedAt(G1, m) \/ m \in R
    BY <2>2
  <2>. QED
    BY <1>3, <2>3, LossKept DEF Marked
<1>6. WritesAt(D1, G1, j1)
  BY <1>1 DEF WritesAt, NoJob
<1>. QED
  BY <1>3, <1>4, <1>5, <1>6 DEF Safe, Marked

(* What the groups allow the job.                                          *)
LEMMA Removes ==
  ASSUME NEW fg \in GroupType, FlagsMatch(fg), fg.todo # <<>>, ItemsMatch(fg), NEW n, n = Head(fg.todo),
         "UNLINK" \in fg.flags, fg.dest[n] = NoDest
  PROVE  "COPY" \notin fg.flags /\ fg.dest[fg.top] = NoDest
<1>1. n \in Nodes /\ n \in fg.items /\ fg.top \in Nodes
  BY HeadItem, GroupTyped
<1>2. CASE /\ fg.flags \cap {"MOVE", "COPY", "UNLINK"} = {"UNLINK"}
           /\ \A m \in Nodes : fg.dest[m] = NoDest
  BY <1>1, <1>2
<1>3. CASE /\ fg.flags \cap {"MOVE", "COPY"} = {"COPY"} /\ fg.dest[fg.top] # NoDest
           /\ "UNLINK" \in fg.flags => fg.top \notin Dirs /\ fg.items \subseteq {fg.top}
  BY <1>1, <1>3
<1>. QED
  BY <1>2, <1>3 DEF FlagsMatch

LEMMA Makes ==
  ASSUME NEW fg \in GroupType, FlagsMatch(fg), fg.todo # <<>>, ItemsMatch(fg), NEW n, n = Head(fg.todo),
         "UNLINK" \notin fg.flags \/ fg.dest[n] # NoDest
  PROVE  /\ fg.dest[fg.top] # NoDest
         /\ "UNLINK" \in fg.flags => /\ "COPY" \in fg.flags /\ n = fg.top
                                     /\ n \notin Dirs /\ fg.items \subseteq {fg.top}
<1>1. n \in Nodes /\ n \in fg.items /\ fg.top \in Nodes
  BY HeadItem, GroupTyped
<1>2. ~(/\ fg.flags \cap {"MOVE", "COPY", "UNLINK"} = {"UNLINK"}
        /\ \A m \in Nodes : fg.dest[m] = NoDest)
  BY <1>1
<1>. QED
  BY <1>1, <1>2 DEF FlagsMatch

LEMMA StatSrcLoss ==
  ASSUME LossInv, StatSrc
  PROVE  Safe(disk', groups', job', others'.removed)
<1>1. IInv /\ Safe(disk, groups, job, others.removed)
  BY LossIs
<1>2. PICK fg : fg = Fg
  OBVIOUS
<1>3. PICK n : n = job.cur
  OBVIOUS
<1>4. /\ RestTyped /\ Core(groups, ftw, fq, job) /\ job.running /\ job \in JobType
      /\ groups \in Seq(GroupType) /\ fg \in GroupType /\ fg = groups[job.g] /\ ItemsMatch(fg)
      /\ fg.todo # <<>> /\ n = Head(fg.todo) /\ n \in Nodes /\ n \in fg.items
      /\ Dest \in Places \cup {NoDest} /\ Dest = fg.dest[n]
      /\ job.g \in DOMAIN groups /\ job.pc = "stat_src"
  BY <1>1, <1>2, <1>3, Running DEF StatSrc, Dest
<1>5. FlagsMatch(fg) /\ disk \in Disks
  BY <1>1, <1>4 DEF Safe, RestTyped, Disks
<1>6. CASE RemovesItem /\ FileStopped
  <2>1. PICK F : F = Freed(fg.refs, n)
    OBVIOUS
  <2>2. PICK x : x = Cleaned(fg, F)
    OBVIOUS
  <2>3. "COPY" \notin fg.flags /\ fg.dest[fg.top] = NoDest
    <3>1. "UNLINK" \in fg.flags /\ fg.dest[n] = NoDest
      BY <1>2, <1>4, <1>6 DEF RemovesItem
    <3>. QED
      BY <1>4, <1>5, <3>1, Removes
  <2>4. FlagsMatch(x)
    BY <1>4, <1>5, <2>1, <2>2, <2>3, FlagsClean
  <2>5. \A m \in F : AskedAt(groups, m)
    <3>1. ItemsFreed(fg, n, F, x)
      BY <1>4, <2>1, <2>2, FreeItems
    <3>2. \A m \in F : m \in Below(fg.top)
      BY <1>5, <3>1 DEF ItemsFreed, FlagsMatch
    <3>. QED
      BY <1>4, <2>3, <3>2 DEF AskedAt
  <2>6. StopAt(groups, disk, fq, job, groups', disk', fq', job') /\ others' = others
    BY <1>6 DEF FileStopped, Stop, StopAt
  <2>7. F = Freed(groups[job.g].refs, job.cur) /\ x = Cleaned(groups[job.g], F)
    BY <1>3, <1>4, <2>1, <2>2
  <2>8. /\ TreeAt(disk) /\ LossAt(disk, groups, others.removed)
        /\ \A h \in DOMAIN groups \ {job.g} : FlagsMatch(groups[h])
    BY <1>1 DEF Safe
  <2>9. \A m \in Files : m \in F /\ Unlinks(groups[job.g]) /\ WholeAt(disk, m) =>
           AskedAt(groups, m) \/ \E p \in Places \ {Origin} : disk[m][p] = "whole"
    BY <2>5
  <2>10. Safe(disk', groups', job', others.removed)
    BY <1>4, <1>5, <2>4, <2>6, <2>7, <2>8, <2>9, StopLoss
  <2>. QED
    BY <2>6, <2>10
<1>7. CASE /\ ~RemovesItem /\ groups' = [groups EXCEPT ![job.g].dest[job.cur] = CurDest]
           /\ Goto("stat_dst") /\ UNCHANGED <<disk, others, ftw, fq, starts>>
  <2>1. PICK to : to = CurDest
    OBVIOUS
  <2>2. "UNLINK" \notin fg.flags \/ fg.dest[n] # NoDest
    BY <1>2, <1>4, <1>7 DEF RemovesItem
  <2>3. fg.dest[fg.top] # NoDest
    BY <1>4, <1>5, <2>2, Makes
  <2>4. to \in Places \cup {NoDest} /\ to # NoDest /\ to # Origin
    <3>1. CASE "MOVE" \in fg.flags \/ Parent[n] \notin fg.items
      <4>1. to = fg.dest[n]
        BY <1>2, <1>3, <1>4, <2>1, <3>1 DEF CurDest
      <4>2. n = fg.top
        BY <1>4, <3>1 DEF ItemsMatch
      <4>. QED
        BY <1>4, <1>5, <2>3, <4>1, <4>2 DEF FlagsMatch
    <3>2. CASE "MOVE" \notin fg.flags /\ Parent[n] \in fg.items
      <4>1. to = fg.dest[Parent[n]]
        BY <1>2, <1>3, <1>4, <2>1, <3>2 DEF CurDest
      <4>2. Parent[n] \in Nodes /\ fg.dest \in [Nodes -> Places \cup {NoDest}]
        BY <1>4, <3>2, GroupTyped
      <4>3. Parent[n] \notin ToSet(fg.todo)
        BY <1>4, HeadItem
      <4>4. to # NoDest
        <5>1. fg.flags \cap {"MOVE", "COPY", "UNLINK"} # {"UNLINK"} \/ fg.dest[fg.top] # NoDest
          BY <2>3
        <5>2. fg.top \in Nodes
          BY <1>4, GroupTyped
        <5>. QED
          BY <1>5, <2>3, <3>2, <4>1, <4>3, <5>2 DEF FlagsMatch
      <4>5. to # Origin
        BY <1>5, <4>1, <4>2 DEF FlagsMatch
      <4>. QED
        BY <4>1, <4>2, <4>4, <4>5
    <3>. QED
      BY <3>1, <3>2
  <2>5. PICK x : x = [fg EXCEPT !.dest[n] = to]
    OBVIOUS
  <2>6. /\ x \in GroupType /\ x.top = fg.top /\ x.dest[n] = to
    <3>1. x.dest = [fg.dest EXCEPT ![n] = to] /\ x.top = fg.top /\ fg.dest \in [Nodes -> Places \cup {NoDest}]
      BY <1>4, <2>5 DEF GroupType
    <3>2. x \in GroupType
      BY <1>4, <2>4, <2>5 DEF GroupType
    <3>. QED
      BY <1>4, <3>1, <3>2
  <2>7. FlagsMatch(x)
    <3>1. fg.dest[n] # NoDest \/ "UNLINK" \notin fg.flags \/ "COPY" \in fg.flags
      BY <2>2
    <3>. QED
      BY <1>4, <1>5, <2>4, <2>5, <3>1, FlagsDest
  <2>8. groups' = [groups EXCEPT ![job.g] = x]
    BY <1>2, <1>3, <1>4, <1>7, <2>1, <2>5
  <2>9. Marked(groups, groups', job.g, x)
    <3>1. /\ groups[job.g].dest[groups[job.g].top] = NoDest => x.dest[x.top] = NoDest
          /\ x.top = groups[job.g].top
      BY <1>4, <2>3, <2>6
    <3>2. \A h \in DOMAIN groups \ {job.g} : FlagsMatch(groups[h])
      BY <1>1 DEF Safe
    <3>. QED
      BY <1>4, <2>6, <2>7, <2>8, <3>1, <3>2, GroupMarked
  <2>10. Went(job, job', "stat_dst")
    BY <1>4, <1>7, WentTo DEF Goto, Pcs
  <2>11. Safe(disk, groups', job', others.removed)
    <3>1. job'.pc \notin {"open", "send", "close"} /\ groups'[job'.g].dest[job'.cur] # NoDest
      BY <1>3, <2>4, <2>6, <2>9, <2>10 DEF Went, Marked
    <3>. QED
      BY <1>1, <2>9, <3>1, Looks DEF Marked
  <2>. QED
    BY <1>7, <2>11
<1>8. CASE Goto("stuck") /\ UNCHANGED <<disk, others, groups, ftw, fq, starts>>
  <2>1. Went(job, job', "stuck")
    BY <1>4, <1>8, WentTo DEF Goto, Pcs
  <2>. QED
    BY <1>1, <1>8, <2>1, GroupsKept DEF Went
<1>. QED
  BY <1>6, <1>7, <1>8 DEF StatSrc

(* What holds while the job is past do_stat of the source.                 *)
AtWork(fg, n, to) ==
  /\ Safe(disk, groups, job, others.removed) /\ Core(groups, ftw, fq, job)
  /\ job.running /\ job \in JobType /\ CountsAt(job) /\ groups \in Seq(GroupType)
  /\ fg \in GroupType /\ fg = groups[job.g] /\ ItemsMatch(fg) /\ FlagsMatch(fg) /\ fg.todo # <<>>
  /\ n = job.cur /\ n = Head(fg.todo) /\ n \in Nodes /\ n \in fg.items
  /\ to = fg.dest[n] /\ to \in Places /\ to # NoDest /\ to # Origin
  /\ job.g \in DOMAIN groups /\ disk \in Disks
  /\ TreeAt(disk) /\ LossAt(disk, groups, others.removed) /\ WritesAt(disk, groups, job)
  /\ \A h \in DOMAIN groups \ {job.g} : FlagsMatch(groups[h])
  /\ fg.dest[fg.top] # NoDest
  /\ "UNLINK" \in fg.flags => /\ "COPY" \in fg.flags /\ n = fg.top
                              /\ n \notin Dirs /\ fg.items \subseteq {fg.top}

LEMMA Working ==
  ASSUME LossInv, job.pc \notin {"idle", "stat_src", "stuck"},
         NEW fg, fg = Fg, NEW n, n = job.cur, NEW to, to = Dest
  PROVE  AtWork(fg, n, to)
<1>1. IInv /\ Safe(disk, groups, job, others.removed)
  BY LossIs
<1>2. /\ RestTyped /\ Core(groups, ftw, fq, job) /\ job.running /\ job \in JobType /\ CountsAt(job)
      /\ groups \in Seq(GroupType) /\ fg \in GroupType /\ fg = groups[job.g] /\ ItemsMatch(fg)
      /\ fg.todo # <<>> /\ n = Head(fg.todo) /\ n \in Nodes /\ n \in fg.items
      /\ to \in Places \cup {NoDest} /\ to = fg.dest[n]
      /\ job.g \in DOMAIN groups
  BY <1>1, Running DEF Dest
<1>3. /\ FlagsMatch(fg) /\ disk \in Disks
      /\ TreeAt(disk) /\ LossAt(disk, groups, others.removed) /\ WritesAt(disk, groups, job)
      /\ \A h \in DOMAIN groups \ {job.g} : FlagsMatch(groups[h])
  BY <1>1, <1>2 DEF Safe, RestTyped, Disks
<1>4. to # NoDest
  BY <1>2, <1>3 DEF WritesAt
<1>5. to # Origin
  BY <1>2, <1>3 DEF FlagsMatch
<1>6. /\ fg.dest[fg.top] # NoDest
      /\ "UNLINK" \in fg.flags => /\ "COPY" \in fg.flags /\ n = fg.top
                                  /\ n \notin Dirs /\ fg.items \subseteq {fg.top}
  BY <1>2, <1>3, <1>4, Makes
<1>. QED
  BY <1>1, <1>2, <1>3, <1>4, <1>5, <1>6 DEF AtWork

LEMMA StatDstLoss ==
  ASSUME LossInv, StatDst
  PROVE  Safe(disk', groups', job', others'.removed)
<1>1. PICK fg : fg = Fg
  OBVIOUS
<1>2. PICK n : n = job.cur
  OBVIOUS
<1>3. PICK to : to = Dest
  OBVIOUS
<1>4. AtWork(fg, n, to)
  BY <1>1, <1>2, <1>3, Working DEF StatDst
<1>5. UNCHANGED <<disk, others, groups>> /\ \E pc \in {"scan", "mk_dest", "do_copy"} : job' = [job EXCEPT !.pc = pc]
  BY DEF StatDst, Goto
<1>6. /\ job'.pc \notin {"open", "send", "close"} /\ job'.g = job.g /\ job'.cur = job.cur
  BY <1>4, <1>5 DEF AtWork, JobType
<1>7. groups[job'.g].dest[job'.cur] # NoDest
  BY <1>4, <1>6 DEF AtWork
<1>8. Grows(groups, groups) /\ \A g \in DOMAIN groups : FlagsMatch(groups[g])
  BY <1>4 DEF Grows, AtWork, Safe
<1>9. Safe(disk, groups, job', others.removed)
  BY <1>4, <1>6, <1>7, <1>8, Looks DEF AtWork
<1>. QED
  BY <1>5, <1>9

LEMMA ScanCbLoss ==
  ASSUME LossInv, ScanCb
  PROVE  Safe(disk', groups', job', others'.removed)
<1>1. PICK fg : fg = Fg
  OBVIOUS
<1>2. PICK n : n = job.cur
  OBVIOUS
<1>3. PICK to : to = Dest
  OBVIOUS
<1>4. AtWork(fg, n, to)
  BY <1>1, <1>2, <1>3, Working DEF ScanCb
<1>5. /\ groups' = [groups EXCEPT ![job.g].dest[job.cur] = VersionName(@)]
      /\ job' = [job EXCEPT !.pc = "stat_dst"] /\ to[2] <= MaxGroups
      /\ UNCHANGED <<disk, others>>
  BY <1>3 DEF ScanCb, Goto
<1>6. PICK name : name = VersionName(to)
  OBVIOUS
<1>7. name \in Places /\ name # NoDest /\ name # Origin
  <2>1. to \in {"src", "dst"} \X (0..MaxGroups + 1) /\ MaxGroups \in Nat
    BY <1>4, FileAssumption DEF AtWork, Places
  <2>2. to[2] \in 0..MaxGroups + 1
    BY <2>1
  <2>3. to[2] + 1 \in 0..MaxGroups + 1 /\ to[2] + 1 # 0
    BY <1>5, <2>1, <2>2
  <2>4. name = << "src", to[2] + 1 >>
    BY <1>6 DEF VersionName
  <2>. QED
    BY <2>3, <2>4 DEF Places, NoDest, Origin
<1>8. PICK x : x = [fg EXCEPT !.dest[n] = name]
  OBVIOUS
<1>9. x \in GroupType /\ x.top = fg.top /\ x.dest[n] = name
  <2>1. x.dest = [fg.dest EXCEPT ![n] = name] /\ x.top = fg.top /\ fg.dest \in [Nodes -> Places \cup {NoDest}]
    BY <1>4, <1>8 DEF AtWork, GroupType
  <2>2. x \in GroupType
    BY <1>4, <1>7, <1>8 DEF AtWork, GroupType
  <2>. QED
    BY <1>4, <2>1, <2>2 DEF AtWork
<1>10. FlagsMatch(x)
  <2>1. fg \in GroupType /\ FlagsMatch(fg) /\ n \in Nodes /\ fg.dest[n] # NoDest
    BY <1>4 DEF AtWork
  <2>2. fg.dest[n] # NoDest \/ "UNLINK" \notin fg.flags \/ "COPY" \in fg.flags
    BY <2>1
  <2>. QED
    BY <1>7, <1>8, <2>1, <2>2, FlagsDest
<1>11. groups' = [groups EXCEPT ![job.g] = x]
  <2>1. /\ fg = groups[job.g] /\ n = job.cur /\ to = fg.dest[n]
    BY <1>4 DEF AtWork
  <2>2. x = [fg EXCEPT !.dest = [fg.dest EXCEPT ![n] = VersionName(fg.dest[n])]]
    BY <1>6, <1>8, <2>1
  <2>. QED
    BY <1>5, <2>1, <2>2
<1>12. Marked(groups, groups', job.g, x)
  <2>1. /\ groups[job.g].dest[groups[job.g].top] = NoDest => x.dest[x.top] = NoDest
        /\ x.top = groups[job.g].top /\ groups \in Seq(GroupType) /\ job.g \in DOMAIN groups
        /\ \A h \in DOMAIN groups \ {job.g} : FlagsMatch(groups[h])
    BY <1>4, <1>9 DEF AtWork
  <2>. QED
    BY <1>9, <1>10, <1>11, <2>1, GroupMarked
<1>13. Went(job, job', "stat_dst")
  BY <1>4, <1>5, WentTo DEF Pcs, AtWork
<1>14. job'.pc \notin {"open", "send", "close"} /\ groups'[job'.g].dest[job'.cur] # NoDest
  BY <1>4, <1>7, <1>9, <1>12, <1>13 DEF Went, Marked, AtWork
<1>15. Safe(disk, groups', job', others.removed)
  BY <1>4, <1>12, <1>14, Looks DEF Marked, AtWork
<1>. QED
  BY <1>5, <1>15

LEMMA MkDestLoss ==
  ASSUME LossInv, MkDest
  PROVE  Safe(disk', groups', job', others'.removed)
<1>1. PICK fg : fg = Fg
  OBVIOUS
<1>2. PICK n : n = job.cur
  OBVIOUS
<1>3. PICK to : to = Dest
  OBVIOUS
<1>4. AtWork(fg, n, to) /\ job.pc = "mk_dest"
  BY <1>1, <1>2, <1>3, Working DEF MkDest
<1>5. /\ "MOVE" \in fg.flags /\ fg.items \subseteq {fg.top} /\ n = fg.top
  BY <1>4 DEF AtWork, Core, JobAt, ItemsMatch
<1>6. CASE /\ Has(disk, job.cur, Origin) /\ ~Has(disk, job.cur, Dest)
           /\ Stop([groups EXCEPT ![job.g].flags = @ \cup {"UNLINK"}], Moved(disk, job.cur, Dest))
           /\ UNCHANGED <<others, ftw>>
  <2>1. PICK y : y = [fg EXCEPT !.flags = @ \cup {"UNLINK"}]
    OBVIOUS
  <2>2. PICK G : G = [groups EXCEPT ![job.g].flags = @ \cup {"UNLINK"}]
    OBVIOUS
  <2>3. PICK D : D = Moved(disk, n, to)
    OBVIOUS
  <2>4. PICK F : F = Freed(y.refs, n)
    OBVIOUS
  <2>5. PICK x : x = Cleaned(y, F)
    OBVIOUS
  <2>6. /\ y \in GroupType /\ y.todo = fg.todo /\ y.items = fg.items /\ y.refs = fg.refs
        /\ y.top = fg.top /\ y.dest = fg.dest
        /\ "MOVE" \in y.flags <=> "MOVE" \in fg.flags
    BY <1>4, <2>1, Flagged DEF AtWork
  <2>7. G = [groups EXCEPT ![job.g] = y]
    BY <1>4, <2>1, <2>2 DEF AtWork
  <2>8. Core(G, ftw, fq, job)
    <3>1. /\ Core(groups, ftw, fq, job) /\ job.g \in DOMAIN groups
          /\ y.todo = groups[job.g].todo /\ y.items = groups[job.g].items
          /\ y.refs = groups[job.g].refs /\ y.top = groups[job.g].top
          /\ "MOVE" \in y.flags <=> "MOVE" \in groups[job.g].flags
      BY <1>4, <2>6 DEF AtWork
    <3>. QED
      BY <2>6, <2>7, <3>1, Mark
  <2>9. /\ G[job.g] = y /\ DOMAIN G = DOMAIN groups
        /\ \A h \in DOMAIN groups : h # job.g => G[h] = groups[h]
    <3>1. groups \in Seq(GroupType) /\ job.g \in DOMAIN groups
      BY <1>4 DEF AtWork
    <3>. QED
      BY <2>6, <2>7, <3>1, GroupSet
  <2>10. FlagsMatch(x)
    <3>1. F = Freed(y.refs, Head(y.todo))
      BY <1>4, <2>4, <2>6 DEF AtWork
    <3>2. fg \in GroupType /\ ItemsMatch(fg) /\ FlagsMatch(fg) /\ fg.todo # <<>>
      BY <1>4 DEF AtWork
    <3>. QED
      BY <1>5, <2>1, <2>5, <3>1, <3>2, FlagsRename
  <2>11. ~Has(disk, n, to)
    BY <1>2, <1>3, <1>6
  <2>12. TreeAt(D) /\ D \in Disks
    <3>1. Parent[n] = NoNode
      BY <1>4, <1>5, GroupTyped DEF AtWork
    <3>. QED
      BY <1>4, <2>3, <3>1, MovedTree, MovedTyped DEF AtWork
  <2>13. LossAt(D, G, others.removed)
    <3>1. Grows(groups, G)
      BY <2>6, <2>9, <1>4 DEF Grows, AtWork
    <3>2. \A m \in Files : WholeAt(disk, m) => WholeAt(D, m)
      <4>1. ASSUME NEW m \in Files, WholeAt(disk, m) PROVE WholeAt(D, m)
        <5>1. m \in Nodes
          BY DEF Files
        <5>. QED
          BY <1>4, <2>3, <2>11, <4>1, <5>1, MovedWhole DEF AtWork
      <4>. QED
        BY <4>1
    <3>3. LossAt(disk, groups, others.removed)
      BY <1>4 DEF AtWork
    <3>. QED
      BY <3>1, <3>2, <3>3, LossKept
  <2>14. \A m \in F : D[m][Origin] # "whole"
    <3>1. ItemsFreed(y, n, F, x)
      <4>1. ItemsMatch(y) /\ y.todo # <<>> /\ n = Head(y.todo)
        BY <1>4, <2>6 DEF AtWork, ItemsMatch
      <4>. QED
        BY <2>4, <2>5, <2>6, <4>1, FreeItems
    <3>2. \A m \in F : m = n
      BY <1>5, <2>6, <3>1 DEF ItemsFreed
    <3>3. n \in Nodes /\ n \in Below(n)
      BY <1>4, TopBelow DEF AtWork
    <3>4. D[n][Origin] = "none"
      BY <1>4, <2>3, <3>3, MovedAt DEF AtWork
    <3>. QED
      BY <3>2, <3>4
  <2>15. \A m \in Files : m \in F /\ Unlinks(G[job.g]) /\ WholeAt(D, m) =>
           AskedAt(G, m) \/ \E p \in Places \ {Origin} : D[m][p] = "whole"
    BY <2>14 DEF WholeAt
  <2>16. StopAt(G, D, fq, job, groups', disk', fq', job') /\ others' = others
    BY <1>2, <1>3, <1>6, <2>2, <2>3 DEF Stop, StopAt
  <2>17. F = Freed(G[job.g].refs, job.cur) /\ x = Cleaned(G[job.g], F)
    BY <1>2, <2>4, <2>5, <2>9
  <2>18. \A h \in DOMAIN G \ {job.g} : FlagsMatch(G[h])
    BY <1>4, <2>9 DEF AtWork
  <2>19. job.running
    BY <1>4 DEF AtWork
  <2>20. Safe(disk', groups', job', others.removed)
    BY <2>8, <2>10, <2>12, <2>13, <2>15, <2>16, <2>17, <2>18, <2>19, StopLoss
  <2>. QED
    BY <2>16, <2>20
<1>7. CASE Failed /\ Goto("stuck") /\ UNCHANGED <<disk, others, ftw, fq, starts>>
  <2>1. PICK x : x = [fg EXCEPT !.flags = @ \cup {"ERROR"}]
    OBVIOUS
  <2>2. x \in GroupType /\ x.top = fg.top /\ x.dest = fg.dest
    BY <1>4, <2>1, Flagged DEF AtWork
  <2>3. FlagsMatch(x)
    BY <1>4, <2>1, FlagsError DEF AtWork
  <2>4. groups' = [groups EXCEPT ![job.g] = x]
    BY <1>4, <1>7, <2>1 DEF Failed, AtWork
  <2>5. Marked(groups, groups', job.g, x)
    <3>1. /\ groups[job.g].dest[groups[job.g].top] = NoDest => x.dest[x.top] = NoDest
          /\ x.top = groups[job.g].top /\ groups \in Seq(GroupType) /\ job.g \in DOMAIN groups
          /\ \A h \in DOMAIN groups \ {job.g} : FlagsMatch(groups[h])
      BY <1>4, <2>2 DEF AtWork
    <3>. QED
      BY <2>2, <2>3, <2>4, <3>1, GroupMarked
  <2>6. Went(job, job', "stuck")
    BY <1>4, <1>7, WentTo DEF Goto, Pcs, AtWork
  <2>7. Safe(disk, groups', job', others.removed)
    BY <1>4, <2>5, <2>6, Quiet DEF AtWork, Marked, Went
  <2>. QED
    BY <1>7, <2>7
<1>. QED
  BY <1>6, <1>7 DEF MkDest

LEMMA RetryAsCopyLoss ==
  ASSUME LossInv, CrossDev \cap Dirs = {}, RetryAsCopy
  PROVE  Safe(disk', groups', job', others'.removed)
<1>1. PICK fg : fg = Fg
  OBVIOUS
<1>2. PICK n : n = job.cur
  OBVIOUS
<1>3. PICK to : to = Dest
  OBVIOUS
<1>4. AtWork(fg, n, to) /\ job.pc = "mk_dest" /\ n \in CrossDev /\ to[1] = "dst"
  BY <1>1, <1>2, <1>3, Working DEF RetryAsCopy
<1>5. /\ "MOVE" \in fg.flags /\ n = fg.top /\ n \in Tops /\ n \notin Dirs /\ "UNLINK" \notin fg.flags
  BY <1>4 DEF AtWork, Core, JobAt, ItemsMatch, GroupType, FlagsMatch
<1>6. PICK new : new = Group(n, {"UNLINK", "COPY"}, << "dst", 0 >>)
  OBVIOUS
<1>7. PICK G : G = Append(groups, new)
  OBVIOUS
<1>8. PICK g : g = Len(groups) + 1
  OBVIOUS
<1>9. StopAt(G, disk, fq, job, groups', disk', fq', job') /\ others' = others
  <2>1. << Dest[1], 0 >> = << "dst", 0 >>
    BY <1>3, <1>4
  <2>. QED
    BY <1>2, <1>6, <1>7, <2>1 DEF RetryAsCopy, Stop, StopAt
<1>10. FlagsMatch(new) /\ new \in GroupType /\ ItemsMatch(new)
  <2>1. PICK dst : dst = << "dst", 0 >>
    OBVIOUS
  <2>2. PICK fl : fl = {"UNLINK", "COPY"}
    OBVIOUS
  <2>3. dst \in Places \cup {NoDest}
    BY <2>1, FileAssumption DEF Places
  <2>4. fl \in FlagSets
    BY <2>2 DEF FlagSets
  <2>5. new = Group(n, fl, dst)
    BY <1>6, <2>1, <2>2
  <2>6. Fresh(new, n, fl, dst)
    BY <1>5, <2>3, <2>4, <2>5, NewGroup
  <2>7. FlagsMatch(new)
    BY <1>5, <2>1, <2>2, <2>3, <2>6, FlagsFresh
  <2>. QED
    BY <2>6, <2>7 DEF Fresh
<1>11. Core(G, ftw, fq, job)
  <2>1. Added(G, ftw, fq, job, g, new)
    BY <1>4, <1>7, <1>8, <1>10, AddGroup DEF AtWork
  <2>. QED
    BY <2>1 DEF Added
<1>12. /\ DOMAIN G = DOMAIN groups \cup {g} /\ G[g] = new
       /\ \A h \in DOMAIN groups : G[h] = groups[h]
  BY <1>4, <1>7, <1>8, <1>10, AppendedQueue DEF AtWork
<1>13. G[job.g] = fg
  BY <1>4, <1>12 DEF AtWork
<1>14. PICK F : F = Freed(fg.refs, n)
  OBVIOUS
<1>15. PICK x : x = Cleaned(fg, F)
  OBVIOUS
<1>16. FlagsMatch(x)
  <2>1. /\ fg \in GroupType /\ ItemsMatch(fg) /\ FlagsMatch(fg) /\ fg.todo # <<>> /\ n = Head(fg.todo)
        /\ fg.dest[n] # NoDest
    BY <1>4 DEF AtWork
  <2>. QED
    BY <1>14, <1>15, <2>1, FlagsClean
<1>17. LossAt(disk, G, others.removed)
  <2>1. Grows(groups, G)
    BY <1>12 DEF Grows
  <2>2. LossAt(disk, groups, others.removed)
    BY <1>4 DEF AtWork
  <2>. QED
    BY <2>1, <2>2, LossKept
<1>18. \A h \in DOMAIN G \ {job.g} : FlagsMatch(G[h])
  BY <1>4, <1>10, <1>12 DEF AtWork
<1>19. ~Unlinks(G[job.g])
  BY <1>5, <1>13 DEF Unlinks
<1>20. F = Freed(G[job.g].refs, job.cur) /\ x = Cleaned(G[job.g], F)
  BY <1>2, <1>13, <1>14, <1>15
<1>21. job.running /\ disk \in Disks /\ TreeAt(disk)
  BY <1>4 DEF AtWork
<1>22. \A m \in Files : m \in F /\ Unlinks(G[job.g]) /\ WholeAt(disk, m) =>
         AskedAt(G, m) \/ \E p \in Places \ {Origin} : disk[m][p] = "whole"
  BY <1>19
<1>23. Safe(disk', groups', job', others.removed)
  BY <1>9, <1>11, <1>16, <1>17, <1>18, <1>20, <1>21, <1>22, StopLoss
<1>. QED
  BY <1>9, <1>23

(* file_stop after a copy.                                                 *)
LEMMA CopyStop ==
  ASSUME NEW fg, NEW n, NEW to, AtWork(fg, n, to),
         NEW D \in Disks, TreeAt(D), LossAt(D, groups, others.removed),
         Unlinks(fg) /\ n \in Files => D[n][to] = "whole",
         StopAt(groups, D, fq, job, groups', disk', fq', job'), others' = others
  PROVE  Safe(disk', groups', job', others'.removed)
<1>1. PICK F : F = Freed(fg.refs, n)
  OBVIOUS
<1>2. PICK x : x = Cleaned(fg, F)
  OBVIOUS
<1>3. /\ fg \in GroupType /\ ItemsMatch(fg) /\ FlagsMatch(fg) /\ fg.todo # <<>> /\ n = Head(fg.todo)
      /\ fg.dest[n] # NoDest
  BY DEF AtWork
<1>4. FlagsMatch(x)
  BY <1>1, <1>2, <1>3, FlagsClean
<1>5. ItemsFreed(fg, n, F, x)
  BY <1>1, <1>2, <1>3, FreeItems
<1>6. F = Freed(groups[job.g].refs, job.cur) /\ x = Cleaned(groups[job.g], F)
  BY <1>1, <1>2 DEF AtWork
<1>7. /\ job.running /\ Core(groups, ftw, fq, job)
      /\ \A h \in DOMAIN groups \ {job.g} : FlagsMatch(groups[h])
  BY DEF AtWork
<1>8. \A m \in Files : m \in F /\ Unlinks(groups[job.g]) /\ WholeAt(D, m) =>
         AskedAt(groups, m) \/ \E p \in Places \ {Origin} : D[m][p] = "whole"
  <2>1. ASSUME NEW m \in Files, m \in F, Unlinks(groups[job.g])
        PROVE  \E p \in Places \ {Origin} : D[m][p] = "whole"
    <3>1. Unlinks(fg) /\ m = n
      BY <1>5, <2>1 DEF AtWork, Unlinks, ItemsFreed
    <3>2. D[m][to] = "whole" /\ to \in Places /\ to # Origin
      BY <2>1, <3>1 DEF AtWork
    <3>. QED
      BY <3>2
  <2>. QED
    BY <2>1
<1>9. Safe(disk', groups', job', others.removed)
  BY <1>4, <1>6, <1>7, <1>8, StopLoss
<1>. QED
  BY <1>9

LEMMA RoomAt ==
  ASSUME NEW fg, NEW n, NEW to, AtWork(fg, n, to), to = Dest
  PROVE  Room(n) <=> ~Has(disk, n, to) /\ (Parent[n] # NoNode => Has(disk, Parent[n], to))
BY DEF Room

(* What is put at the destination.                                         *)
LEMMA PutThere ==
  ASSUME NEW fg, NEW n, NEW to, AtWork(fg, n, to), NEW what \in {"part", "whole"},
         \/ what = "whole" /\ Has(disk, n, to)
         \/ ~Has(disk, n, to) /\ (Parent[n] # NoNode => Has(disk, Parent[n], to)),
         NEW D, D = Put(disk, n, to, what)
  PROVE  /\ D \in Disks /\ TreeAt(D) /\ LossAt(D, groups, others.removed)
         /\ D[n][to] = what
<1>1. /\ disk \in Disks /\ TreeAt(disk) /\ n \in Nodes /\ to \in Places
      /\ LossAt(disk, groups, others.removed)
  BY DEF AtWork
<1>2. what \in {"part", "whole", "other"}
  OBVIOUS
<1>3. D \in Disks
  BY <1>1, PutTyped
<1>4. TreeAt(D)
  BY <1>1, <1>2, PutTree
<1>5. D[n][to] = what
  BY <1>1, <1>2, PutAt
<1>6. \A m \in Files : WholeAt(disk, m) => WholeAt(D, m)
  <2>1. ASSUME NEW m \in Files, WholeAt(disk, m) PROVE WholeAt(D, m)
    <3>1. m \in Nodes
      BY DEF Files
    <3>2. what = "whole" \/ ~Has(disk, n, to)
      OBVIOUS
    <3>. QED
      BY <1>1, <1>2, <2>1, <3>1, <3>2, PutWhole
  <2>. QED
    BY <2>1
<1>7. LossAt(D, groups, others.removed)
  <2>1. Grows(groups, groups)
    BY DEF Grows
  <2>. QED
    BY <1>1, <1>6, <2>1, LossKept
<1>. QED
  BY <1>3, <1>4, <1>5, <1>7

LEMMA DoCopyLoss ==
  ASSUME LossInv, DoCopy
  PROVE  Safe(disk', groups', job', others'.removed)
<1>1. PICK fg : fg = Fg
  OBVIOUS
<1>2. PICK n : n = job.cur
  OBVIOUS
<1>3. PICK to : to = Dest
  OBVIOUS
<1>4. AtWork(fg, n, to) /\ job.pc = "do_copy"
  BY <1>1, <1>2, <1>3, Working DEF DoCopy
<1>5. CASE /\ n \notin Files
           /\ Stop(groups, IF Room(n) THEN Put(disk, n, Dest, "whole") ELSE disk)
           /\ UNCHANGED <<others, ftw>>
  <2>1. PICK D : D = IF Room(n) THEN Put(disk, n, to, "whole") ELSE disk
    OBVIOUS
  <2>2. D \in Disks /\ TreeAt(D) /\ LossAt(D, groups, others.removed)
    <3>1. CASE Room(n)
      <4>1. ~Has(disk, n, to) /\ (Parent[n] # NoNode => Has(disk, Parent[n], to))
        BY <1>3, <1>4, <3>1, RoomAt
      <4>2. D = Put(disk, n, to, "whole")
        BY <2>1, <3>1
      <4>. QED
        BY <1>4, <4>1, <4>2, PutThere
    <3>2. CASE ~Room(n)
      BY <1>4, <2>1, <3>2 DEF AtWork
    <3>. QED
      BY <3>1, <3>2
  <2>3. StopAt(groups, D, fq, job, groups', disk', fq', job') /\ others' = others
    BY <1>3, <1>5, <2>1 DEF Stop, StopAt
  <2>. QED
    BY <1>4, <1>5, <2>2, <2>3, CopyStop
<1>6. CASE /\ n \in Files /\ job' = [job EXCEPT !.pc = "open", !.opening = {"f1", "f2"}]
           /\ UNCHANGED <<disk, others, groups, ftw, fq, starts>>
  <2>1. /\ job'.pc = "open" /\ job'.g = job.g /\ job'.cur = job.cur /\ job'.opening = {"f1", "f2"}
    BY <1>4, <1>6 DEF AtWork, JobType
  <2>2. WritesAt(disk, groups, job')
    BY <1>4, <1>6, <2>1 DEF WritesAt, AtWork
  <2>. QED
    BY <1>4, <1>6, <2>2 DEF Safe, AtWork
<1>. QED
  BY <1>2, <1>5, <1>6 DEF DoCopy

(* The job goes on writing.                                                *)
LEMMA Writing ==
  ASSUME NEW fg, NEW n, NEW to, AtWork(fg, n, to), n \in Files,
         NEW D, TreeAt(D), LossAt(D, groups, others.removed), NEW j1, Continues(job, j1),
         j1.pc = "open" /\ j1.opencnt = 1 /\ "f2" \notin j1.opening => Has(D, n, to),
         j1.pc = "send" => Has(D, n, to),
         j1.pc = "close" /\ "ERROR" \notin fg.flags => D[n][to] = "whole"
  PROVE  Safe(D, groups, j1, others.removed)
<1>1. /\ fg = groups[job.g] /\ n = job.cur /\ to = fg.dest[n] /\ to # NoDest
      /\ \A g \in DOMAIN groups : FlagsMatch(groups[g])
  BY DEF AtWork, Safe
<1>2. j1.g = job.g /\ j1.cur = job.cur
  BY DEF Continues
<1>3. WritesAt(D, groups, j1)
  BY <1>1, <1>2 DEF WritesAt
<1>. QED
  BY <1>1, <1>3 DEF Safe

LEMMA OpenCbLoss ==
  ASSUME LossInv, NEW f \in {"f1", "f2"}, OpenCb(f)
  PROVE  Safe(disk', groups', job', others'.removed)
<1>1. PICK fg : fg = Fg
  OBVIOUS
<1>2. PICK n : n = job.cur
  OBVIOUS
<1>3. PICK to : to = Dest
  OBVIOUS
<1>4. AtWork(fg, n, to) /\ job.pc = "open" /\ f \in job.opening
  BY <1>1, <1>2, <1>3, Working DEF OpenCb
<1>5. PICK ok \in BOOLEAN : ok <=> IF f = "f1" THEN Has(disk, n, Origin) ELSE Room(n)
  OBVIOUS
<1>6. PICK cnt : cnt = IF ok THEN job.opencnt + 1 ELSE job.opencnt
  OBVIOUS
<1>7. job' = JobOpens(job, job.opening \ {f}, cnt)
  BY <1>2, <1>5, <1>6 DEF OpenCb, JobOpens
<1>8. disk' = IF f = "f2" /\ ok THEN Put(disk, n, to, "part") ELSE disk
  BY <1>2, <1>3, <1>5 DEF OpenCb
<1>9. UNCHANGED <<others, groups>>
  BY DEF OpenCb
<1>10. job \in JobType /\ job.running /\ CountsAt(job) /\ WritesAt(disk, groups, job)
  BY <1>4 DEF AtWork
<1>11. Continues(job, job')
  BY <1>4, <1>6, <1>7, <1>10, OpenedJob
<1>12. /\ job'.opencnt = cnt /\ job'.opening = job.opening \ {f}
       /\ job'.pc = IF cnt = 2 THEN "send" ELSE IF job'.opening = {} THEN "stuck" ELSE "open"
  BY <1>4, <1>7, <1>10 DEF JobType, JobOpens
<1>13. n \in Files /\ (job.opencnt = 1 /\ "f2" \notin job.opening => Has(disk, n, to))
  BY <1>4 DEF AtWork, WritesAt
<1>14. job.opencnt \in {0, 1} /\ (job.opencnt = 1 => job.opening # {"f1", "f2"})
  BY <1>4, <1>10 DEF CountsAt
<1>15. CASE f = "f2" /\ ok
  <2>1. ~Has(disk, n, to) /\ (Parent[n] # NoNode => Has(disk, Parent[n], to))
    BY <1>3, <1>4, <1>5, <1>15, RoomAt
  <2>2. TreeAt(disk') /\ LossAt(disk', groups, others.removed) /\ disk'[n][to] = "part"
    BY <1>4, <1>8, <1>15, <2>1, PutThere
  <2>3. Has(disk', n, to) /\ job'.pc # "close"
    BY <1>12, <2>2 DEF Has
  <2>. QED
    BY <1>4, <1>9, <1>11, <1>13, <2>2, <2>3, Writing
<1>16. CASE ~(f = "f2" /\ ok)
  <2>1. disk' = disk /\ TreeAt(disk) /\ LossAt(disk, groups, others.removed)
    BY <1>4, <1>8, <1>16 DEF AtWork
  <2>2. (job'.pc = "open" /\ job'.opencnt = 1 /\ "f2" \notin job'.opening) \/ job'.pc = "send"
        => Has(disk, n, to)
    <3>1. CASE f = "f2"
      <4>1. cnt = job.opencnt /\ cnt # 2
        BY <1>6, <1>14, <1>16, <3>1
      <4>2. CASE cnt = 1
        <5>1. job.opening \subseteq {"f1", "f2"} /\ job.opening # {"f1", "f2"}
          BY <1>10, <1>14, <4>1, <4>2 DEF JobType
        <5>2. job'.opening = {}
          BY <1>4, <1>12, <3>1, <5>1
        <5>. QED
          BY <1>12, <4>2, <5>2
      <4>. QED
        BY <1>12, <4>1, <4>2
    <3>2. CASE f = "f1"
      <4>1. job.opening \subseteq {"f1", "f2"}
        BY <1>10 DEF JobType
      <4>2. "f2" \in job'.opening <=> "f2" \in job.opening
        BY <1>12, <3>2
      <4>3. CASE job'.pc = "send"
        <5>1. cnt = 2 /\ job.opencnt = 1
          BY <1>6, <1>12, <1>14, <4>3
        <5>2. "f2" \notin job.opening
          BY <1>4, <1>14, <3>2, <4>1, <5>1
        <5>. QED
          BY <1>13, <5>1, <5>2
      <4>4. CASE job'.pc = "open" /\ "f2" \notin job'.opening
        <5>1. job'.opening = {}
          BY <1>12, <3>2, <4>1, <4>4
        <5>. QED
          BY <1>12, <4>4, <5>1
      <4>. QED
        BY <4>3, <4>4
    <3>. QED
      BY <3>1, <3>2
  <2>3. job'.pc # "close"
    BY <1>12
  <2>. QED
    BY <1>4, <1>9, <1>11, <1>13, <2>1, <2>2, <2>3, Writing
<1>. QED
  BY <1>15, <1>16

LEMMA WriteCbLoss ==
  ASSUME LossInv, WriteCb
  PROVE  Safe(disk', groups', job', others'.removed)
<1>1. PICK fg : fg = Fg
  OBVIOUS
<1>2. PICK n : n = job.cur
  OBVIOUS
<1>3. PICK to : to = Dest
  OBVIOUS
<1>4. AtWork(fg, n, to) /\ job.pc = "send"
  BY <1>1, <1>2, <1>3, Working DEF WriteCb
<1>5. /\ job \in JobType /\ job.running /\ CountsAt(job) /\ n \in Files /\ Has(disk, n, to)
  BY <1>4 DEF AtWork, WritesAt
<1>6. others' = others
  BY DEF WriteCb
<1>7. CASE /\ job' = JobWrites(job, job.offset + 1 = Chunks)
           /\ disk' = IF job.offset + 1 = Chunks THEN Put(disk, job.cur, Dest, "whole") ELSE disk
           /\ UNCHANGED groups
  <2>1. Continues(job, job')
    BY <1>4, <1>5, <1>7, WrittenJob
  <2>2. job'.pc = IF job.offset + 1 = Chunks THEN "close" ELSE "send"
    BY <1>4, <1>5, <1>7 DEF JobType, JobWrites
  <2>3. CASE job.offset + 1 = Chunks
    <3>1. disk' = Put(disk, n, to, "whole")
      BY <1>2, <1>3, <1>7, <2>3
    <3>2. TreeAt(disk') /\ LossAt(disk', groups, others.removed) /\ disk'[n][to] = "whole"
      BY <1>4, <1>5, <3>1, PutThere
    <3>3. job'.pc = "close"
      BY <2>2, <2>3
    <3>. QED
      BY <1>4, <1>5, <1>6, <1>7, <2>1, <3>2, <3>3, Writing
  <2>4. CASE job.offset + 1 # Chunks
    <3>1. TreeAt(disk) /\ LossAt(disk, groups, others.removed) /\ disk' = disk
      BY <1>4, <1>7, <2>4 DEF AtWork
    <3>2. job'.pc = "send"
      BY <2>2, <2>4
    <3>. QED
      BY <1>4, <1>5, <1>6, <1>7, <2>1, <3>1, <3>2, Writing
  <2>. QED
    BY <2>3, <2>4
<1>8. CASE Failed /\ Goto("close") /\ UNCHANGED disk
  <2>1. PICK x : x = [fg EXCEPT !.flags = @ \cup {"ERROR"}]
    OBVIOUS
  <2>2. fg \in GroupType /\ FlagsMatch(fg) /\ fg = groups[job.g]
    BY <1>4 DEF AtWork
  <2>3. x \in GroupType /\ x.top = fg.top /\ x.dest = fg.dest /\ "ERROR" \in x.flags
    BY <2>1, <2>2 DEF GroupType
  <2>4. FlagsMatch(x)
    BY <2>1, <2>2, FlagsError
  <2>5. groups' = [groups EXCEPT ![job.g] = x]
    BY <1>4, <1>8, <2>1, <2>2 DEF Failed, AtWork
  <2>6. PICK g : g = job.g
    OBVIOUS
  <2>7. /\ groups \in Seq(GroupType) /\ g \in DOMAIN groups
        /\ \A h \in DOMAIN groups \ {g} : FlagsMatch(groups[h])
        /\ x.top = groups[g].top
        /\ groups[g].dest[groups[g].top] = NoDest => x.dest[x.top] = NoDest
        /\ groups' = [groups EXCEPT ![g] = x]
    BY <1>4, <2>2, <2>3, <2>5, <2>6 DEF AtWork
  <2>8. Marked(groups, groups', g, x)
    BY <2>3, <2>4, <2>7, GroupMarked
  <2>9. job'.pc = "close" /\ job'.g = g /\ job'.cur = n
    BY <1>2, <1>5, <1>8, <2>6 DEF Goto, JobType
  <2>10. WritesAt(disk, groups', job')
    <3>1. groups'[job'.g] = x /\ x.dest[n] # NoDest
      BY <1>4, <2>2, <2>3, <2>8, <2>9 DEF Marked, AtWork
    <3>. QED
      BY <1>5, <2>3, <2>9, <3>1 DEF WritesAt
  <2>11. LossAt(disk, groups', others.removed)
    BY <1>4, <2>8, LossKept DEF Marked, AtWork
  <2>12. disk' = disk /\ TreeAt(disk)
    BY <1>4, <1>8 DEF AtWork
  <2>. QED
    BY <1>6, <2>8, <2>10, <2>11, <2>12 DEF Safe, Marked
<1>. QED
  BY <1>7, <1>8 DEF WriteCb, JobWrites

LEMMA CloseCbLoss ==
  ASSUME LossInv, CloseCb
  PROVE  Safe(disk', groups', job', others'.removed)
<1>1. PICK fg : fg = Fg
  OBVIOUS
<1>2. PICK n : n = job.cur
  OBVIOUS
<1>3. PICK to : to = Dest
  OBVIOUS
<1>4. AtWork(fg, n, to) /\ job.pc = "close"
  BY <1>1, <1>2, <1>3, Working DEF CloseCb
<1>5. /\ job \in JobType /\ n \in Files /\ disk \in Disks /\ TreeAt(disk)
      /\ LossAt(disk, groups, others.removed)
      /\ "ERROR" \notin fg.flags => disk[n][to] = "whole"
  BY <1>4 DEF AtWork, WritesAt
<1>6. CASE FileStopped
  <2>1. StopAt(groups, disk, fq, job, groups', disk', fq', job') /\ others' = others
    BY <1>6 DEF FileStopped, Stop, StopAt
  <2>. QED
    BY <1>4, <1>5, <2>1, CopyStop DEF Unlinks
<1>7. CASE /\ job' = [job EXCEPT !.opencnt = @ - 1]
           /\ UNCHANGED <<disk, others, groups, ftw, fq, starts>>
  <2>1. job'.pc = "close" /\ job'.g = job.g /\ job'.cur = job.cur
    BY <1>4, <1>5, <1>7 DEF JobType
  <2>2. WritesAt(disk, groups, job')
    BY <1>4, <2>1 DEF WritesAt, AtWork
  <2>. QED
    BY <1>4, <1>7, <2>2 DEF Safe, AtWork
<1>. QED
  BY <1>6, <1>7 DEF CloseCb

(* Other programs do not touch what the job has written.                   *)
LEMMA WrittenStays ==
  ASSUME LossInv, NEW D,
         \A m \in Nodes, q \in Places \ {Origin} : Has(disk, m, q) => D[m][q] = disk[m][q]
  PROVE  WritesAt(D, groups, job)
<1>1. WritesAt(disk, groups, job)
  BY LossIs DEF Safe
<1>2. CASE job.pc \notin {"open", "send", "close"}
  BY <1>1, <1>2 DEF WritesAt
<1>3. CASE job.pc \in {"open", "send", "close"}
  <2>1. PICK fg : fg = Fg
    OBVIOUS
  <2>2. PICK n : n = job.cur
    OBVIOUS
  <2>3. PICK to : to = Dest
    OBVIOUS
  <2>4. AtWork(fg, n, to)
    BY <1>3, <2>1, <2>2, <2>3, Working
  <2>5. /\ n = job.cur /\ n \in Nodes /\ to = groups[job.g].dest[job.cur]
        /\ to \in Places \ {Origin} /\ to # NoDest
    BY <2>4 DEF AtWork
  <2>6. Has(disk, n, to) => D[n][to] = disk[n][to]
    BY <2>5
  <2>. QED
    BY <1>1, <2>5, <2>6 DEF WritesAt, Has
<1>. QED
  BY <1>2, <1>3

LEMMA OtherLoss ==
  ASSUME LossInv, Other
  PROVE  Safe(disk', groups', job', others'.removed)
<1>1. /\ disk \in Disks /\ TreeAt(disk) /\ LossAt(disk, groups, others.removed)
      /\ others \in [removed : SUBSET Nodes, count : 0..MaxOthers]
      /\ \A g \in DOMAIN groups : FlagsMatch(groups[g])
  BY LossIs, CoreIsIInv DEF Safe, RestTyped, Disks
<1>2. UNCHANGED <<groups, job>> /\ Grows(groups, groups)
  BY DEF Other, Grows
<1>3. Origin \in Places /\ << "dst", 0 >> \in Places /\ << "dst", 0 >> # Origin
  BY FileAssumption DEF Origin, Places
<1>4. SUFFICES /\ TreeAt(disk') /\ LossAt(disk', groups, others'.removed)
               /\ \A m \in Nodes, q \in Places \ {Origin} :
                    Has(disk, m, q) => disk'[m][q] = disk[m][q]
  BY <1>1, <1>2, <1>4, WrittenStays DEF Safe
<1>5. ASSUME NEW n \in Nodes, n \in Files, disk' = Put(disk, n, Origin, "none"),
             others' = [removed |-> others.removed \cup {n}, count |-> others.count + 1]
      PROVE  /\ TreeAt(disk') /\ LossAt(disk', groups, others'.removed)
             /\ \A m \in Nodes, q \in Places \ {Origin} :
                  Has(disk, m, q) => disk'[m][q] = disk[m][q]
  <2>1. /\ disk'[n][Origin] = "none"
        /\ \A m \in Nodes, q \in Places : (m = n /\ q = Origin) \/ disk'[m][q] = disk[m][q]
    BY <1>1, <1>3, <1>5 DEF Disks, Put
  <2>2. \A m \in Nodes : Parent[m] # n
    BY <1>5, FileAssumption DEF Files, Children
  <2>3. TreeAt(disk')
    <3>1. ASSUME NEW m \in Nodes, NEW q \in Places, Has(disk', m, q), Parent[m] # NoNode
          PROVE  Has(disk', Parent[m], q)
      <4>1. Parent[m] \in Nodes /\ Parent[m] # n
        BY <2>2, <3>1, Forest
      <4>2. Has(disk, m, q)
        BY <2>1, <3>1 DEF Has
      <4>3. Has(disk, Parent[m], q)
        BY <1>1, <3>1, <4>2 DEF TreeAt
      <4>. QED
        BY <2>1, <4>1, <4>3 DEF Has
    <3>. QED
      BY <3>1 DEF TreeAt
  <2>4. others'.removed = others.removed \cup {n}
    BY <1>5
  <2>5. \A m \in Files : WholeAt(disk, m) => WholeAt(disk', m) \/ m \in others'.removed
    <3>1. ASSUME NEW m \in Files, WholeAt(disk, m), m # n
          PROVE  WholeAt(disk', m)
      BY <2>1, <3>1 DEF WholeAt, Files
    <3>. QED
      BY <2>4, <3>1
  <2>6. LossAt(disk', groups, others'.removed)
    <3>1. others.removed \subseteq others'.removed
      BY <2>4
    <3>. QED
      BY <1>1, <1>2, <2>5, <3>1, LossKept
  <2>. QED
    BY <2>1, <2>3, <2>6
<1>6. ASSUME NEW n \in Tops, ~Has(disk, n, << "dst", 0 >>), disk' = Put(disk, n, << "dst", 0 >>, "other"),
             others' = [others EXCEPT !.count = @ + 1]
      PROVE  /\ TreeAt(disk') /\ LossAt(disk', groups, others'.removed)
             /\ \A m \in Nodes, q \in Places \ {Origin} :
                  Has(disk, m, q) => disk'[m][q] = disk[m][q]
  <2>1. n \in Nodes /\ Parent[n] = NoNode
    BY DEF Tops
  <2>2. PICK p \in Places : p = << "dst", 0 >>
    BY <1>3
  <2>3. PICK what \in {"part", "whole", "other"} : what = "other"
    OBVIOUS
  <2>4. ~Has(disk, n, p) /\ disk' = Put(disk, n, p, what)
    BY <1>6, <2>2, <2>3
  <2>5. TreeAt(disk')
    BY <1>1, <2>1, <2>4, PutTree
  <2>6. \A m \in Nodes, q \in Places : (m = n /\ q = p) \/ disk'[m][q] = disk[m][q]
    BY <1>1, <2>1, <2>4, PutAt
  <2>7. \A m \in Files : WholeAt(disk, m) => WholeAt(disk', m)
    <3>1. ASSUME NEW m \in Files, WholeAt(disk, m) PROVE WholeAt(disk', m)
      <4>1. m \in Nodes
        BY DEF Files
      <4>. QED
        BY <1>1, <2>1, <2>4, <3>1, <4>1, PutWhole
    <3>. QED
      BY <3>1
  <2>8. others'.removed = others.removed
    BY <1>1, <1>6
  <2>9. LossAt(disk', groups, others'.removed)
    BY <1>1, <1>2, <2>7, <2>8, LossKept
  <2>. QED
    BY <2>4, <2>5, <2>6, <2>9
<1>. QED
  <2>1. PICK n \in Nodes :
           \/ /\ n \in Files /\ disk' = Put(disk, n, Origin, "none")
              /\ others' = [removed |-> others.removed \cup {n}, count |-> others.count + 1]
           \/ /\ n \in Tops /\ ~Has(disk, n, << "dst", 0 >>)
              /\ disk' = Put(disk, n, << "dst", 0 >>, "other")
              /\ others' = [others EXCEPT !.count = @ + 1]
    BY DEF Other
  <2>. QED
    BY <1>5, <1>6, <2>1

-----------------------------------------------------------------------------
LEMMA InitLoss == Init => LossInv
<1>1. SUFFICES ASSUME Init PROVE Safe(disk, groups, job, others.removed)
  BY InitSafe, LossIs
<1>2. /\ groups = <<>> /\ job = NoJob /\ DOMAIN groups = {}
      /\ \A n \in Nodes, p \in Places :
           disk[n][p] = IF p = Origin THEN "whole"
                        ELSE IF p = << "dst", 0 >> /\ n \in Taken THEN "other" ELSE "none"
  BY <1>1 DEF Init
<1>3. WritesAt(disk, groups, job)
  BY <1>2 DEF WritesAt, NoJob
<1>4. TreeAt(disk)
  <2>1. ASSUME NEW n \in Nodes, NEW p \in Places, Has(disk, n, p), Parent[n] # NoNode
        PROVE  Has(disk, Parent[n], p)
    <3>1. n \notin Taken /\ Parent[n] \in Nodes
      BY <2>1, FileAssumption, Forest DEF Tops
    <3>2. p = Origin
      BY <1>2, <2>1, <3>1 DEF Has
    <3>. QED
      BY <1>2, <3>1, <3>2 DEF Has
  <2>. QED
    BY <2>1 DEF TreeAt
<1>5. LossAt(disk, groups, others.removed)
  <2>1. Origin \in Places
    BY FileAssumption DEF Origin, Places
  <2>. QED
    BY <1>2, <2>1 DEF LossAt, WholeAt, Files
<1>. QED
  BY <1>2, <1>3, <1>4, <1>5 DEF Safe

LEMMA NextLoss ==
  ASSUME CrossDev \cap Dirs = {}
  PROVE  LossInv /\ [Next]_vars => LossInv'
<1>1. SUFFICES ASSUME LossInv, [Next]_vars PROVE Safe(disk', groups', job', others'.removed)
  <2>1. LossInv => IInv
    BY DEF LossInv
  <2>. QED
    BY <1>1, <2>1, NextSafe, LossNext
<1>2. CASE \E kind \in Kinds, n \in Tops : FtwAdd(kind, n)
  BY <1>1, <1>2, FtwAddLoss
<1>3. CASE FtwCancel \/ WalkEnd \/ FileStart \/ UNCHANGED vars
  BY <1>1, <1>3, RestLoss
<1>4. CASE Walk
  BY <1>1, <1>4, WalkLoss
<1>5. CASE StatSrc \/ StatDst \/ ScanCb
  BY <1>1, <1>5, StatSrcLoss, StatDstLoss, ScanCbLoss
<1>6. CASE MkDest
  BY <1>1, <1>6, MkDestLoss
<1>7. CASE RetryAsCopy
  BY <1>1, <1>7, RetryAsCopyLoss
<1>8. CASE DoCopy
  BY <1>1, <1>8, DoCopyLoss
<1>9. CASE \E f \in {"f1", "f2"} : OpenCb(f)
  BY <1>1, <1>9, OpenCbLoss
<1>10. CASE WriteCb \/ CloseCb
  BY <1>1, <1>10, WriteCbLoss, CloseCbLoss
<1>11. CASE Other
  BY <1>1, <1>11, OtherLoss
<1>. QED
  BY <1>1, <1>2, <1>3, <1>4, <1>5, <1>6, <1>7, <1>8, <1>9, <1>10, <1>11 DEF Next, Job

(* What nobody asked to remove, and no other program removed, exists whole *)
(* somewhere at every moment, whatever fails and whatever other programs   *)
(* do to the destination: do_unlink takes a source only when what was made *)
(* of it is whole, and rename takes its name along.  Directories that are  *)
(* moved to another device are left out: file_retry_as_copy removes the    *)
(* source of one although mkdir may have failed on a name that is taken.   *)
THEOREM NoLossCorrect ==
  ASSUME CrossDev \cap Dirs = {}
  PROVE  Spec => []NoLoss
<1>1. Init => LossInv
  BY InitLoss
<1>2. LossInv /\ [Next]_vars => LossInv'
  BY NextLoss
<1>3. LossInv => NoLoss
  BY DEF LossInv
<1>. QED
  BY <1>1, <1>2, <1>3, PTL DEF Spec
=============================================================================

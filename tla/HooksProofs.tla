----------------------------- MODULE HooksProofs -----------------------------
(* The inductive invariant of Hooks and the two theorems it gives: ids are *)
(* partitioned, and what it takes for a call of hooks to go wrong; for any *)
(* numbers of buffers, plugins, hooks and nested calls.                    *)
EXTENDS Hooks, FiniteSetTheorems, SequenceTheorems, TLAPS

-----------------------------------------------------------------------------
(* A set of numbers that is not empty has a least one.                     *)
LEMMA Least ==
  ASSUME NEW T, T \subseteq Nat, T # {}
  PROVE  \E m \in T : \A k \in T : m <= k
<1>. DEFINE R == {ss \in Nat \X Nat : ss[1] < ss[2]}
<1>1. IsWellFoundedOn(R, Nat)
  <2>1. OpToRel(<, Nat) = R
    BY Zenon DEF OpToRel
  <2>. QED
    BY <2>1, NatLessThanWellFounded, Zenon
<1>2. \A x, y \in Nat : x < y => <<x, y>> \in R
  OBVIOUS
<1>. HIDE DEF R
<1>3. PICK m \in T : \A k \in T : ~(<<k, m>> \in R)
  BY <1>1, WFMin, Zenon
<1>4. \A k \in T : ~ (k < m)
  BY <1>2, <1>3, Zenon
<1>. QED
  BY <1>4

(* Each of the places S up to N is counted: Nth finds the n-th.            *)
LEMMA NthExists ==
  ASSUME NEW N \in Nat, NEW S, S \subseteq 1..N, NEW n \in 1..Cardinality(S)
  PROVE  Nth(S, n) \in S
<1>. DEFINE Low(m) == {j \in S : j < m}
<1>1. IsFiniteSet(S) /\ Cardinality(S) \in Nat
  <2>1. IsFiniteSet(1..N)
    BY FS_Interval
  <2>. QED
    BY <2>1, FS_Subset, FS_CardinalityType
<1>2. ASSUME NEW m \in Nat PROVE IsFiniteSet(Low(m)) /\ Cardinality(Low(m)) \in Nat
  <2>1. Low(m) \in SUBSET S
    OBVIOUS
  <2>. QED
    BY <1>1, <2>1, FS_Subset, FS_CardinalityType
<1>. DEFINE T == {m \in Nat : Cardinality(Low(m)) >= n}
<1>3. N+1 \in T
  <2>1. \A j \in S : j < N + 1
    OBVIOUS
  <2>2. Low(N+1) = S
    BY <2>1
  <2>. QED
    BY <1>1, <2>2
<1>4. PICK m \in T : \A k \in T : m <= k
  BY <1>3, Least
<1>5. m # 0
  <2>1. \A j \in S : ~(j < 0)
    OBVIOUS
  <2>2. Low(0) = {}
    BY <2>1
  <2>3. Cardinality(Low(0)) = 0
    BY <2>2, FS_EmptySet
  <2>4. 0 \notin T
    BY <2>3, <1>1
  <2>. QED
    BY <2>4
<1>6. m \in Nat /\ m - 1 \in Nat /\ m - 1 \notin T
  BY <1>4, <1>5
<1>7. Cardinality(Low(m)) >= n /\ ~(Cardinality(Low(m-1)) >= n)
  BY <1>6
<1>8. \A j \in S : j < m <=> j < m - 1 \/ j = m - 1
  BY <1>6
<1>9. m - 1 \in S
  <2>1. SUFFICES ASSUME m - 1 \notin S PROVE FALSE
    OBVIOUS
  <2>2. Low(m) = Low(m-1)
    BY <1>8, <2>1
  <2>. QED
    BY <1>7, <2>2
<1>10. Low(m) = Low(m-1) \cup {m-1} /\ m - 1 \notin Low(m-1)
  BY <1>6, <1>8, <1>9
<1>11. Cardinality(Low(m-1)) \in Nat /\ IsFiniteSet(Low(m-1))
  BY <1>2, <1>6
<1>. HIDE DEF Low
<1>12. Cardinality(Low(m)) = Cardinality(Low(m-1)) + 1
  BY <1>10, <1>11, FS_AddElement
<1>13. Cardinality(Low(m-1)) = n - 1
  BY <1>7, <1>11, <1>12
<1>. QED
  BY <1>9, <1>13 DEF Nth, Low

LEMMA RestrictedProperties ==
  ASSUME NEW T, NEW s \in Seq(T), NEW S, S \subseteq DOMAIN s
  PROVE  /\ Restricted(s, S) \in Seq(T)
         /\ \A n \in DOMAIN Restricted(s, S) : \E k \in DOMAIN s : Restricted(s, S)[n] = s[k]
<1>1. Len(s) \in Nat /\ DOMAIN s = 1..Len(s)
  BY LenProperties
<1>2. Cardinality(S) \in Nat
  <2>1. IsFiniteSet(1..Len(s))
    BY <1>1, FS_Interval
  <2>. QED
    BY <1>1, <2>1, FS_Subset, FS_CardinalityType
<1>3. \A n \in 1..Cardinality(S) : Nth(S, n) \in DOMAIN s
  BY <1>1, NthExists
<1>4. \A k \in DOMAIN s : s[k] \in T
  BY <1>1, ElementOfSeq
<1>. DEFINE r == [n \in 1..Cardinality(S) |-> s[Nth(S, n)]]
<1>5. r \in [1..Cardinality(S) -> T]
  BY <1>3, <1>4
<1>6. r \in Seq(T)
  BY <1>2, <1>5, SeqDef
<1>. QED
  BY <1>3, <1>6 DEF Restricted

LEMMA EraseLoopProperties ==
  ASSUME NEW T, NEW s \in Seq(T), NEW unwanted
  PROVE  /\ EraseLoop(s, unwanted) \in Seq(T)
         /\ \A n \in DOMAIN EraseLoop(s, unwanted) :
              \E k \in DOMAIN s : EraseLoop(s, unwanted)[n] = s[k]
<1>1. PICK S \in SUBSET DOMAIN s : EraseLoop(s, unwanted) = Restricted(s, S)
  BY DEF EraseLoop
<1>. QED
  BY <1>1, RestrictedProperties

-----------------------------------------------------------------------------
(* The pool of ids.                                                        *)
LEMMA PopPool ==
  ASSUME NEW S, NEW s \in Seq(S), s # <<>>, IsInjective(s)
  PROVE  /\ Tail(s) \in Seq(S) /\ IsInjective(Tail(s))
         /\ Head(s) \in S /\ Head(s) \in ToSet(s)
         /\ ToSet(Tail(s)) = ToSet(s) \ {Head(s)}
<1>1. /\ Len(s) \in Nat \ {0} /\ DOMAIN s = 1..Len(s) /\ Head(s) = s[1]
      /\ Tail(s) \in Seq(S) /\ Len(Tail(s)) = Len(s) - 1 /\ Head(s) \in S
      /\ \A i \in 1..Len(Tail(s)) : Tail(s)[i] = s[i+1]
  BY EmptySeq, LenProperties, HeadTailProperties
<1>2. DOMAIN Tail(s) = 1..Len(s)-1
  BY <1>1, LenProperties
<1>3. \A i \in DOMAIN Tail(s) : i + 1 \in DOMAIN s /\ i + 1 # 1 /\ Tail(s)[i] = s[i+1]
  BY <1>1, <1>2
<1>4. \A i \in DOMAIN s : i = 1 \/ (i - 1 \in DOMAIN Tail(s) /\ Tail(s)[i-1] = s[i])
  BY <1>1, <1>2
<1>5. \A i, j \in DOMAIN s : s[i] = s[j] => i = j
  BY DEF IsInjective
<1>6. IsInjective(Tail(s))
  <2>1. SUFFICES ASSUME NEW i \in DOMAIN Tail(s), NEW j \in DOMAIN Tail(s), Tail(s)[i] = Tail(s)[j]
        PROVE  i = j
    BY DEF IsInjective
  <2>2. i + 1 = j + 1
    BY <1>3, <1>5, <2>1
  <2>. QED
    BY <1>1, <1>2, <2>2
<1>7. 1 \in DOMAIN s
  BY <1>1
<1>8. ToSet(Tail(s)) = ToSet(s) \ {Head(s)}
  <2>1. ASSUME NEW x \in ToSet(Tail(s)) PROVE x \in ToSet(s) \ {Head(s)}
    BY <1>1, <1>3, <1>5, <1>7 DEF ToSet
  <2>2. ASSUME NEW x \in ToSet(s) \ {Head(s)} PROVE x \in ToSet(Tail(s))
    <3>1. PICK i \in DOMAIN s : x = s[i]
      BY <2>2 DEF ToSet
    <3>2. i # 1
      BY <1>1, <2>2, <3>1
    <3>3. i - 1 \in DOMAIN Tail(s) /\ x = Tail(s)[i-1]
      BY <1>4, <3>1, <3>2
    <3>. QED
      BY <3>3 DEF ToSet
  <2>. QED
    BY <2>1, <2>2
<1>. QED
  BY <1>1, <1>6, <1>7, <1>8 DEF ToSet

LEMMA PushPool ==
  ASSUME NEW S, NEW s \in Seq(S), NEW e \in S, e \notin ToSet(s), IsInjective(s)
  PROVE  /\ << e >> \o s \in Seq(S) /\ IsInjective(<< e >> \o s)
         /\ ToSet(<< e >> \o s) = ToSet(s) \cup {e}
<1>. DEFINE t == << e >> \o s
<1>1. << e >> \in Seq(S) /\ Len(<< e >>) = 1 /\ << e >>[1] = e
  OBVIOUS
<1>2. /\ t \in Seq(S) /\ Len(t) = 1 + Len(s) /\ Len(s) \in Nat
      /\ \A i \in 1..1+Len(s) : t[i] = IF i <= 1 THEN << e >>[i] ELSE s[i - 1]
  BY <1>1, ConcatProperties, LenProperties
<1>. HIDE DEF t
<1>3. DOMAIN t = 1..1+Len(s) /\ DOMAIN s = 1..Len(s)
  BY <1>2, LenProperties
<1>4. 1 \in DOMAIN t /\ t[1] = e
  BY <1>1, <1>2, <1>3
<1>5. \A i \in DOMAIN t : i = 1 \/ (i - 1 \in DOMAIN s /\ t[i] = s[i-1])
  BY <1>2, <1>3
<1>6. \A i \in DOMAIN s : i + 1 \in DOMAIN t /\ t[i+1] = s[i]
  BY <1>2, <1>3
<1>7. \A i \in DOMAIN s : s[i] # e
  BY DEF ToSet
<1>8. \A i, j \in DOMAIN s : s[i] = s[j] => i = j
  BY DEF IsInjective
<1>9. IsInjective(t)
  <2>1. SUFFICES ASSUME NEW i \in DOMAIN t, NEW j \in DOMAIN t, t[i] = t[j] PROVE i = j
    BY DEF IsInjective
  <2>2. i = 1 <=> j = 1
    BY <1>4, <1>5, <1>7, <2>1
  <2>3. i # 1 => i - 1 = j - 1
    BY <1>5, <1>8, <2>1, <2>2
  <2>. QED
    BY <1>2, <1>3, <2>2, <2>3
<1>10. ToSet(t) = ToSet(s) \cup {e}
  <2>1. ASSUME NEW x \in ToSet(t) PROVE x \in ToSet(s) \cup {e}
    BY <1>4, <1>5 DEF ToSet
  <2>2. ASSUME NEW x \in ToSet(s) \cup {e} PROVE x \in ToSet(t)
    BY <1>4, <1>6 DEF ToSet
  <2>. QED
    BY <2>1, <2>2
<1>. QED
  BY <1>2, <1>9, <1>10 DEF t

-----------------------------------------------------------------------------
(* Ids, buffers and plugins.                                               *)
BufType  == [st : {"free", "live", "deleted"}, id : 0..MaxId, plug : Plugs \cup {NoPlug}]
PlugType == [live : BOOLEAN, kind : {"none", "fm", "img"}, buf : Bufs \cup {NoBuf}]

IdsTyped ==
  /\ ids.max \in 0..MaxId /\ ids.pool \in Seq(1..MaxId)
  /\ ids.table \in [DOMAIN ids.table -> Bufs] /\ DOMAIN ids.table \subseteq 1..MaxId

Tables == IdsTyped /\ bufs \in [Bufs -> BufType] /\ IdsPartition
          /\ \A i \in DOMAIN ids.table : bufs[ids.table[i]].id = i

LEMMA BufNewTables ==
  ASSUME Tables, NEW b \in Bufs, BufNew(b)
  PROVE  Tables'
<1>. DEFINE key == ObtainKey
<1>1. /\ bufs[b].st = "free" /\ key <= MaxId
      /\ bufs' = [bufs EXCEPT ![b] = [st |-> "live", id |-> key, plug |-> NoPlug]]
      /\ ids'.table = [i \in DOMAIN ids.table \cup {key} |-> IF i = key THEN b ELSE ids.table[i]]
      /\ ids'.pool = IF ids.pool # <<>> THEN Tail(ids.pool) ELSE <<>>
      /\ ids'.max = IF ids.pool # <<>> THEN ids.max ELSE ids.max + 1
  BY DEF BufNew, ObtainId
<1>2. /\ DOMAIN ids.table \cup ToSet(ids.pool) = 1..ids.max
      /\ DOMAIN ids.table \cap ToSet(ids.pool) = {}
      /\ IsInjective(ids.pool) /\ ids.max \in Nat /\ ids.max <= MaxId
      /\ ids.pool \in Seq(1..MaxId)
  BY DEF Tables, IdsPartition, IdsTyped, MaxId
<1>3. /\ key \in 1..MaxId /\ key \notin DOMAIN ids.table
      /\ ids'.pool \in Seq(1..MaxId) /\ IsInjective(ids'.pool)
      /\ ids'.max \in 0..MaxId
      /\ DOMAIN ids.table \cup {key} \cup ToSet(ids'.pool) = 1..ids'.max
      /\ (DOMAIN ids.table \cup {key}) \cap ToSet(ids'.pool) = {}
  <2>1. CASE ids.pool # <<>>
    <3>1. /\ Tail(ids.pool) \in Seq(1..MaxId) /\ IsInjective(Tail(ids.pool))
          /\ key \in 1..MaxId /\ key \in ToSet(ids.pool)
          /\ ToSet(Tail(ids.pool)) = ToSet(ids.pool) \ {key}
      BY <1>2, <2>1, PopPool DEF ObtainKey
    <3>. HIDE DEF key
    <3>. QED
      BY <1>1, <1>2, <2>1, <3>1
  <2>2. CASE ids.pool = <<>>
    <3>1. ToSet(ids.pool) = {} /\ key = ids.max + 1
      BY <2>2 DEF ToSet, ObtainKey
    <3>2. ids'.pool = <<>> /\ ids'.max = ids.max + 1
      BY <1>1, <2>2
    <3>3. ids'.pool \in Seq(1..MaxId) /\ IsInjective(ids'.pool) /\ ToSet(ids'.pool) = {}
      BY <3>2, EmptySeq DEF IsInjective, ToSet
    <3>. HIDE DEF key
    <3>4. 1..ids'.max = 1..ids.max \cup {key}
      BY <1>2, <3>1, <3>2
    <3>. QED
      BY <1>1, <1>2, <3>1, <3>2, <3>3, <3>4 DEF MaxId
  <2>. QED
    BY <2>1, <2>2
<1>. HIDE DEF key
<1>4. DOMAIN ids'.table = DOMAIN ids.table \cup {key}
  BY <1>1
<1>5. IdsTyped'
  BY <1>1, <1>3, <1>4 DEF Tables, IdsTyped
<1>6. bufs' \in [Bufs -> BufType]
  BY <1>1, <1>3 DEF Tables, BufType
<1>7. \A i \in DOMAIN ids.table : ids.table[i] # b /\ ids'.table[i] = ids.table[i] /\ ids.table[i] \in Bufs
  BY <1>1, <1>3 DEF Tables, IdsPartition, IdsTyped
<1>8. ids'.table[key] = b /\ bufs'[b].st = "live" /\ bufs'[b].id = key
      /\ \A c \in Bufs \ {b} : bufs'[c] = bufs[c]
  BY <1>1 DEF Tables
<1>9. IdsPartition'
  BY <1>3, <1>4, <1>7, <1>8 DEF Tables, IdsPartition
<1>10. \A i \in DOMAIN ids'.table : bufs'[ids'.table[i]].id = i
  BY <1>4, <1>7, <1>8 DEF Tables
<1>. QED
  BY <1>5, <1>6, <1>9, <1>10 DEF Tables

LEMMA ExpireTables ==
  ASSUME Tables, NEW b \in Bufs, bufs[b].st # "free", Expire(b)
  PROVE  Tables'
<1>. DEFINE key == bufs[b].id
<1>1. /\ bufs' = [bufs EXCEPT ![b] = [st |-> "free", id |-> 0, plug |-> NoPlug]]
      /\ ids'.table = [i \in DOMAIN ids.table \ {key} |-> ids.table[i]]
      /\ ids'.pool = << key >> \o ids.pool /\ ids'.max = ids.max
  BY DEF Expire, ForefitId
<1>2. key \in DOMAIN ids.table /\ ids.table[key] = b /\ key \in 1..MaxId
  BY DEF Tables, IdsPartition, IdsTyped
<1>. HIDE DEF key
<1>3. /\ DOMAIN ids.table \cup ToSet(ids.pool) = 1..ids.max
      /\ DOMAIN ids.table \cap ToSet(ids.pool) = {}
      /\ IsInjective(ids.pool) /\ ids.pool \in Seq(1..MaxId)
  BY DEF Tables, IdsPartition, IdsTyped
<1>4. /\ ids'.pool \in Seq(1..MaxId) /\ IsInjective(ids'.pool)
      /\ ToSet(ids'.pool) = ToSet(ids.pool) \cup {key}
  <2>1. key \notin ToSet(ids.pool)
    BY <1>2, <1>3
  <2>2. /\ << key >> \o ids.pool \in Seq(1..MaxId) /\ IsInjective(<< key >> \o ids.pool)
        /\ ToSet(<< key >> \o ids.pool) = ToSet(ids.pool) \cup {key}
    <3>1. key \in 1..MaxId
      BY <1>2
    <3>2. ids.pool \in Seq(1..MaxId)
      BY <1>3
    <3>3. IsInjective(ids.pool)
      BY <1>3
    <3>. QED
      BY <2>1, <3>1, <3>2, <3>3, PushPool, Zenon
  <2>. QED
    BY <1>1, <2>2
<1>5. DOMAIN ids'.table = DOMAIN ids.table \ {key}
      /\ \A i \in DOMAIN ids'.table : ids'.table[i] = ids.table[i]
  BY <1>1
<1>6. IdsTyped'
  BY <1>1, <1>4, <1>5 DEF Tables, IdsTyped
<1>7. bufs' \in [Bufs -> BufType]
  BY <1>1 DEF Tables, BufType, MaxId
<1>8. bufs'[b].st = "free" /\ \A c \in Bufs \ {b} : bufs'[c] = bufs[c]
  BY <1>1 DEF Tables
<1>9. \A i \in DOMAIN ids'.table : ids.table[i] # b /\ ids.table[i] \in Bufs
  BY <1>2, <1>5 DEF Tables, IdsTyped, key
<1>10. \A c \in Bufs \ {b} : bufs[c].st # "free" => bufs[c].id # key
  BY <1>2 DEF Tables, IdsPartition
<1>11. IdsPartition'
  BY <1>1, <1>2, <1>3, <1>4, <1>5, <1>8, <1>9, <1>10 DEF Tables, IdsPartition
<1>12. \A i \in DOMAIN ids'.table : bufs'[ids'.table[i]].id = i
  BY <1>5, <1>8, <1>9 DEF Tables
<1>. QED
  BY <1>6, <1>7, <1>11, <1>12 DEF Tables

LEMMA TablesStep ==
  ASSUME Tables, [Next]_vars
  PROVE  Tables'
<1>1. ASSUME UNCHANGED ids, bufs' \in [Bufs -> BufType],
             \A c \in Bufs : /\ bufs'[c].id = bufs[c].id
                             /\ bufs'[c].st = "free" <=> bufs[c].st = "free"
      PROVE  Tables'
  BY <1>1 DEF Tables, IdsTyped, IdsPartition
<1>2. ASSUME UNCHANGED <<ids, bufs>> PROVE Tables'
  BY <1>1, <1>2 DEF Tables
<1>3. ASSUME NEW b \in Bufs, NEW v \in Plugs \cup {NoPlug}, UNCHANGED ids,
             bufs' = [bufs EXCEPT ![b].plug = v]
      PROVE  Tables'
  <2>1. bufs' = [bufs EXCEPT ![b] = [bufs[b] EXCEPT !.plug = v]] /\ bufs \in [Bufs -> BufType]
    BY <1>3 DEF Tables
  <2>2. [bufs[b] EXCEPT !.plug = v] \in BufType
    BY <2>1 DEF BufType
  <2>. QED
    BY <1>1, <1>3, <2>1, <2>2 DEF BufType
<1>4. ASSUME NEW b \in Bufs, NEW q \in BOOLEAN, WinClose(b, q) PROVE Tables'
  <2>1. bufs[b].st = "live" /\ bufs \in [Bufs -> BufType]
    BY <1>4 DEF WinClose, LiveBufs, Tables
  <2>2. CASE q
    <3>1. bufs' = [bufs EXCEPT ![b] = [bufs[b] EXCEPT !.st = "deleted"]] /\ UNCHANGED ids
      BY <1>4, <2>1, <2>2 DEF WinClose
    <3>2. [bufs[b] EXCEPT !.st = "deleted"] \in BufType
      BY <2>1 DEF BufType
    <3>. QED
      BY <1>1, <2>1, <3>1, <3>2 DEF BufType
  <2>3. CASE ~q
    BY <1>4, <2>1, <2>3, ExpireTables DEF WinClose
  <2>. QED
    BY <2>2, <2>3
<1>5. ASSUME NEW b \in Bufs, BufDraw(b) PROVE Tables'
  BY <1>5, ExpireTables DEF BufDraw
<1>6. ASSUME NEW b \in Bufs, WinBdel(b) PROVE Tables'
  BY <1>3, <1>6 DEF WinBdel
<1>7. ASSUME NEW b \in Bufs, NEW p \in Plugs, NEW kind \in {"fm", "img"}, PluginOpen(b, p, kind)
      PROVE  Tables'
  BY <1>3, <1>7 DEF PluginOpen
<1>8. ASSUME CallHooks PROVE Tables'
  BY <1>2, <1>8 DEF CallHooks, CmdHook, IntlHook, Fault
<1>. QED
  BY <1>2, <1>4, <1>5, <1>6, <1>7, <1>8, BufNewTables
     DEF Next, vars, AugroupRemove, AugroupAdd, AutocmdRemove, Autocmd, SendHookMsg, Return

LEMMA TablesInit == Init => Tables
<1>1. SUFFICES ASSUME Init PROVE Tables
  OBVIOUS
<1>2. ids.table = [i \in {} |-> NoBuf] /\ ids.pool = <<>> /\ ids.max = 0
  BY <1>1 DEF Init
<1>3. DOMAIN ids.table = {} /\ ToSet(ids.pool) = {} /\ IsInjective(ids.pool)
  BY <1>2 DEF ToSet, IsInjective
<1>4. IdsTyped
  BY <1>2, <1>3, EmptySeq DEF IdsTyped, MaxId
<1>5. bufs \in [Bufs -> BufType] /\ \A b \in Bufs : bufs[b].st = "free"
  BY <1>1 DEF Init, BufType, MaxId
<1>6. IdsPartition
  BY <1>2, <1>3, <1>5 DEF IdsPartition
<1>. QED
  BY <1>3, <1>4, <1>5, <1>6 DEF Tables

(* obtain_id gives no id out twice and forefit_id loses none, whenever a   *)
(* deleted buffer is drawn for the last time.                              *)
THEOREM IdsCorrect == Spec => []IdsPartition
<1>1. Init => Tables
  BY TablesInit
<1>2. Tables /\ [Next]_vars => Tables'
  BY TablesStep
<1>3. Tables => IdsPartition
  BY DEF Tables
<1>. QED
  BY <1>1, <1>2, <1>3, PTL DEF Spec
-----------------------------------------------------------------------------
(* Hooks: what an array of an event may hold.                              *)
OkHook(ev) ==
  {h \in HookType :
     /\ h.type = "tmp" => ev = "execopen" /\ h.caller = Op
     /\ h.type = "intl" => /\ ev # "execopen" /\ h.host \in Plugs
                           /\ ev # FirstEvent => h.caller \in {NoPlug, h.host}}

Hooked == hooks \in [Events -> Seq(HookType)] /\ \A ev \in Events : hooks[ev] \in Seq(OkHook(ev))

(* A call is of the plugins its event is sent with.                        *)
OkFrame ==
  {fr \in FrameType :
     /\ fr.host \in Plugs \/ (fr.ev = "execopen" /\ fr.host = NoPlug)
     /\ fr.caller \in IF fr.ev \in {"pipe", "piperemove"} THEN Plugs ELSE {NoPlug}}

Fresh(fr) == ~fr.touched => /\ fr.count <= Len(hooks[fr.ev])
                            /\ {fr.host, fr.caller} \subseteq LivePlugs \cup {NoPlug}

Calls == frames \in Seq(OkFrame) /\ \A k \in DOMAIN frames : Fresh(frames[k])

PlugsOk == plugs \in [Plugs -> PlugType] /\ \A p \in Plugs : plugs[p].live => plugs[p].buf \in Bufs

SafeState == Tables /\ PlugsOk /\ Hooked /\ Calls

(* Hooks of the right shape for each event are hooks.                      *)
LEMMA HookedBy ==
  ASSUME NEW H, H = [ev \in Events |-> H[ev]], \A ev \in Events : H[ev] \in Seq(OkHook(ev))
  PROVE  H \in [Events -> Seq(HookType)]
<1>1. \A ev \in Events : OkHook(ev) \subseteq HookType
  BY DEF OkHook
<1>2. ASSUME NEW ev \in Events PROVE H[ev] \in Seq(HookType)
  <2>1. H[ev] \in Seq(OkHook(ev)) /\ OkHook(ev) \subseteq HookType
    BY <1>1
  <2>. QED
    BY <2>1, SeqMonotonic
<1>. QED
  BY <1>2

(* One array is changed.                                                   *)
LEMMA HookedExcept ==
  ASSUME Hooked, NEW ev \in Events, NEW s \in Seq(OkHook(ev)),
         hooks' = [hooks EXCEPT ![ev] = s]
  PROVE  Hooked'
<1>1. \A e \in Events : hooks'[e] \in Seq(OkHook(e))
  BY DEF Hooked
<1>2. hooks' = [e \in Events |-> hooks'[e]]
  BY DEF Hooked
<1>3. hooks' \in [Events -> Seq(HookType)]
  BY <1>1, <1>2, HookedBy
<1>. QED
  BY <1>1, <1>3 DEF Hooked

LEMMA HookedErase ==
  ASSUME Hooked, NEW ev \in Events, NEW unwanted,
         hooks' = [hooks EXCEPT ![ev] = EraseLoop(hooks[ev], unwanted)]
  PROVE  Hooked'
<1>1. hooks[ev] \in Seq(OkHook(ev))
  BY DEF Hooked
<1>. DEFINE T == OkHook(ev) s == hooks[ev] t == EraseLoop(s, unwanted)
<1>2. s \in Seq(T)
  BY <1>1
<1>. HIDE DEF T, s, t
<1>3. EraseLoop(s, unwanted) \in Seq(T)
  BY <1>2, EraseLoopProperties
<1>4. t \in Seq(OkHook(ev)) /\ hooks' = [hooks EXCEPT ![ev] = t]
  BY <1>3 DEF T, s, t
<1>. QED
  BY <1>4, HookedExcept

LEMMA HookedAdd ==
  ASSUME Hooked, NEW ev \in Events, NEW h \in OkHook(ev), hooks' = HookAdd(hooks, ev, h)
  PROVE  /\ Hooked'
         /\ \A e \in Events : Len(hooks[e]) \in Nat /\ Len(hooks'[e]) \in Nat
                              /\ Len(hooks[e]) <= Len(hooks'[e])
<1>1. hooks[ev] \in Seq(OkHook(ev)) /\ \A e \in Events : Len(hooks[e]) \in Nat
  BY LenProperties DEF Hooked
<1>2. Append(hooks[ev], h) \in Seq(OkHook(ev)) /\ Len(Append(hooks[ev], h)) = Len(hooks[ev]) + 1
  BY <1>1, AppendProperties
<1>3. hooks' = [hooks EXCEPT ![ev] = Append(hooks[ev], h)]
  BY DEF HookAdd
<1>4. Hooked'
  BY <1>2, <1>3, HookedExcept
<1>5. hooks'[ev] = Append(hooks[ev], h) /\ \A e \in Events \ {ev} : hooks'[e] = hooks[e]
  BY <1>3 DEF Hooked
<1>6. ASSUME NEW e \in Events
      PROVE  Len(hooks[e]) \in Nat /\ Len(hooks'[e]) \in Nat /\ Len(hooks[e]) <= Len(hooks'[e])
  <2>1. CASE e = ev
    <3>1. Len(hooks[ev]) \in Nat /\ Len(hooks'[ev]) = Len(hooks[ev]) + 1
      BY <1>1, <1>2, <1>5
    <3>. QED
      BY <2>1, <3>1
  <2>2. CASE e # ev
    <3>1. Len(hooks[e]) \in Nat /\ hooks'[e] = hooks[e]
      BY <1>1, <1>5, <2>2
    <3>. QED
      BY <3>1
  <2>. QED
    BY <2>1, <2>2
<1>. QED
  BY <1>4, <1>6

LEMMA HookTyped ==
  ASSUME NEW bufno \in Int, NEW type \in {"cmd", "intl", "tmp"}, NEW aug \in Augs \cup {NoAug},
         NEW host \in AnyPlug, NEW caller \in AnyPlug
  PROVE  /\ Hook(bufno, type, aug, host, caller) \in HookType
         /\ Hook(bufno, type, aug, host, caller).type = type
         /\ Hook(bufno, type, aug, host, caller).host = host
         /\ Hook(bufno, type, aug, host, caller).caller = caller
BY DEF Hook, HookType

-----------------------------------------------------------------------------
(* Calls.                                                                  *)
LEMMA TouchFrames ==
  ASSUME NEW F \in Seq(OkFrame)
  PROVE  Touch(F) \in Seq(OkFrame) /\ DOMAIN Touch(F) = DOMAIN F
         /\ \A k \in DOMAIN F : Touch(F)[k].touched
<1>1. Len(F) \in Nat /\ DOMAIN F = 1..Len(F) /\ \A k \in DOMAIN F : F[k] \in OkFrame
  BY LenProperties, ElementOfSeq
<1>2. ASSUME NEW k \in DOMAIN F
      PROVE  [F[k] EXCEPT !.touched = TRUE] \in OkFrame /\ [F[k] EXCEPT !.touched = TRUE].touched
  <2>1. F[k] \in OkFrame
    BY <1>1
  <2>. QED
    BY <2>1 DEF OkFrame, FrameType
<1>3. Touch(F) \in [1..Len(F) -> OkFrame] /\ DOMAIN Touch(F) = DOMAIN F
  BY <1>1, <1>2 DEF Touch
<1>4. Touch(F) \in Seq(OkFrame)
  BY <1>1, <1>3, SeqDef
<1>. QED
  BY <1>2, <1>3, <1>4 DEF Touch

LEMMA GoesFrames ==
  ASSUME NEW F \in Seq(OkFrame), F # <<>>, NEW i \in Nat \ {0}, NEW pc \in {"loop", "in"}
  PROVE  /\ Goes(F, i, pc) \in Seq(OkFrame) /\ DOMAIN Goes(F, i, pc) = DOMAIN F
         /\ \A k \in DOMAIN F :
              /\ Goes(F, i, pc)[k].touched <=> F[k].touched
              /\ Goes(F, i, pc)[k].ev = F[k].ev /\ Goes(F, i, pc)[k].count = F[k].count
              /\ Goes(F, i, pc)[k].host = F[k].host /\ Goes(F, i, pc)[k].caller = F[k].caller
<1>1. Len(F) \in Nat /\ DOMAIN F = 1..Len(F) /\ \A k \in DOMAIN F : F[k] \in OkFrame
  BY LenProperties, ElementOfSeq
<1>2. 1 \in DOMAIN F
  BY <1>1, EmptySeq
<1>. DEFINE g == [F[1] EXCEPT !.i = i, !.pc = pc]
<1>3. g \in OkFrame /\ (g.touched <=> F[1].touched) /\ g.ev = F[1].ev /\ g.count = F[1].count
      /\ g.host = F[1].host /\ g.caller = F[1].caller
  <2>1. F[1] \in OkFrame
    BY <1>1, <1>2
  <2>. QED
    BY <2>1 DEF OkFrame, FrameType
<1>4. Goes(F, i, pc) = [F EXCEPT ![1] = g]
  BY <1>1, <1>2 DEF Goes
<1>. HIDE DEF g
<1>5. [F EXCEPT ![1] = g] \in [1..Len(F) -> OkFrame]
  BY <1>1, <1>3
<1>6. [F EXCEPT ![1] = g] \in Seq(OkFrame)
  BY <1>1, <1>5, SeqDef
<1>. QED
  BY <1>1, <1>2, <1>3, <1>4, <1>6

(* A call stays as good as it was while no array loses a hook and no       *)
(* plugin is closed.                                                       *)
LEMMA CallsKept ==
  ASSUME Calls, Hooked, Hooked', LivePlugs \subseteq LivePlugs',
         \A e \in Events : Len(hooks[e]) <= Len(hooks'[e]),
         \/ UNCHANGED frames
         \/ \E i \in Nat \ {0}, pc \in {"loop", "in"} : frames # <<>> /\ frames' = Goes(frames, i, pc)
  PROVE  Calls'
<1>1. frames \in Seq(OkFrame) /\ \A k \in DOMAIN frames : Fresh(frames[k])
  BY DEF Calls
<1>2. /\ frames' \in Seq(OkFrame) /\ DOMAIN frames' = DOMAIN frames
      /\ \A k \in DOMAIN frames :
           /\ frames'[k].touched <=> frames[k].touched
           /\ frames'[k].ev = frames[k].ev /\ frames'[k].count = frames[k].count
           /\ frames'[k].host = frames[k].host /\ frames'[k].caller = frames[k].caller
  <2>1. CASE UNCHANGED frames
    BY <1>1, <2>1
  <2>2. ASSUME NEW i \in Nat \ {0}, NEW pc \in {"loop", "in"}, frames # <<>>,
               frames' = Goes(frames, i, pc)
        PROVE  /\ frames' \in Seq(OkFrame) /\ DOMAIN frames' = DOMAIN frames
               /\ \A k \in DOMAIN frames :
                    /\ frames'[k].touched <=> frames[k].touched
                    /\ frames'[k].ev = frames[k].ev /\ frames'[k].count = frames[k].count
                    /\ frames'[k].host = frames[k].host /\ frames'[k].caller = frames[k].caller
    <3>1. /\ Goes(frames, i, pc) \in Seq(OkFrame) /\ DOMAIN Goes(frames, i, pc) = DOMAIN frames
          /\ \A k \in DOMAIN frames :
               /\ Goes(frames, i, pc)[k].touched <=> frames[k].touched
               /\ Goes(frames, i, pc)[k].ev = frames[k].ev /\ Goes(frames, i, pc)[k].count = frames[k].count
               /\ Goes(frames, i, pc)[k].host = frames[k].host /\ Goes(frames, i, pc)[k].caller = frames[k].caller
      BY <1>1, <2>2, GoesFrames, Zenon
    <3>. QED
      BY <2>2, <3>1, Zenon
  <2>. QED
    BY <2>1, <2>2
<1>3. \A k \in DOMAIN frames : frames[k] \in OkFrame
  BY <1>1, ElementOfSeq, LenProperties
<1>4. \A k \in DOMAIN frames : frames[k].ev \in Events /\ frames[k].count \in Nat
  BY <1>3 DEF OkFrame, FrameType
<1>5. \A e \in Events : Len(hooks[e]) \in Nat /\ Len(hooks'[e]) \in Nat
  BY LenProperties DEF Hooked
<1>6. ASSUME NEW k \in DOMAIN frames PROVE Fresh(frames[k])'
  BY <1>1, <1>2, <1>4, <1>5 DEF Fresh
<1>. QED
  BY <1>2, <1>6 DEF Calls

LEMMA CallsTouched ==
  ASSUME Calls, frames' = Touch(frames)
  PROVE  Calls'
<1>1. frames \in Seq(OkFrame)
  BY DEF Calls
<1>. QED
  BY <1>1, TouchFrames DEF Calls, Fresh
-----------------------------------------------------------------------------
(* The steps.                                                              *)
LEMMA PluginCloseOk ==
  ASSUME PlugsOk, NEW p \in Plugs \cup {NoPlug}, plugs' = PluginClose(p)
  PROVE  PlugsOk'
BY DEF PlugsOk, PluginClose, NoPlugin, PlugType

LEMMA PlugsStep ==
  ASSUME Tables, PlugsOk, [Next]_vars
  PROVE  PlugsOk'
<1>1. ASSUME UNCHANGED plugs PROVE PlugsOk'
  BY <1>1 DEF PlugsOk
<1>2. ASSUME NEW b \in Bufs, NEW p \in Plugs, NEW kind \in {"fm", "img"}, PluginOpen(b, p, kind)
      PROVE  PlugsOk'
  BY <1>2 DEF PluginOpen, PlugsOk, PlugType
<1>3. \A b \in Bufs : bufs[b].plug \in Plugs \cup {NoPlug}
  BY DEF Tables, BufType
<1>4. ASSUME NEW b \in Bufs, NEW q \in BOOLEAN, WinClose(b, q) PROVE PlugsOk'
  BY <1>3, <1>4, PluginCloseOk DEF WinClose
<1>5. ASSUME NEW b \in Bufs, WinBdel(b) PROVE PlugsOk'
  BY <1>3, <1>5, PluginCloseOk DEF WinBdel
<1>6. ASSUME CallHooks PROVE PlugsOk'
  BY <1>1, <1>6 DEF CallHooks, CmdHook, IntlHook, Fault
<1>. QED
  BY <1>1, <1>2, <1>4, <1>5, <1>6
     DEF Next, vars, BufNew, BufDraw, AugroupRemove, AugroupAdd, AutocmdRemove, Autocmd,
         SendHookMsg, Return

LEMMA OpenStep ==
  ASSUME SafeState, NEW b \in Bufs, NEW p \in Plugs, NEW kind \in {"fm", "img"},
         PluginOpen(b, p, kind)
  PROVE  Hooked' /\ Calls'
<1>. DEFINE h == Hook(bufs[b].id, "intl", NoAug, p, SelfCaller(kind, p))
<1>1. /\ ~plugs[p].live /\ UNCHANGED frames
      /\ plugs' = [plugs EXCEPT ![p] = [live |-> TRUE, kind |-> kind, buf |-> b]]
      /\ hooks' = [ev \in Events |-> IF ev \in Registers(kind) THEN Append(hooks[ev], h) ELSE hooks[ev]]
  BY DEF PluginOpen
<1>2. bufs[b].id \in Int
  BY DEF SafeState, Tables, BufType, MaxId
<1>3. SelfCaller(kind, p) \in {NoPlug, p}
  BY DEF SelfCaller
<1>4. h \in HookType /\ h.type = "intl" /\ h.host = p /\ h.caller \in {NoPlug, p}
  <2>1. p \in AnyPlug /\ SelfCaller(kind, p) \in AnyPlug
    BY <1>3 DEF AnyPlug
  <2>. QED
    BY <1>2, <1>3, <2>1 DEF Hook, HookType
<1>. HIDE DEF h
<1>5. ASSUME NEW ev \in Events
      PROVE  /\ hooks'[ev] \in Seq(OkHook(ev)) /\ Len(hooks[ev]) <= Len(hooks'[ev])
  <2>1. hooks[ev] \in Seq(OkHook(ev)) /\ Len(hooks[ev]) \in Nat
    BY LenProperties DEF SafeState, Hooked
  <2>2. CASE ev \in Registers(kind)
    <3>1. ev # "execopen" /\ ev # FirstEvent
      BY <2>2 DEF Registers, FirstEvent
    <3>2. h \in OkHook(ev)
      BY <1>4, <3>1 DEF OkHook
    <3>3. Append(hooks[ev], h) \in Seq(OkHook(ev)) /\ Len(Append(hooks[ev], h)) = Len(hooks[ev]) + 1
      BY <2>1, <3>2, AppendProperties
    <3>4. hooks'[ev] = Append(hooks[ev], h)
      BY <1>1, <2>2
    <3>. QED
      BY <2>1, <3>3, <3>4
  <2>3. CASE ev \notin Registers(kind)
    <3>1. hooks'[ev] = hooks[ev]
      BY <1>1, <2>3
    <3>. QED
      BY <2>1, <3>1
  <2>. QED
    BY <2>2, <2>3
<1>6. hooks' = [ev \in Events |-> hooks'[ev]]
  BY <1>1
<1>7. Hooked'
  BY <1>5, <1>6, HookedBy DEF Hooked
<1>8. LivePlugs \subseteq LivePlugs'
  BY <1>1 DEF LivePlugs, SafeState, PlugsOk
<1>. QED
  BY <1>1, <1>5, <1>7, <1>8, CallsKept DEF SafeState

LEMMA ClearStep ==
  ASSUME Hooked, NEW id, hooks' = HookClearHost(hooks, id)
  PROVE  Hooked'
BY HookedErase DEF HookClearHost, FirstEvent, Events, Hooked

LEMMA CloseStep ==
  ASSUME SafeState, NEW b \in Bufs,
         BufDraw(b) \/ WinBdel(b) \/ \E q \in BOOLEAN : WinClose(b, q)
  PROVE  Hooked' /\ Calls'
<1>1. frames' = Touch(frames)
  BY DEF BufDraw, WinBdel, WinClose
<1>2. UNCHANGED hooks \/ hooks' = HookClearHost(hooks, bufs[b].id)
  BY DEF BufDraw, WinBdel, WinClose, Expire
<1>3. Hooked'
  BY <1>2, ClearStep DEF SafeState, Hooked
<1>. QED
  BY <1>1, <1>3, CallsTouched DEF SafeState

LEMMA AutocmdStep ==
  ASSUME SafeState, NEW a \in Augs \cup {NoAug}, NEW ev \in CmdEvents, NEW id \in Int,
         Autocmd(a, ev, id)
  PROVE  Hooked' /\ Calls'
<1>1. NoPlug \in AnyPlug
  BY DEF AnyPlug
<1>2. Hook(id, "cmd", a, NoPlug, NoPlug) \in OkHook(ev)
  BY <1>1, HookTyped DEF OkHook
<1>3. ev \in Events
  BY HooksAssumption
<1>4. hooks' = HookAdd(hooks, ev, Hook(id, "cmd", a, NoPlug, NoPlug)) /\ UNCHANGED <<plugs, frames>>
  BY DEF Autocmd
<1>5. /\ Hooked'
      /\ \A e \in Events : Len(hooks[e]) \in Nat /\ Len(hooks'[e]) \in Nat
                           /\ Len(hooks[e]) <= Len(hooks'[e])
  BY <1>2, <1>3, <1>4, HookedAdd DEF SafeState
<1>6. LivePlugs \subseteq LivePlugs'
  BY <1>4 DEF LivePlugs
<1>. QED
  BY <1>4, <1>5, <1>6, CallsKept DEF SafeState

LEMMA AutocmdRemoveStep ==
  ASSUME SafeState, NEW a, NEW ev \in CmdEvents, AutocmdRemove(a, ev)
  PROVE  Hooked' /\ Calls'
<1>1. ev \in Events
  BY HooksAssumption
<1>2. hooks' = HookDelete(hooks, ev, a) /\ frames' = Touch(frames)
  BY DEF AutocmdRemove
<1>3. Hooked'
  BY <1>1, <1>2, HookedErase DEF HookDelete, SafeState, Hooked
<1>. QED
  BY <1>2, <1>3, CallsTouched DEF SafeState

LEMMA SendStep ==
  ASSUME SafeState, NEW ev \in Events, NEW host \in LivePlugs \cup {NoPlug},
         NEW caller \in LivePlugs \cup {NoPlug}, SendHookMsg(ev, host, caller)
  PROVE  Hooked' /\ Calls'
<1>. DEFINE fr == Frame(ev, host, caller)
<1>1. /\ \/ ev = "execopen" /\ host = NoPlug /\ caller = NoPlug
         \/ ev \in {"cursorchange", "open"} /\ host \in LivePlugs \ {Op} /\ caller = NoPlug
         \/ ev \in {"pipe", "piperemove"} /\ {host, caller} \subseteq LivePlugs \ {Op}
      /\ frames' = << fr >> \o frames /\ UNCHANGED <<hooks, plugs>>
  BY DEF SendHookMsg
<1>2. LivePlugs \ {Op} \subseteq Plugs
  BY DEF LivePlugs
<1>3. Len(hooks[ev]) \in Nat
  BY LenProperties DEF SafeState, Hooked
<1>4. host \in AnyPlug /\ caller \in AnyPlug
  BY DEF AnyPlug, LivePlugs
<1>5. fr \in FrameType
  BY <1>3, <1>4 DEF Frame, FrameType
<1>6. /\ host \in Plugs \/ (ev = "execopen" /\ host = NoPlug)
      /\ caller \in IF ev \in {"pipe", "piperemove"} THEN Plugs ELSE {NoPlug}
  BY <1>1, <1>2
<1>7. fr.ev = ev /\ fr.host = host /\ fr.caller = caller /\ fr.count = Len(hooks[ev])
  BY DEF Frame
<1>. HIDE DEF fr
<1>8. fr \in OkFrame
  BY <1>5, <1>6, <1>7 DEF OkFrame
<1>9. Fresh(fr)
  BY <1>3, <1>7 DEF Fresh
<1>10. frames \in Seq(OkFrame) /\ \A k \in DOMAIN frames : Fresh(frames[k])
  BY DEF SafeState, Calls
<1>11. << fr >> \in Seq(OkFrame) /\ Len(<< fr >>) = 1 /\ << fr >>[1] = fr
  BY <1>8
<1>12. /\ frames' \in Seq(OkFrame) /\ Len(frames') = 1 + Len(frames) /\ Len(frames) \in Nat
       /\ \A k \in 1..1+Len(frames) : frames'[k] = IF k <= 1 THEN << fr >>[k] ELSE frames[k - 1]
  BY <1>1, <1>10, <1>11, ConcatProperties, LenProperties
<1>13. DOMAIN frames' = 1..1+Len(frames) /\ DOMAIN frames = 1..Len(frames)
  BY <1>10, <1>12, LenProperties
<1>14. \A k \in DOMAIN frames' : frames'[k] = fr \/ \E j \in DOMAIN frames : frames'[k] = frames[j]
  BY <1>11, <1>12, <1>13
<1>15. \A k \in DOMAIN frames' : Fresh(frames'[k])
  BY <1>9, <1>10, <1>14
<1>16. \A k \in DOMAIN frames' : Fresh(frames[k])'
  BY <1>1, <1>15 DEF Fresh, LivePlugs
<1>17. Hooked'
  BY <1>1 DEF SafeState, Hooked
<1>. QED
  BY <1>12, <1>16, <1>17 DEF Calls
(* The call that runs, and the hook it is at.                              *)
LEMMA TopCall ==
  ASSUME SafeState, frames # <<>>
  PROVE  /\ Head(frames) = frames[1] /\ 1 \in DOMAIN frames
         /\ Head(frames) \in OkFrame /\ Head(frames) \in FrameType /\ Fresh(Head(frames))
         /\ hooks[Head(frames).ev] \in Seq(OkHook(Head(frames).ev))
         /\ Tail(frames) \in Seq(OkFrame)
         /\ \A k \in DOMAIN Tail(frames) : k + 1 \in DOMAIN frames /\ Tail(frames)[k] = frames[k+1]
<1>1. frames \in Seq(OkFrame) /\ \A k \in DOMAIN frames : Fresh(frames[k])
  BY DEF SafeState, Calls
<1>2. /\ Len(frames) \in Nat \ {0} /\ DOMAIN frames = 1..Len(frames)
      /\ Head(frames) = frames[1] /\ Head(frames) \in OkFrame
      /\ Tail(frames) \in Seq(OkFrame) /\ Len(Tail(frames)) = Len(frames) - 1
      /\ \A i \in 1..Len(Tail(frames)) : Tail(frames)[i] = frames[i+1]
  BY <1>1, EmptySeq, LenProperties, HeadTailProperties
<1>3. Head(frames) \in FrameType
  BY <1>2 DEF OkFrame
<1>4. hooks[Head(frames).ev] \in Seq(OkHook(Head(frames).ev))
  BY <1>3 DEF SafeState, Hooked, FrameType
<1>5. DOMAIN Tail(frames) = 1..Len(frames)-1
  BY <1>2, LenProperties
<1>. QED
  BY <1>1, <1>2, <1>3, <1>4, <1>5

LEMMA ReturnStep ==
  ASSUME SafeState, Return
  PROVE  Hooked' /\ Calls'
<1>1. /\ frames # <<>> /\ frames' = Goes(frames, Head(frames).i + 1, "loop")
      /\ UNCHANGED <<hooks, plugs>>
  BY DEF Return
<1>2. Head(frames).i + 1 \in Nat \ {0}
  BY <1>1, TopCall DEF FrameType
<1>3. Hooked'
  BY <1>1 DEF SafeState, Hooked
<1>4. LivePlugs \subseteq LivePlugs' /\ \A e \in Events : Len(hooks[e]) <= Len(hooks'[e])
  <2>1. \A e \in Events : Len(hooks[e]) \in Nat
    BY LenProperties DEF SafeState, Hooked
  <2>. QED
    BY <1>1, <2>1 DEF LivePlugs
<1>. QED
  BY <1>1, <1>2, <1>3, <1>4, CallsKept DEF SafeState

(* The callback of img hooks it on the plugin that is piped to it, which   *)
(* lives.                                                                  *)
LEMMA PipeOk ==
  ASSUME SafeState, NEW host \in Plugs, NEW caller \in Plugs, host \in LivePlugs
  PROVE  Hook(bufs[plugs[host].buf].id, "intl", NoAug, caller, host) \in OkHook("cursorchange")
<1>1. host # Op
  BY HooksAssumption
<1>2. plugs[host].buf \in Bufs
  BY <1>1 DEF SafeState, PlugsOk, LivePlugs
<1>3. bufs[plugs[host].buf].id \in Int
  BY <1>2 DEF SafeState, Tables, BufType, MaxId
<1>4. host \in AnyPlug /\ caller \in AnyPlug
  BY DEF AnyPlug
<1>. DEFINE id == bufs[plugs[host].buf].id
<1>. HIDE DEF id
<1>5. id \in Int
  BY <1>3 DEF id
<1>6. Hook(id, "intl", NoAug, caller, host) \in OkHook("cursorchange")
  <2>. DEFINE n == Hook(id, "intl", NoAug, caller, host)
  <2>1. n \in HookType /\ n.type = "intl" /\ n.host = caller
    BY <1>4, <1>5 DEF Hook, HookType
  <2>. HIDE DEF n
  <2>2. n \in OkHook("cursorchange")
    BY <2>1 DEF OkHook, FirstEvent
  <2>. QED
    BY <2>2 DEF n
<1>. QED
  BY <1>6 DEF id

LEMMA CallStep ==
  ASSUME SafeState, CallHooks
  PROVE  Hooked' /\ Calls'
<1>. DEFINE fr == Head(frames)
            h == hooks[fr.ev][fr.i]
            caller == IF fr.caller # NoPlug THEN fr.caller ELSE h.caller
<1>1. frames # <<>>
  BY DEF CallHooks
<1>2. /\ fr = frames[1] /\ fr \in OkFrame /\ fr \in FrameType
      /\ hooks[fr.ev] \in Seq(OkHook(fr.ev)) /\ Tail(frames) \in Seq(OkFrame)
      /\ \A k \in DOMAIN Tail(frames) : k + 1 \in DOMAIN frames /\ Tail(frames)[k] = frames[k+1]
  BY <1>1, TopCall
<1>3. fr.i \in Nat \ {0} /\ fr.i + 1 \in Nat \ {0} /\ fr.ev \in Events
  BY <1>2 DEF FrameType
<1>4. \A e \in Events : Len(hooks[e]) \in Nat
  BY LenProperties DEF SafeState, Hooked
<1>5. ASSUME UNCHANGED <<hooks, plugs, frames>> PROVE Hooked' /\ Calls'
  BY <1>5 DEF SafeState, Hooked, Calls, Fresh, LivePlugs
<1>6. ASSUME UNCHANGED <<hooks, plugs>>,
             \E i \in Nat \ {0}, pc \in {"loop", "in"} : frames' = Goes(frames, i, pc)
      PROVE  Hooked' /\ Calls'
  <2>1. Hooked'
    BY <1>6 DEF SafeState, Hooked
  <2>2. LivePlugs \subseteq LivePlugs' /\ \A e \in Events : Len(hooks[e]) <= Len(hooks'[e])
    BY <1>4, <1>6 DEF LivePlugs
  <2>. QED
    BY <1>1, <1>6, <2>1, <2>2, CallsKept DEF SafeState
<1>7. ASSUME UNCHANGED <<hooks, plugs>>, frames' = Tail(frames) PROVE Hooked' /\ Calls'
  <2>1. Hooked'
    BY <1>7 DEF SafeState, Hooked
  <2>2. \A k \in DOMAIN frames : Fresh(frames[k])
    BY DEF SafeState, Calls
  <2>3. \A k \in DOMAIN frames' : Fresh(frames'[k])
    BY <1>2, <1>7, <2>2
  <2>4. \A k \in DOMAIN frames' : Fresh(frames[k])'
    BY <1>7, <2>3 DEF Fresh, LivePlugs
  <2>. QED
    BY <1>2, <1>7, <2>1, <2>4 DEF Calls
<1>. HIDE DEF fr, h, caller
<1>8. ASSUME CmdHook(fr, h) PROVE Hooked' /\ Calls'
  <2>1. UNCHANGED <<hooks, plugs>>
        /\ (UNCHANGED frames \/ frames' = Goes(frames, fr.i, "in") \/ frames' = Goes(frames, fr.i + 1, "loop"))
    BY <1>8 DEF CmdHook, Fault
  <2>. QED
    BY <1>3, <1>5, <1>6, <2>1
<1>9. ASSUME IntlHook(fr, h), h \in OkHook(fr.ev), h.type # "cmd" PROVE Hooked' /\ Calls'
  <2>. DEFINE H == IntlEffect(fr, fr.host, caller)
  <2>1. CASE UNCHANGED <<hooks, plugs>>
             /\ (UNCHANGED frames \/ frames' = Goes(frames, fr.i + 1, "loop"))
    BY <1>3, <1>5, <1>6, <2>1
  <2>2. CASE /\ h.type = "tmp" \/ fr.host \in LivePlugs
             /\ hooks' = H /\ UNCHANGED plugs
             /\ frames' = IF fr.ev = "open" THEN Goes(frames, fr.i, "in")
                          ELSE IF fr.ev = "piperemove" THEN Goes(Touch(frames), fr.i + 1, "loop")
                          ELSE Goes(frames, fr.i + 1, "loop")
    <3>1. CASE fr.ev = "pipe" /\ plugs[caller].kind = "fm"
      <4>1. fr.host \in Plugs /\ fr.caller \in Plugs /\ fr.caller # NoPlug
        BY <1>2, <3>1, HooksAssumption DEF OkFrame
      <4>2. caller = fr.caller
        BY <4>1 DEF caller
      <4>3. fr.host \in LivePlugs
        BY <1>9, <2>2, <3>1 DEF OkHook
      <4>. DEFINE n == Hook(bufs[plugs[fr.host].buf].id, "intl", NoAug, caller, fr.host)
      <4>4. n \in OkHook("cursorchange")
        BY <4>1, <4>2, <4>3, PipeOk
      <4>5. H = HookAdd(hooks, "cursorchange", n)
        BY <3>1 DEF IntlEffect
      <4>6. "cursorchange" \in Events
        BY DEF Events
      <4>7. frames' = Goes(frames, fr.i + 1, "loop") /\ hooks' = HookAdd(hooks, "cursorchange", n)
        BY <2>2, <3>1, <4>5
      <4>. HIDE DEF n
      <4>8. Hooked' /\ \A e \in Events : Len(hooks[e]) <= Len(hooks'[e])
        BY <4>4, <4>6, <4>7, HookedAdd DEF SafeState
      <4>9. LivePlugs \subseteq LivePlugs'
        BY <2>2 DEF LivePlugs
      <4>. QED
        BY <1>1, <1>3, <4>7, <4>8, <4>9, CallsKept DEF SafeState
    <3>2. CASE fr.ev = "piperemove"
      <4>. DEFINE gone == {x \in ToSet(hooks["cursorchange"]) : x.host = caller /\ x.caller = fr.host}
      <4>1. H = [hooks EXCEPT !["cursorchange"] = EraseLoop(hooks["cursorchange"], gone)]
        BY <3>2 DEF IntlEffect, HookRmIntl, SafeState, Hooked, Events
      <4>2. "cursorchange" \in Events
        BY DEF Events
      <4>3. hooks' = [hooks EXCEPT !["cursorchange"] = EraseLoop(hooks["cursorchange"], gone)]
        BY <2>2, <4>1
      <4>. HIDE DEF gone
      <4>4. Hooked'
        BY <4>2, <4>3, HookedErase DEF SafeState
      <4>5. frames' = Goes(Touch(frames), fr.i + 1, "loop")
        BY <2>2, <3>2
      <4>6. frames \in Seq(OkFrame) /\ DOMAIN frames # {}
        BY <1>1, TopCall DEF SafeState, Calls
      <4>7. /\ Touch(frames) \in Seq(OkFrame) /\ DOMAIN Touch(frames) = DOMAIN frames
            /\ \A k \in DOMAIN frames : Touch(frames)[k].touched
        BY <4>6, TouchFrames
      <4>. DEFINE F == Touch(frames)
      <4>. HIDE DEF F
      <4>8. F \in Seq(OkFrame) /\ F # <<>> /\ \A k \in DOMAIN F : F[k].touched
        BY <4>6, <4>7 DEF F
      <4>9. /\ Goes(F, fr.i + 1, "loop") \in Seq(OkFrame) /\ DOMAIN Goes(F, fr.i + 1, "loop") = DOMAIN F
            /\ \A k \in DOMAIN F : Goes(F, fr.i + 1, "loop")[k].touched <=> F[k].touched
        BY <1>3, <4>8, GoesFrames
      <4>10. frames' \in Seq(OkFrame) /\ \A k \in DOMAIN frames' : frames'[k].touched
        BY <4>5, <4>8, <4>9 DEF F
      <4>. QED
        BY <4>4, <4>10 DEF Calls, Fresh
    <3>3. CASE ~(fr.ev = "pipe" /\ plugs[caller].kind = "fm") /\ fr.ev # "piperemove"
      <4>1. hooks' = hooks
        BY <2>2, <3>3 DEF IntlEffect
      <4>. QED
        BY <1>3, <1>6, <2>2, <3>3, <4>1
    <3>. QED
      BY <3>1, <3>2, <3>3
  <2>. QED
    BY <1>9, <2>1, <2>2 DEF IntlHook, Fault, caller
<1>10. CASE fr.i > fr.count
  BY <1>7, <1>10 DEF CallHooks, fr
<1>11. CASE ~(fr.i > fr.count) /\ fr.i > Len(hooks[fr.ev])
  BY <1>5, <1>11 DEF CallHooks, Fault, fr
<1>12. CASE ~(fr.i > fr.count) /\ ~(fr.i > Len(hooks[fr.ev]))
  <2>1. h \in OkHook(fr.ev)
    <3>1. fr.i \in 1..Len(hooks[fr.ev])
      BY <1>3, <1>4, <1>12
    <3>. QED
      BY <1>2, <3>1, ElementOfSeq DEF h
  <2>2. CmdHook(fr, h) \/ (h.type # "cmd" /\ IntlHook(fr, h))
    BY <1>12 DEF CallHooks, fr, h
  <2>. QED
    BY <1>8, <1>9, <2>1, <2>2
<1>. QED
  BY <1>10, <1>11, <1>12
(* Every step keeps the invariant.                                         *)
LEMMA SafeStep ==
  ASSUME SafeState, [Next]_vars
  PROVE  SafeState'
<1>1. Tables' /\ PlugsOk'
  BY TablesStep, PlugsStep DEF SafeState
<1>2. ASSUME UNCHANGED <<hooks, plugs, frames>> PROVE Hooked' /\ Calls'
  BY <1>2 DEF SafeState, Hooked, Calls, Fresh, LivePlugs
<1>3. ASSUME NEW b \in Bufs,
             BufNew(b) \/ BufDraw(b) \/ WinBdel(b) \/ (\E q \in BOOLEAN : WinClose(b, q))
             \/ \E p \in Plugs, kind \in {"fm", "img"} : PluginOpen(b, p, kind)
      PROVE  Hooked' /\ Calls'
  <2>1. CASE BufNew(b)
    BY <1>2, <2>1 DEF BufNew
  <2>2. CASE BufDraw(b) \/ WinBdel(b) \/ \E q \in BOOLEAN : WinClose(b, q)
    BY <2>2, CloseStep
  <2>3. CASE \E p \in Plugs, kind \in {"fm", "img"} : PluginOpen(b, p, kind)
    BY <2>3, OpenStep
  <2>. QED
    BY <1>3, <2>1, <2>2, <2>3
<1>4. ASSUME NEW g \in Groups, AugroupRemove(g) \/ \E a \in Augs : AugroupAdd(g, a)
      PROVE  Hooked' /\ Calls'
  BY <1>2, <1>4 DEF AugroupRemove, AugroupAdd
<1>5. ASSUME NEW ev \in CmdEvents, NEW a \in Augs \cup {NoAug},
             AutocmdRemove(a, ev) \/ \E id \in {Anyone} \cup DOMAIN ids.table : Autocmd(a, ev, id)
      PROVE  Hooked' /\ Calls'
  <2>1. {Anyone} \cup DOMAIN ids.table \subseteq Int
    BY DEF SafeState, Tables, IdsTyped, Anyone, MaxId
  <2>. QED
    BY <1>5, <2>1, AutocmdStep, AutocmdRemoveStep
<1>6. ASSUME NEW ev \in Events, NEW host \in LivePlugs \cup {NoPlug},
             NEW caller \in LivePlugs \cup {NoPlug}, SendHookMsg(ev, host, caller)
      PROVE  Hooked' /\ Calls'
  BY <1>6, SendStep
<1>7. ASSUME UNCHANGED vars PROVE Hooked' /\ Calls'
  <2>1. UNCHANGED <<hooks, plugs, frames>>
    BY <1>7 DEF vars
  <2>. QED
    BY <1>2, <2>1
<1>8. ASSUME Next PROVE Hooked' /\ Calls'
  BY <1>3, <1>4, <1>5, <1>6, <1>8, CallStep, ReturnStep, Zenon DEF Next
<1>9. Hooked' /\ Calls'
  BY <1>7, <1>8
<1>. QED
  BY <1>1, <1>9 DEF SafeState

LEMMA SafeInit == Init => SafeState
<1>. SUFFICES ASSUME Init PROVE SafeState
  OBVIOUS
<1>1. Tables
  BY TablesInit
<1>2. PlugsOk
  BY DEF Init, PlugsOk, PlugType, NoPlugin
<1>3. Calls
  BY EmptySeq DEF Init, Calls
<1>. DEFINE h == Hook(Anyone, "tmp", NoAug, Op, Op)
<1>4. h \in OkHook("execopen")
  BY DEF OkHook, Hook, HookType, AnyPlug, Anyone
<1>5. hooks = [ev \in Events |-> IF ev = "execopen" THEN << h >> ELSE <<>>]
  BY DEF Init
<1>. HIDE DEF h
<1>6. << h >> \in Seq(OkHook("execopen"))
  BY <1>4
<1>7. \A ev \in Events : hooks[ev] \in Seq(OkHook(ev))
  BY <1>5, <1>6, EmptySeq
<1>8. hooks = [ev \in Events |-> hooks[ev]]
  BY <1>5
<1>9. Hooked
  BY <1>7, <1>8, HookedBy DEF Hooked
<1>. QED
  BY <1>1, <1>2, <1>3, <1>9 DEF SafeState

-----------------------------------------------------------------------------
(* What it takes for a call to go wrong.                                   *)
LEMMA FaultStep ==
  ASSUME SafeState, DispatchFaults, [Next]_vars
  PROVE  DispatchFaults'
<1>1. CASE fault # "none"
  <2>1. UNCHANGED <<fault, frames>>
    BY <1>1 DEF Next, vars, Command, Ready, BufNew, BufDraw, WinBdel, WinClose, PluginOpen,
                AugroupRemove, AugroupAdd, AutocmdRemove, Autocmd, SendHookMsg, CallHooks, Return
  <2>. QED
    BY <2>1 DEF DispatchFaults
<1>2. CASE fault = "none" /\ ~CallHooks
  <2>1. fault' = "none"
    BY <1>2 DEF Next, vars, BufNew, BufDraw, WinBdel, WinClose, PluginOpen,
                AugroupRemove, AugroupAdd, AutocmdRemove, Autocmd, SendHookMsg, Return
  <2>. QED
    BY <2>1 DEF DispatchFaults
<1>3. CASE fault = "none" /\ CallHooks
  <2>. DEFINE fr == Head(frames)
              h == hooks[fr.ev][fr.i]
              caller == IF fr.caller # NoPlug THEN fr.caller ELSE h.caller
  <2>1. frames # <<>>
    BY <1>3 DEF CallHooks
  <2>2. /\ fr \in OkFrame /\ fr \in FrameType /\ Fresh(fr) /\ hooks[fr.ev] \in Seq(OkHook(fr.ev))
    BY <2>1, TopCall
  <2>3. fr.i \in Nat \ {0} /\ fr.count \in Nat /\ fr.ev \in Events /\ Len(hooks[fr.ev]) \in Nat
    BY <2>2, LenProperties DEF FrameType
  <2>4. fr.host \in Plugs \/ (fr.ev = "execopen" /\ fr.host = NoPlug)
    BY <2>2 DEF OkFrame
  <2>5. ~fr.touched => /\ fr.count <= Len(hooks[fr.ev])
                       /\ fr.host \in LivePlugs \cup {NoPlug} /\ fr.caller \in LivePlugs \cup {NoPlug}
    BY <2>2 DEF Fresh
  <2>6. ASSUME fault' = "none" PROVE DispatchFaults'
    BY <2>6 DEF DispatchFaults
  <2>7. ASSUME UNCHANGED frames,
               \/ fault' = "past_end" /\ fr.touched
               \/ fault' = "stale_host" /\ fr.touched
               \/ fault' = "no_host" /\ fr.ev = "execopen"
               \/ fault' = "stale_caller" /\ (fr.touched \/ fr.ev = FirstEvent)
        PROVE  DispatchFaults'
    BY <2>7 DEF DispatchFaults
  <2>. HIDE DEF fr, h, caller
  <2>8. ASSUME Fault("past_end"), ~(fr.i > fr.count), fr.i > Len(hooks[fr.ev]) PROVE DispatchFaults'
    BY <2>3, <2>5, <2>7, <2>8 DEF Fault
  <2>9. ASSUME CmdHook(fr, h) PROVE DispatchFaults'
    <3>1. CASE fr.host = NoPlug
      <4>1. fr.ev = "execopen"
        BY <2>4, <3>1, HooksAssumption
      <4>. QED
        BY <2>7, <2>9, <3>1, <4>1 DEF CmdHook, Fault
    <3>2. CASE fr.host # NoPlug /\ fr.host \notin LivePlugs
      <4>1. fr.touched
        BY <2>5, <3>2
      <4>. QED
        BY <2>7, <2>9, <3>2, <4>1 DEF CmdHook, Fault
    <3>3. CASE fr.host # NoPlug /\ fr.host \in LivePlugs
      BY <1>3, <2>6, <2>9, <3>3 DEF CmdHook
    <3>. QED
      BY <3>1, <3>2, <3>3
  <2>10. ASSUME IntlHook(fr, h), h \in OkHook(fr.ev), h.type # "cmd" PROVE DispatchFaults'
    <3>1. \/ h.type = "tmp" /\ h.caller = Op
          \/ h.type = "intl" /\ h.host \in Plugs /\ (fr.ev # FirstEvent => h.caller \in {NoPlug, h.host})
      BY <2>10 DEF OkHook, HookType
    <3>2. CASE ~(h.host # fr.host /\ h.type # "tmp") /\ h.type # "tmp" /\ fr.host \notin LivePlugs
      <4>1. fr.host \in Plugs /\ fr.host # NoPlug
        BY <3>1, <3>2, HooksAssumption
      <4>2. fr.touched
        BY <2>5, <3>2, <4>1
      <4>. QED
        BY <2>7, <2>10, <3>2, <4>2 DEF IntlHook, Fault
    <3>3. CASE /\ ~(h.host # fr.host /\ h.type # "tmp")
               /\ ~(h.type # "tmp" /\ fr.host \notin LivePlugs)
               /\ caller # NoPlug /\ caller \notin LivePlugs
      <4>1. Fault("stale_caller")
        BY <2>10, <3>3 DEF IntlHook, caller
      <4>2. Op \in LivePlugs
        BY DEF LivePlugs
      <4>3. fr.touched \/ fr.ev = FirstEvent
        <5>1. CASE fr.caller # NoPlug
          BY <2>5, <3>3, <5>1 DEF caller
        <5>2. CASE fr.caller = NoPlug
          <6>1. caller = h.caller
            BY <5>2 DEF caller
          <6>. QED
            BY <3>1, <3>3, <4>2, <6>1
        <5>. QED
          BY <5>1, <5>2
      <4>. QED
        BY <2>7, <4>1, <4>3 DEF Fault
    <3>4. CASE fault' = fault
      BY <1>3, <2>6, <3>4
    <3>. QED
      BY <2>10, <3>2, <3>3, <3>4 DEF IntlHook, caller
  <2>11. CASE fr.i > fr.count
    BY <1>3, <2>6, <2>11 DEF CallHooks, fr
  <2>12. CASE ~(fr.i > fr.count) /\ fr.i > Len(hooks[fr.ev])
    BY <1>3, <2>8, <2>12 DEF CallHooks, fr
  <2>13. CASE ~(fr.i > fr.count) /\ ~(fr.i > Len(hooks[fr.ev]))
    <3>1. h \in OkHook(fr.ev)
      <4>1. fr.i \in 1..Len(hooks[fr.ev])
        BY <2>3, <2>13
      <4>. QED
        BY <2>2, <4>1, ElementOfSeq DEF h
    <3>2. CmdHook(fr, h) \/ (h.type # "cmd" /\ IntlHook(fr, h))
      BY <1>3, <2>13 DEF CallHooks, fr, h
    <3>. QED
      BY <2>9, <2>10, <3>1, <3>2
  <2>. QED
    BY <2>11, <2>12, <2>13
<1>. QED
  BY <1>1, <1>2, <1>3

(* An array of hooks is read past its end and a freed plugin is called     *)
(* only if a hook of the same call removed hooks or closed a plugin.       *)
THEOREM DispatchCorrect == Spec => []DispatchFaults
<1>1. Init => SafeState /\ DispatchFaults
  BY SafeInit DEF Init, DispatchFaults
<1>2. SafeState /\ DispatchFaults /\ [Next]_vars => (SafeState /\ DispatchFaults)'
  BY SafeStep, FaultStep
<1>. QED
  BY <1>1, <1>2, PTL DEF Spec

-----------------------------------------------------------------------------
(* The named invariants of Hooks follow.                                   *)
Rest == /\ aug_tbl \in [Groups -> Augs \cup {NoAug}] /\ commands \in Nat
        /\ fault \in {"none", "past_end", "no_host", "stale_host", "stale_caller"}

LEMMA RestStep ==
  ASSUME Rest, [Next]_vars
  PROVE  Rest'
<1>1. CASE UNCHANGED aug_tbl /\ commands' \in {commands, commands + 1}
           /\ fault' \in {fault, "past_end", "no_host", "stale_host", "stale_caller"}
  BY <1>1 DEF Rest
<1>2. ASSUME NEW g \in Groups, AugroupRemove(g) \/ \E a \in Augs : AugroupAdd(g, a) PROVE Rest'
  BY <1>2 DEF Rest, AugroupRemove, AugroupAdd, Command
<1>. QED
  BY <1>1, <1>2
     DEF Next, vars, Command, BufNew, BufDraw, WinBdel, WinClose, PluginOpen, AutocmdRemove,
         Autocmd, SendHookMsg, CallHooks, CmdHook, IntlHook, Fault, Return

LEMMA SafeIsIInv == SafeState /\ DispatchFaults /\ Rest => IInv
<1>. SUFFICES ASSUME SafeState, DispatchFaults, Rest PROVE IInv
  OBVIOUS
<1>1. frames \in Seq(FrameType)
  <2>1. frames \in Seq(OkFrame) /\ OkFrame \subseteq FrameType
    BY DEF SafeState, Calls, OkFrame
  <2>. QED
    BY <2>1, SeqMonotonic
<1>2. TypeOK
  BY <1>1 DEF SafeState, Rest, Tables, IdsTyped, Hooked, PlugsOk, BufType, PlugType, TypeOK
<1>3. IdsPartition /\ IdsMatch
  BY DEF SafeState, Tables, PlugsOk, IdsMatch
<1>4. HooksMatch
  <2>1. ASSUME NEW ev \in Events, NEW k \in DOMAIN hooks[ev] PROVE hooks[ev][k] \in OkHook(ev)
    BY ElementOfSeq, LenProperties DEF SafeState, Hooked
  <2>. QED
    BY <2>1 DEF HooksMatch, OkHook
<1>5. CallsMatch
  <2>1. ASSUME NEW k \in DOMAIN frames PROVE frames[k] \in OkFrame /\ Fresh(frames[k])
    BY ElementOfSeq, LenProperties DEF SafeState, Calls
  <2>. QED
    BY <2>1 DEF CallsMatch, OkFrame, Fresh
<1>. QED
  BY <1>2, <1>3, <1>4, <1>5 DEF IInv

(* The invariant the other theorems rest on: what hook_add_intl and        *)
(* hook_add may have put into each array, and what a call of call_hooks    *)
(* that nothing disturbed knows of its array, its host and its caller.     *)
THEOREM InvariantCorrect == Spec => []IInv
<1>1. Init => SafeState /\ DispatchFaults /\ Rest
  BY SafeInit DEF Init, DispatchFaults, Rest
<1>2. SafeState /\ DispatchFaults /\ Rest /\ [Next]_vars => (SafeState /\ DispatchFaults /\ Rest)'
  BY SafeStep, FaultStep, RestStep
<1>. QED
  BY <1>1, <1>2, SafeIsIInv, PTL DEF Spec

(* The arrays of hooks, the table and the pool of ids, buffers, plugins    *)
(* and the calls of call_hooks that run keep the types of their structs.   *)
THEOREM TypeCorrect == Spec => []TypeOK
BY InvariantCorrect, PTL DEF IInv
=============================================================================

---------------------------- MODULE FsWatchProofs ----------------------------
(* The inductive invariant of FsWatch and what follows from it, for any    *)
(* numbers of windows, menus, directories, entries and seconds: one        *)
(* request at a time, entries and listeners that agree, listings that are  *)
(* whole, and watches that are never lost.                                 *)
EXTENDS FsWatch, FiniteSetTheorems, SequenceTheorems, TLAPS

-----------------------------------------------------------------------------
(* The signals of an entry and the commits of a directory in a queue.      *)
Sig(q, e) == {i \in DOMAIN q : q[i].kind = "fs_signal_handle" /\ q[i].of = e}
Com(q, d) == {i \in DOMAIN q : q[i].kind = "commit" /\ q[i].dir = d}

(* What the queue q holds for an entry x at e.                             *)
SigOK(x, q, e) ==
  /\ x.st = "none" => Sig(q, e) = {}
  /\ x.st = "live" =>
       /\ x.running <=> x.req # "none" \/ Sig(q, e) # {}
       /\ x.req # "none" => Sig(q, e) = {}
       /\ \A i, j \in Sig(q, e) : i = j
       /\ ~x.running => Com(q, x.dir) = {}
       /\ \A j \in Sig(q, e), i \in Com(q, x.dir) : i < j

LEMMA QueueAppend ==
  ASSUME NEW q \in Seq(EventType), NEW v \in EventType
  PROVE  /\ Append(q, v) \in Seq(EventType)
         /\ Len(q) + 1 \in DOMAIN Append(q, v) /\ Append(q, v)[Len(q) + 1] = v
         /\ DOMAIN Append(q, v) = DOMAIN q \cup {Len(q) + 1}
         /\ \A i \in DOMAIN q : i \in Nat /\ i < Len(q) + 1 /\ Append(q, v)[i] = q[i]
<1>1. Len(q) \in Nat /\ DOMAIN q = 1..Len(q)
  BY LenProperties
<1>2. /\ Append(q, v) \in Seq(EventType) /\ Len(Append(q, v)) = Len(q) + 1
      /\ \A i \in 1..Len(q) : Append(q, v)[i] = q[i]
      /\ Append(q, v)[Len(q) + 1] = v
  BY AppendProperties
<1>3. DOMAIN Append(q, v) = 1..Len(q)+1
  BY <1>2, LenProperties
<1>. QED
  BY <1>1, <1>2, <1>3

LEMMA SigAppend ==
  ASSUME NEW q \in Seq(EventType), NEW v \in EventType, NEW e, NEW d
  PROVE  /\ Sig(Append(q, v), e) = IF v.kind = "fs_signal_handle" /\ v.of = e
                                   THEN Sig(q, e) \cup {Len(q) + 1} ELSE Sig(q, e)
         /\ Com(Append(q, v), d) = IF v.kind = "commit" /\ v.dir = d
                                   THEN Com(q, d) \cup {Len(q) + 1} ELSE Com(q, d)
         /\ \A i \in Com(q, d) : i < Len(q) + 1
BY QueueAppend DEF Sig, Com

LEMMA QueueTail ==
  ASSUME NEW q \in Seq(EventType), q # <<>>
  PROVE  /\ Tail(q) \in Seq(EventType) /\ Head(q) \in EventType
         /\ 1 \in DOMAIN q /\ Head(q) = q[1]
         /\ \A i \in DOMAIN Tail(q) : i + 1 \in DOMAIN q /\ i + 1 # 1 /\ Tail(q)[i] = q[i + 1]
         /\ \A i \in DOMAIN q : i \in Nat /\ i >= 1
                                /\ (i = 1 \/ (i - 1 \in DOMAIN Tail(q) /\ Tail(q)[i - 1] = q[i]))
         /\ \A i \in DOMAIN Tail(q) : i \in Nat
<1>1. /\ Len(q) \in Nat \ {0} /\ DOMAIN q = 1..Len(q)
      /\ Tail(q) \in Seq(EventType) /\ Len(Tail(q)) = Len(q) - 1
      /\ Head(q) \in EventType /\ Head(q) = q[1]
      /\ \A i \in 1..Len(Tail(q)) : Tail(q)[i] = q[i+1]
  BY EmptySeq, LenProperties, HeadTailProperties
<1>2. DOMAIN Tail(q) = 1..Len(q)-1
  BY <1>1, LenProperties
<1>. QED
  BY <1>1, <1>2

LEMMA SigTail ==
  ASSUME NEW q \in Seq(EventType), q # <<>>, NEW e, NEW d
  PROVE  /\ \A i \in Sig(Tail(q), e) : i \in Nat /\ i + 1 \in Sig(q, e) /\ i + 1 # 1
         /\ \A i \in Com(Tail(q), d) : i \in Nat /\ i + 1 \in Com(q, d) /\ i + 1 # 1
         /\ \A i \in Sig(q, e) : i \in Nat /\ i >= 1 /\ (i = 1 \/ i - 1 \in Sig(Tail(q), e))
         /\ \A i \in Com(q, d) : i \in Nat /\ i >= 1 /\ (i = 1 \/ i - 1 \in Com(Tail(q), d))
         /\ 1 \in Sig(q, e) <=> Head(q).kind = "fs_signal_handle" /\ Head(q).of = e
         /\ 1 \in Com(q, d) <=> Head(q).kind = "commit" /\ Head(q).dir = d
BY QueueTail DEF Sig, Com

-----------------------------------------------------------------------------
(* An event about something else, or a commit while the entry works, is    *)
(* put.                                                                    *)
LEMMA PutOther ==
  ASSUME NEW q \in Seq(EventType), NEW v \in EventType, NEW e, NEW x \in EntType, SigOK(x, q, e),
         ~(v.kind = "fs_signal_handle" /\ v.of = e),
         v.kind = "commit" /\ x.st = "live" /\ x.dir = v.dir => x.req # "none"
  PROVE  SigOK(x, Append(q, v), e)
<1>1. Sig(Append(q, v), e) = Sig(q, e)
  BY SigAppend
<1>2. CASE v.kind = "commit" /\ x.st = "live" /\ x.dir = v.dir
  <2>1. x.req # "none" /\ Sig(q, e) = {} /\ x.running
    BY <1>2 DEF SigOK
  <2>. QED
    BY <1>1, <1>2, <2>1 DEF SigOK
<1>3. CASE ~(v.kind = "commit" /\ x.st = "live" /\ x.dir = v.dir)
  <2>1. x.st = "live" => Com(Append(q, v), x.dir) = Com(q, x.dir)
    BY <1>3, SigAppend
  <2>. QED
    BY <1>1, <2>1 DEF SigOK
<1>. QED
  BY <1>2, <1>3

(* The request is done and its signal is put.                              *)
LEMMA PutSignal ==
  ASSUME NEW q \in Seq(EventType), NEW v \in EventType, NEW e, NEW x \in EntType, NEW y \in EntType,
         SigOK(x, q, e), x.st = "live", x.req # "none",
         v.kind = "fs_signal_handle", v.of = e,
         y.st = "live", y.dir = x.dir, y.running <=> x.running, y.req = "none"
  PROVE  SigOK(y, Append(q, v), e)
<1>1. x.running /\ Sig(q, e) = {}
  BY DEF SigOK
<1>2. Sig(Append(q, v), e) = {Len(q) + 1}
  BY <1>1, SigAppend
<1>3. Com(Append(q, v), y.dir) = Com(q, y.dir) /\ \A i \in Com(q, y.dir) : i < Len(q) + 1
  BY SigAppend
<1>. QED
  BY <1>1, <1>2, <1>3 DEF SigOK

(* An event about something else is popped.                                *)
LEMMA PopOther ==
  ASSUME NEW q \in Seq(EventType), q # <<>>, NEW e, NEW x \in EntType, SigOK(x, q, e),
         ~(Head(q).kind = "fs_signal_handle" /\ Head(q).of = e)
  PROVE  SigOK(x, Tail(q), e)
<1>1. Sig(Tail(q), e) = {} <=> Sig(q, e) = {}
  <2>1. 1 \notin Sig(q, e)
    BY SigTail
  <2>2. \A i \in Sig(q, e) : i - 1 \in Sig(Tail(q), e)
    BY <2>1, SigTail
  <2>3. \A i \in Sig(Tail(q), e) : i + 1 \in Sig(q, e)
    BY SigTail
  <2>. QED
    BY <2>2, <2>3
<1>2. CASE x.st = "none"
  BY <1>1, <1>2 DEF SigOK
<1>3. CASE x.st = "live"
  <2>. DEFINE d == x.dir
  <2>1. /\ \A i \in Sig(Tail(q), e) : i \in Nat /\ i + 1 \in Sig(q, e)
        /\ \A i \in Com(Tail(q), d) : i \in Nat /\ i + 1 \in Com(q, d)
    BY SigTail
  <2>2. Com(q, d) = {} => Com(Tail(q), d) = {}
    BY <2>1
  <2>3. /\ \A i, j \in Sig(q, e) : i = j
        /\ \A j \in Sig(q, e), i \in Com(q, d) : i < j
    BY <1>3 DEF SigOK
  <2>4. ASSUME NEW i \in Sig(Tail(q), e), NEW j \in Sig(Tail(q), e) PROVE i = j
    <3>1. i + 1 = j + 1 /\ i \in Nat /\ j \in Nat
      BY <2>1, <2>3
    <3>. QED
      BY <3>1
  <2>5. ASSUME NEW j \in Sig(Tail(q), e), NEW i \in Com(Tail(q), d) PROVE i < j
    <3>1. i + 1 < j + 1 /\ i \in Nat /\ j \in Nat
      BY <2>1, <2>3
    <3>. QED
      BY <3>1
  <2>. QED
    BY <1>1, <1>3, <2>2, <2>4, <2>5 DEF SigOK
<1>4. CASE x.st \notin {"none", "live"}
  BY <1>4 DEF SigOK
<1>. QED
  BY <1>2, <1>3, <1>4

(* The signal of the entry itself is popped: it was the only one, and the  *)
(* commits are done.                                                       *)
LEMMA PopSignal ==
  ASSUME NEW q \in Seq(EventType), q # <<>>, NEW e, NEW x \in EntType, SigOK(x, q, e),
         Head(q).kind = "fs_signal_handle", Head(q).of = e, x.st = "live"
  PROVE  /\ x.req = "none" /\ Sig(Tail(q), e) = {}
         /\ Com(q, x.dir) = {} /\ Com(Tail(q), x.dir) = {}
<1>. DEFINE d == x.dir
<1>1. 1 \in Sig(q, e)
  BY SigTail
<1>2. /\ \A i \in Sig(Tail(q), e) : i \in Nat /\ i + 1 \in Sig(q, e) /\ i + 1 # 1
      /\ \A i \in Com(Tail(q), d) : i \in Nat /\ i + 1 \in Com(q, d)
      /\ \A i \in Com(q, d) : i \in Nat /\ i >= 1
  BY SigTail
<1>3. /\ x.req = "none" /\ \A i, j \in Sig(q, e) : i = j
      /\ \A j \in Sig(q, e), i \in Com(q, d) : i < j
  BY <1>1 DEF SigOK
<1>4. Sig(Tail(q), e) = {}
  BY <1>1, <1>2, <1>3
<1>5. \A i \in Com(q, d) : i < 1
  BY <1>1, <1>3
<1>6. Com(q, d) = {}
  BY <1>2, <1>5
<1>7. Com(Tail(q), d) = {}
  BY <1>2, <1>6
<1>. QED
  BY <1>3, <1>4, <1>6, <1>7

(* A request is started, for an entry at rest or one newly made.           *)
LEMMA Started ==
  ASSUME NEW q, NEW e, NEW x \in EntType, NEW y \in EntType, SigOK(x, q, e),
         x.st = "none" \/ (x.st = "live" /\ ~x.running),
         y.st = "live", y.running, y.req = "stat"
  PROVE  SigOK(y, q, e)
<1>1. Sig(q, e) = {}
  BY DEF SigOK
<1>. QED
  BY <1>1 DEF SigOK

(* The entry changes in what does not matter here.                         *)
LEMMA SameEnt ==
  ASSUME NEW q, NEW e, NEW x \in EntType, NEW y \in EntType, SigOK(x, q, e),
         y.st = x.st, y.dir = x.dir, y.running <=> x.running,
         y.req = "none" <=> x.req = "none"
  PROVE  SigOK(y, q, e)
BY DEF SigOK
-----------------------------------------------------------------------------
(* Entries.                                                                *)
EntsTyped(E) == E \in [Ents -> EntType] /\ \A e \in Ents : E[e].st = "live" \/ Resting(E[e])

FsType == [ent : {None} \cup Ents, running : BOOLEAN, stat : BOOLEAN, dir : Dirs, freed : BOOLEAN]

(* ListenersMatch, of any entries and any nv_fs objects.                   *)
Listened(E, F) ==
  /\ \A e, x \in Ents : E[e].st = "live" /\ E[x].st = "live" /\ E[e].dir = E[x].dir => e = x
  /\ \A e \in Ents : E[e].st = "live" => E[e].lis # {}
  /\ \A e \in Ents, f \in Fss : E[e].st = "live" => (f \in E[e].lis <=> F[f].ent = e)
  /\ \A f \in Fss : F[f].ent # None => F[f].ent \in Ents /\ E[F[f].ent].st = "live"

LEMMA NoEntTyped == NoEnt \in EntType /\ NoEnt.dir \in Dirs
<1>1. (CHOOSE d \in Dirs : TRUE) \in Dirs
  BY FsAssumption
<1>2. 0 \in Times
  BY FsAssumption DEF Times
<1>. DEFINE dd == CHOOSE d \in Dirs : TRUE
<1>3. NoEnt = [st |-> "none", dir |-> dd, running |-> FALSE,
          flush |-> FALSE, cancel |-> FALSE, reopen |-> FALSE, req |-> "none", ctime |-> 0, seen |-> 0,
          watch |-> FALSE, notified |-> FALSE, timer |-> FALSE, lis |-> {}]
  BY DEF NoEnt
<1>4. dd \in Dirs
  BY <1>1
<1>. HIDE DEF dd
<1>. QED
  BY <1>2, <1>3, <1>4 DEF EntType

LEMMA RestingFacts ==
  ASSUME NEW x, Resting(x)
  PROVE  /\ x.running = FALSE /\ x.req = "none" /\ x.lis = {} /\ x.watch = FALSE
         /\ x.timer = FALSE /\ x.notified = FALSE /\ x.flush = FALSE /\ x.reopen = FALSE
<1>. DEFINE st == x.st d == x.dir c == x.cancel
<1>1. x = [NoEnt EXCEPT !.st = st, !.dir = d, !.cancel = c]
  BY DEF Resting
<1>. HIDE DEF st, d, c
<1>. QED
  BY <1>1 DEF NoEnt

LEMMA RestingAt ==
  ASSUME NEW st \in {"none", "closing", "freed"}, NEW d \in Dirs, NEW c \in BOOLEAN
  PROVE  LET y == [NoEnt EXCEPT !.st = st, !.dir = d, !.cancel = c]
         IN  y \in EntType /\ Resting(y) /\ y.st = st /\ y.dir = d /\ y.cancel = c
<1>. DEFINE y == [NoEnt EXCEPT !.st = st, !.dir = d, !.cancel = c]
<1>1. NoEnt \in EntType
  BY NoEntTyped
<1>2. y \in EntType /\ y.st = st /\ y.dir = d /\ y.cancel = c
  BY <1>1 DEF EntType
<1>3. y = [NoEnt EXCEPT !.st = y.st, !.dir = y.dir, !.cancel = y.cancel]
  BY <1>2
<1>. QED
  BY <1>2, <1>3 DEF Resting

(* fs_demux: the listeners leave, and an entry without any is closed.      *)
LEMMA DemuxFacts ==
  ASSUME NEW E, EntsTyped(E), NEW e \in Ents, E[e].st = "live", NEW S, S # {}
  PROVE  LET E2 == Demux(E, S, e) IN
         /\ EntsTyped(E2)
         /\ \A x \in Ents \ {e} : E2[x] = E[x]
         /\ E2[e].dir = E[e].dir /\ (E2[e].cancel <=> E[e].cancel)
         /\ \/ E2[e].st = "closing" /\ E[e].lis \ S = {}
            \/ E2[e] = [E[e] EXCEPT !.lis = E[e].lis \ S] /\ E[e].lis \ S # {}
<1>. DEFINE r == [E[e] EXCEPT !.lis = E[e].lis \ S]
            E1 == [E EXCEPT ![e].lis = @ \ S]
            c == [NoEnt EXCEPT !.st = "closing", !.dir = E[e].dir, !.cancel = E[e].cancel]
<1>1. E \in [Ents -> EntType] /\ E[e] \in EntType /\ e # None
  BY DEF EntsTyped, Ents, None
<1>2. E1 = [E EXCEPT ![e] = r]
  BY <1>1
<1>3. r \in EntType /\ r.lis = E[e].lis \ S /\ r.st = "live" /\ r.dir = E[e].dir /\ (r.cancel <=> E[e].cancel)
  BY <1>1 DEF EntType
<1>4. E[e].dir \in Dirs /\ E[e].cancel \in BOOLEAN
  BY <1>1 DEF EntType
<1>5. c \in EntType /\ Resting(c) /\ c.st = "closing" /\ c.dir = E[e].dir /\ c.cancel = E[e].cancel
  <2>1. \A d \in Dirs, k \in BOOLEAN : LET y == [NoEnt EXCEPT !.st = "closing", !.dir = d, !.cancel = k]
          IN  y \in EntType /\ Resting(y) /\ y.st = "closing" /\ y.dir = d /\ y.cancel = k
    BY RestingAt
  <2>. QED
    BY <1>4, <2>1, Zenon
<1>6. Demux(E, S, e) = IF E1[e].lis = {} THEN [E1 EXCEPT ![e] = c] ELSE E1
  BY <1>1 DEF Demux, Unused
<1>. HIDE DEF r, c, E1
<1>7. E1 \in [Ents -> EntType] /\ E1[e] = r /\ \A x \in Ents \ {e} : E1[x] = E[x]
  BY <1>1, <1>2, <1>3
<1>8. CASE E[e].lis \ S = {}
  <2>1. Demux(E, S, e) = [E1 EXCEPT ![e] = c]
    BY <1>3, <1>6, <1>7, <1>8
  <2>. QED
    BY <1>1, <1>5, <1>7, <1>8, <2>1 DEF EntsTyped
<1>9. CASE E[e].lis \ S # {}
  <2>1. Demux(E, S, e) = E1
    BY <1>3, <1>6, <1>7, <1>9
  <2>. QED
    BY <1>1, <1>3, <1>7, <1>9, <2>1 DEF EntsTyped, r
<1>. QED
  BY <1>8, <1>9

(* It keeps entries and listeners in agreement.                            *)
LEMMA DemuxListened ==
  ASSUME NEW E, EntsTyped(E), NEW F, NEW G, Listened(E, F), NEW e \in Ents, E[e].st = "live",
         NEW S, S # {}, S \subseteq E[e].lis,
         \A f \in Fss : G[f].ent = IF f \in S THEN None ELSE F[f].ent
  PROVE  Listened(Demux(E, S, e), G)
<1>. DEFINE E2 == Demux(E, S, e)
<1>1. /\ \A x \in Ents \ {e} : E2[x] = E[x]
      /\ E2[e].dir = E[e].dir
      /\ \/ E2[e].st = "closing" /\ E[e].lis \ S = {}
         \/ E2[e] = [E[e] EXCEPT !.lis = E[e].lis \ S] /\ E[e].lis \ S # {}
  BY DemuxFacts
<1>2. E[e] \in EntType /\ None \notin Ents /\ E[e].lis \subseteq Fss
  BY DEF EntsTyped, EntType, Ents, None
<1>3. \/ E2[e].st = "closing" /\ E[e].lis \ S = {}
      \/ E2[e].st = "live" /\ E2[e].lis = E[e].lis \ S /\ E[e].lis \ S # {}
  BY <1>1, <1>2 DEF EntType
<1>. HIDE DEF E2
<1>4. \A f \in S : F[f].ent = e
  BY <1>2 DEF Listened
<1>5. \A x, z \in Ents : E2[x].st = "live" /\ E2[z].st = "live" /\ E2[x].dir = E2[z].dir => x = z
  <2>1. \A x \in Ents : E2[x].dir = E[x].dir /\ (E2[x].st = "live" => E[x].st = "live")
    BY <1>1, <1>3
  <2>. QED
    BY <2>1 DEF Listened
<1>6. \A x \in Ents : E2[x].st = "live" => E2[x].lis # {}
  BY <1>1, <1>3 DEF Listened
<1>7. ASSUME NEW x \in Ents, NEW f \in Fss, E2[x].st = "live"
      PROVE  f \in E2[x].lis <=> G[f].ent = x
  <2>1. CASE x = e
    BY <1>2, <1>3, <1>7, <2>1 DEF Listened
  <2>2. CASE x # e
    BY <1>1, <1>2, <1>4, <1>7, <2>2 DEF Listened
  <2>. QED
    BY <2>1, <2>2
<1>8. ASSUME NEW f \in Fss, G[f].ent # None PROVE G[f].ent \in Ents /\ E2[G[f].ent].st = "live"
  <2>1. f \notin S /\ G[f].ent = F[f].ent /\ F[f].ent \in Ents /\ E[F[f].ent].st = "live"
    BY <1>8 DEF Listened
  <2>2. CASE F[f].ent = e
    <3>1. f \in E[e].lis \ S
      BY <2>1, <2>2 DEF Listened
    <3>. QED
      BY <1>3, <2>1, <2>2, <3>1
  <2>3. CASE F[f].ent # e
    BY <1>1, <2>1, <2>3
  <2>. QED
    BY <2>2, <2>3
<1>9. Listened(E2, G)
  BY <1>5, <1>6, <1>7, <1>8 DEF Listened
<1>. QED
  BY <1>9 DEF E2
(* fs_open's and fs_reopen's start of a stat.                              *)
LEMMA StatStartedFacts ==
  ASSUME NEW E, EntsTyped(E), NEW e \in Ents, E[e].st = "live"
  PROVE  LET E2 == StatStarted(E, e) IN
         /\ EntsTyped(E2)
         /\ \A x \in Ents \ {e} : E2[x] = E[x]
         /\ E2[e].st = "live" /\ E2[e].dir = E[e].dir /\ (E2[e].cancel <=> E[e].cancel)
         /\ E2[e].lis = E[e].lis /\ E2[e].running /\ E2[e].req = "stat"
         /\ E2[e].watch <=> (E[e].watch \/ disk[E[e].dir] # 0)
<1>. DEFINE w == E[e].watch \/ disk[E[e].dir] # 0
            r == [E[e] EXCEPT !.running = TRUE, !.req = "stat", !.watch = w]
<1>1. E \in [Ents -> EntType] /\ E[e] \in EntType
  BY DEF EntsTyped
<1>2. StatStarted(E, e) = [E EXCEPT ![e] = r]
  BY <1>1 DEF StatStarted
<1>3. w \in BOOLEAN
  OBVIOUS
<1>. HIDE DEF w
<1>4. /\ r \in EntType /\ r.st = "live" /\ r.dir = E[e].dir /\ (r.cancel <=> E[e].cancel)
      /\ r.lis = E[e].lis /\ r.running /\ r.req = "stat" /\ (r.watch <=> w)
  BY <1>1, <1>3 DEF EntType
<1>. HIDE DEF r
<1>5. /\ EntsTyped(StatStarted(E, e)) /\ \A x \in Ents \ {e} : StatStarted(E, e)[x] = E[x]
      /\ StatStarted(E, e)[e] = r
  BY <1>1, <1>2, <1>4 DEF EntsTyped
<1>. QED
  BY <1>4, <1>5 DEF w

LEMMA ReopenFacts ==
  ASSUME NEW E, EntsTyped(E), NEW e \in Ents, E[e].st = "live"
  PROVE  LET E2 == Reopen(E, e) IN
         /\ EntsTyped(E2)
         /\ \A x \in Ents \ {e} : E2[x] = E[x]
         /\ E2[e].st = "live" /\ E2[e].dir = E[e].dir /\ (E2[e].cancel <=> E[e].cancel)
         /\ E2[e].lis = E[e].lis /\ E2[e].running /\ E2[e].req = "stat"
         /\ E2[e].watch <=> disk[E[e].dir] # 0
<1>. DEFINE r == [E[e] EXCEPT !.timer = FALSE, !.watch = FALSE, !.notified = FALSE, !.reopen = TRUE]
            E1 == [E EXCEPT ![e] = r]
<1>1. E \in [Ents -> EntType] /\ E[e] \in EntType
  BY DEF EntsTyped
<1>2. Reopen(E, e) = StatStarted(E1, e)
  <2>1. [E EXCEPT ![e].timer = FALSE, ![e].watch = FALSE,
                  ![e].notified = FALSE, ![e].reopen = TRUE] = E1
    BY <1>1
  <2>. QED
    BY <2>1 DEF Reopen
<1>3. /\ r \in EntType /\ r.st = "live" /\ r.dir = E[e].dir /\ (r.cancel <=> E[e].cancel)
      /\ r.lis = E[e].lis /\ r.watch = FALSE
  BY <1>1 DEF EntType
<1>. HIDE DEF r
<1>4. EntsTyped(E1) /\ E1[e] = r /\ \A x \in Ents \ {e} : E1[x] = E[x]
  BY <1>1, <1>3 DEF EntsTyped
<1>. HIDE DEF E1
<1>5. LET E2 == StatStarted(E1, e) IN
      /\ EntsTyped(E2)
      /\ \A x \in Ents \ {e} : E2[x] = E1[x]
      /\ E2[e].st = "live" /\ E2[e].dir = E1[e].dir /\ (E2[e].cancel <=> E1[e].cancel)
      /\ E2[e].lis = E1[e].lis /\ E2[e].running /\ E2[e].req = "stat"
      /\ E2[e].watch <=> (E1[e].watch \/ disk[E1[e].dir] # 0)
  BY <1>3, <1>4, StatStartedFacts
<1>. QED
  BY <1>2, <1>3, <1>4, <1>5

(* fs_mux and fs_open: the entry of the directory, or a new one, with a    *)
(* request on its way.                                                     *)
LEMMA OpenFacts ==
  ASSUME NEW E, EntsTyped(E), NEW f \in Fss, NEW d \in Dirs, MayOpen(E, d)
  PROVE  LET E2 == Open(E, f, d)
             e  == MuxEnt(E, d) IN
         /\ EntsTyped(E2) /\ e \in Ents
         /\ \/ E[e].st = "live" /\ E[e].dir = d
            \/ E[e].st = "none" /\ \A x \in Ents : ~(E[x].st = "live" /\ E[x].dir = d)
         /\ \A x \in Ents \ {e} : E2[x] = E[x]
         /\ E2[e].st = "live" /\ E2[e].dir = d /\ (E2[e].cancel <=> E[e].cancel)
         /\ E2[e].lis = E[e].lis \cup {f}
         /\ \/ /\ E[e].running /\ E2[e].running /\ E2[e].req = E[e].req
               /\ E2[e].ctime = E[e].ctime
               /\ (E2[e].watch <=> E[e].watch) /\ (E2[e].timer <=> E[e].timer)
            \/ /\ ~E[e].running /\ E2[e].running /\ E2[e].req = "stat"
               /\ E2[e].watch <=> (E[e].watch \/ disk[d] # 0)
<1>. DEFINE e == MuxEnt(E, d)
            r == [E[e] EXCEPT !.st = "live", !.dir = d, !.lis = E[e].lis \cup {f}]
            E1 == [E EXCEPT ![e] = r]
            C == IF Of(E, d) # {} THEN Of(E, d) ELSE Unmade(E)
<1>1. e \in C
  <2>1. C # {}
    BY DEF MayOpen
  <2>2. e = CHOOSE x \in C : TRUE
    BY DEF MuxEnt
  <2>. HIDE DEF C, e
  <2>. QED
    BY <2>1, <2>2
<1>2. /\ e \in Ents
      /\ \/ E[e].st = "live" /\ E[e].dir = d
         \/ E[e].st = "none" /\ \A x \in Ents : ~(E[x].st = "live" /\ E[x].dir = d)
  <2>. HIDE DEF e
  <2>. QED
    BY <1>1 DEF Of, Unmade
<1>3. Open(E, f, d) = IF ~E1[e].running THEN StatStarted(E1, e) ELSE E1
  <2>1. E \in [Ents -> EntType] /\ E[e] \in EntType
    BY <1>2 DEF EntsTyped
  <2>2. Mux(E, f, d) = [E EXCEPT ![e].st = "live", ![e].dir = d, ![e].lis = @ \cup {f}]
    BY DEF Mux
  <2>. HIDE DEF e
  <2>3. [E EXCEPT ![e].st = "live", ![e].dir = d, ![e].lis = @ \cup {f}] = E1
    BY <1>2, <2>1
  <2>. HIDE DEF E1
  <2>4. Open(E, f, d) = LET EE == Mux(E, f, d) ee == MuxEnt(E, d)
                        IN  IF ~EE[ee].running THEN StatStarted(EE, ee) ELSE EE
    BY DEF Open, Opens
  <2>. QED
    BY <2>2, <2>3, <2>4 DEF e
<1>. HIDE DEF e
<1>4. E \in [Ents -> EntType] /\ E[e] \in EntType
  BY <1>2 DEF EntsTyped
<1>5. /\ r \in EntType /\ r.st = "live" /\ r.dir = d /\ (r.cancel <=> E[e].cancel)
      /\ r.lis = E[e].lis \cup {f} /\ (r.running <=> E[e].running) /\ r.req = E[e].req
      /\ r.ctime = E[e].ctime /\ (r.watch <=> E[e].watch) /\ (r.timer <=> E[e].timer)
  BY <1>4 DEF EntType
<1>. HIDE DEF r
<1>6. EntsTyped(E1) /\ E1[e] = r /\ \A x \in Ents \ {e} : E1[x] = E[x]
  BY <1>2, <1>4, <1>5 DEF EntsTyped
<1>. HIDE DEF E1
<1>7. LET E2 == StatStarted(E1, e) IN
      /\ EntsTyped(E2)
      /\ \A x \in Ents \ {e} : E2[x] = E1[x]
      /\ E2[e].st = "live" /\ E2[e].dir = E1[e].dir /\ (E2[e].cancel <=> E1[e].cancel)
      /\ E2[e].lis = E1[e].lis /\ E2[e].running /\ E2[e].req = "stat"
      /\ E2[e].watch <=> (E1[e].watch \/ disk[E1[e].dir] # 0)
  BY <1>2, <1>5, <1>6, StatStartedFacts
<1>. DEFINE E2 == Open(E, f, d)
<1>8. CASE E[e].running
  <2>1. E2 = E1
    BY <1>3, <1>5, <1>6, <1>8
  <2>. HIDE DEF E2
  <2>2. /\ EntsTyped(E2) /\ e \in Ents
        /\ \A x \in Ents \ {e} : E2[x] = E[x]
        /\ E2[e].st = "live" /\ E2[e].dir = d /\ (E2[e].cancel <=> E[e].cancel)
        /\ E2[e].lis = E[e].lis \cup {f}
        /\ E[e].running /\ E2[e].running /\ E2[e].req = E[e].req /\ E2[e].ctime = E[e].ctime
        /\ (E2[e].watch <=> E[e].watch) /\ (E2[e].timer <=> E[e].timer)
    BY <1>2, <1>5, <1>6, <1>8, <2>1
  <2>. QED
    BY <1>2, <2>2 DEF E2, e
<1>9. CASE ~E[e].running
  <2>1. E2 = StatStarted(E1, e)
    BY <1>3, <1>5, <1>6, <1>9
  <2>. HIDE DEF E2
  <2>2. /\ EntsTyped(E2) /\ e \in Ents
        /\ \A x \in Ents \ {e} : E2[x] = E[x]
        /\ E2[e].st = "live" /\ E2[e].dir = d /\ (E2[e].cancel <=> E[e].cancel)
        /\ E2[e].lis = E[e].lis \cup {f}
        /\ ~E[e].running /\ E2[e].running /\ E2[e].req = "stat"
        /\ E2[e].watch <=> (E[e].watch \/ disk[d] # 0)
    BY <1>2, <1>5, <1>6, <1>7, <1>9, <2>1
  <2>. QED
    BY <1>2, <2>2 DEF E2, e
<1>. QED
  BY <1>8, <1>9

(* It keeps entries and listeners in agreement.                            *)
LEMMA OpenListened ==
  ASSUME NEW E, EntsTyped(E), NEW F, NEW G, Listened(E, F), NEW f \in Fss, F[f].ent = None,
         NEW d \in Dirs, MayOpen(E, d),
         G[f].ent = MuxEnt(E, d), \A h \in Fss \ {f} : G[h].ent = F[h].ent
  PROVE  Listened(Open(E, f, d), G)
<1>. DEFINE E2 == Open(E, f, d) e == MuxEnt(E, d)
<1>1. /\ e \in Ents
      /\ \/ E[e].st = "live" /\ E[e].dir = d
         \/ E[e].st = "none" /\ \A x \in Ents : ~(E[x].st = "live" /\ E[x].dir = d)
      /\ \A x \in Ents \ {e} : E2[x] = E[x]
      /\ E2[e].st = "live" /\ E2[e].dir = d /\ E2[e].lis = E[e].lis \cup {f}
  BY OpenFacts
<1>. HIDE DEF E2, e
<1>2. E[e].st = "none" => E[e].lis = {}
  BY <1>1, RestingFacts DEF EntsTyped
<1>3. None \notin Ents
  BY DEF None, Ents
<1>4. \A x, z \in Ents : E2[x].st = "live" /\ E2[z].st = "live" /\ E2[x].dir = E2[z].dir => x = z
  BY <1>1 DEF Listened
<1>5. \A x \in Ents : E2[x].st = "live" => E2[x].lis # {}
  BY <1>1 DEF Listened
<1>6. G[f].ent = e
  BY DEF e
<1>7. ASSUME NEW x \in Ents, NEW h \in Fss, E2[x].st = "live"
      PROVE  h \in E2[x].lis <=> G[h].ent = x
  <2>1. CASE x = e /\ E[e].st = "live"
    <3>1. h \in E[e].lis <=> F[h].ent = e
      BY <1>1, <2>1 DEF Listened
    <3>. QED
      BY <1>1, <1>6, <2>1, <3>1
  <2>2. CASE x = e /\ E[e].st = "none"
    <3>1. F[h].ent # e
      BY <1>1, <1>3, <2>2 DEF Listened
    <3>. QED
      BY <1>1, <1>2, <1>6, <2>2, <3>1
  <2>3. CASE x # e
    BY <1>1, <1>3, <1>6, <1>7, <2>3 DEF Listened
  <2>. QED
    BY <1>1, <2>1, <2>2, <2>3
<1>8. ASSUME NEW h \in Fss, G[h].ent # None PROVE G[h].ent \in Ents /\ E2[G[h].ent].st = "live"
  BY <1>1, <1>6, <1>8 DEF Listened
<1>9. Listened(E2, G)
  BY <1>4, <1>5, <1>7, <1>8 DEF Listened
<1>. QED
  BY <1>9 DEF E2
-----------------------------------------------------------------------------
(* What the steps do to entries.                                           *)
Alike(y, x) ==
  /\ y.st = x.st /\ y.dir = x.dir /\ y.lis = x.lis
  /\ y.running <=> x.running
  /\ y.req = "none" <=> x.req = "none"

Good == TypeOK /\ fault = "none" /\ Listened(ent, fs) /\ \A e \in Ents : SigOK(ent[e], evq, e)

LEMMA GoodTypes ==
  ASSUME Good
  PROVE  /\ EntsTyped(ent) /\ \A e \in Ents : ent[e] \in EntType
         /\ \A e \in Ents : ent[e].st # "live" => Resting(ent[e])
         /\ fs \in [Fss -> FsType] /\ disk \in [Dirs -> Times] /\ cache \in [Dirs -> Times]
         /\ rows \in [Dirs -> Times] /\ evq \in Seq(EventType) /\ 0 \in Times
BY FsAssumption DEF Good, TypeOK, EntsTyped, FsType, Live, Times

LEMMA OneEnt ==
  ASSUME EntsTyped(ent), NEW e \in Ents, NEW r \in EntType, r.st = "live" \/ Resting(r),
         ent' = [ent EXCEPT ![e] = r]
  PROVE  EntsTyped(ent') /\ ent'[e] = r /\ \A x \in Ents \ {e} : ent'[x] = ent[x]
BY DEF EntsTyped

LEMMA ThreadPoolEnt ==
  ASSUME Good, NEW e \in Ents, ThreadPool(e)
  PROVE  /\ EntsTyped(ent') /\ \A x \in Ents : Alike(ent'[x], ent[x])
         /\ \A x \in Ents \ {e} : ent'[x] = ent[x]
         /\ ent[e].st = "live"
         /\ ent'[e].cancel <=> ent[e].cancel
         /\ ent'[e].watch <=> ent[e].watch
         /\ ent'[e].timer <=> ent[e].timer
         /\ ent'[e].req = "statted" => ent'[e].ctime = disk[ent[e].dir]
<1>1. EntsTyped(ent) /\ ent \in [Ents -> EntType] /\ ent[e] \in EntType /\ disk[ent[e].dir] \in Times
  BY GoodTypes DEF EntsTyped, EntType
<1>2. ent[e].req # "none" /\ ent[e].st = "live"
  <2>1. ent[e].req # "none"
    BY DEF ThreadPool
  <2>. QED
    BY <1>1, <2>1, RestingFacts DEF EntsTyped
<1>. DEFINE t == disk[ent[e].dir]
<1>. HIDE DEF t
<1>3. ASSUME NEW r \in EntType, ent' = [ent EXCEPT ![e] = r],
             r = [ent[e] EXCEPT !.req = "statted", !.ctime = t]
             \/ r = [ent[e] EXCEPT !.req = "scanned", !.seen = t]
      PROVE  /\ EntsTyped(ent') /\ \A x \in Ents : Alike(ent'[x], ent[x])
             /\ \A x \in Ents \ {e} : ent'[x] = ent[x]
             /\ ent'[e].cancel <=> ent[e].cancel
             /\ ent'[e].watch <=> ent[e].watch
             /\ ent'[e].timer <=> ent[e].timer
             /\ ent'[e].req = "statted" => ent'[e].ctime = t
  <2>1. /\ r.st = "live" /\ r.dir = ent[e].dir /\ r.lis = ent[e].lis /\ (r.running <=> ent[e].running)
        /\ r.req # "none" /\ (r.cancel <=> ent[e].cancel) /\ (r.watch <=> ent[e].watch)
        /\ (r.timer <=> ent[e].timer) /\ (r.req = "statted" => r.ctime = t)
    BY <1>1, <1>2, <1>3 DEF EntType
  <2>2. EntsTyped(ent') /\ ent'[e] = r /\ \A x \in Ents \ {e} : ent'[x] = ent[x]
    BY <1>1, <1>3, <2>1, OneEnt
  <2>3. Alike(r, ent[e]) /\ \A x \in Ents : Alike(ent[x], ent[x])
    BY <1>2, <2>1 DEF Alike
  <2>4. \A x \in Ents : Alike(ent'[x], ent[x])
    BY <2>2, <2>3
  <2>. QED
    BY <2>1, <2>2, <2>4
<1>4. CASE ent' = [ent EXCEPT ![e].req = "statted", ![e].ctime = disk[ent[e].dir]]
  <2>. DEFINE r == [ent[e] EXCEPT !.req = "statted", !.ctime = t]
  <2>1. r \in EntType
    BY <1>1 DEF EntType, t
  <2>2. ent' = [ent EXCEPT ![e] = r]
    BY <1>1, <1>4 DEF t
  <2>. HIDE DEF r
  <2>3. r = [ent[e] EXCEPT !.req = "statted", !.ctime = t]
    BY DEF r
  <2>. QED
    BY <1>2, <1>3, <2>1, <2>2, <2>3 DEF t
<1>5. CASE ent' = [ent EXCEPT ![e].req = "scanned", ![e].seen = disk[ent[e].dir]]
  <2>. DEFINE r == [ent[e] EXCEPT !.req = "scanned", !.seen = t]
  <2>1. r \in EntType
    BY <1>1 DEF EntType, t
  <2>2. ent' = [ent EXCEPT ![e] = r]
    BY <1>1, <1>5 DEF t
  <2>. HIDE DEF r
  <2>3. r = [ent[e] EXCEPT !.req = "scanned", !.seen = t]
    BY DEF r
  <2>. QED
    BY <1>2, <1>3, <2>1, <2>2, <2>3 DEF t
<1>. QED
  BY <1>4, <1>5 DEF ThreadPool

LEMMA StatCbEnt ==
  ASSUME Good, NEW e \in Ents, StatCb(e)
  PROVE  /\ EntsTyped(ent') /\ \A x \in Ents \ {e} : ent'[x] = ent[x]
         /\ ent[e].st = "live" /\ ent[e].req = "statted"
         /\ ent'[e].st = "live" /\ ent'[e].dir = ent[e].dir /\ ent'[e].lis = ent[e].lis
         /\ ent'[e].running <=> ent[e].running
         /\ ent'[e].watch <=> ent[e].watch
         /\ ent'[e].timer <=> ent[e].timer
         /\ \/ /\ ent'[e].req = "scan" /\ (ent'[e].cancel <=> ent[e].cancel) /\ UNCHANGED evq
            \/ /\ ent'[e].req = "none" /\ (ent'[e].cancel <=> (ent[e].cancel \/ ent[e].ctime = 0))
               /\ (ent[e].ctime = 0 \/ Cached(e)) /\ evq' = Append(evq, SignalEvent(e))
<1>1. EntsTyped(ent) /\ ent \in [Ents -> EntType] /\ ent[e] \in EntType /\ 0 \in Times
  BY GoodTypes DEF EntsTyped
<1>2. ent[e].req = "statted" /\ ent[e].st = "live"
  <2>1. ent[e].req = "statted"
    BY DEF StatCb
  <2>. QED
    BY <1>1, <2>1, RestingFacts DEF EntsTyped
<1>. DEFINE gone == ent[e].ctime = 0
            c == ent[e].cancel \/ gone
<1>3. CASE ent' = [ent EXCEPT ![e].req = "scan"] /\ UNCHANGED evq
  <2>. DEFINE r == [ent[e] EXCEPT !.req = "scan"]
  <2>1. ent' = [ent EXCEPT ![e] = r]
    BY <1>1, <1>3
  <2>2. /\ r \in EntType /\ r.st = "live" /\ r.dir = ent[e].dir /\ r.lis = ent[e].lis
        /\ (r.running <=> ent[e].running) /\ (r.watch <=> ent[e].watch)
        /\ (r.timer <=> ent[e].timer) /\ r.req = "scan" /\ (r.cancel <=> ent[e].cancel)
    BY <1>1, <1>2 DEF EntType
  <2>. HIDE DEF r
  <2>3. EntsTyped(ent') /\ ent'[e] = r /\ \A x \in Ents \ {e} : ent'[x] = ent[x]
    BY <1>1, <2>1, <2>2, OneEnt
  <2>. QED
    BY <1>2, <1>3, <2>2, <2>3
<1>4. CASE /\ ent' = [ent EXCEPT ![e].req = "none", ![e].ctime = 0, ![e].cancel = @ \/ gone]
           /\ gone \/ Cached(e)
           /\ evq' = Append(evq, SignalEvent(e))
  <2>1. c \in BOOLEAN
    OBVIOUS
  <2>2. [ent EXCEPT ![e].req = "none", ![e].ctime = 0, ![e].cancel = @ \/ gone]
        = [ent EXCEPT ![e] = [ent[e] EXCEPT !.req = "none", !.ctime = 0, !.cancel = c]]
    BY <1>1
  <2>. HIDE DEF c
  <2>. DEFINE r == [ent[e] EXCEPT !.req = "none", !.ctime = 0, !.cancel = c]
  <2>3. /\ r \in EntType /\ r.st = "live" /\ r.dir = ent[e].dir /\ r.lis = ent[e].lis
        /\ (r.running <=> ent[e].running) /\ (r.watch <=> ent[e].watch)
        /\ (r.timer <=> ent[e].timer) /\ r.req = "none" /\ (r.cancel <=> c)
    BY <1>1, <1>2, <2>1 DEF EntType
  <2>. HIDE DEF r
  <2>4. ent' = [ent EXCEPT ![e] = r]
    BY <1>4, <2>2 DEF r
  <2>5. EntsTyped(ent') /\ ent'[e] = r /\ \A x \in Ents \ {e} : ent'[x] = ent[x]
    BY <1>1, <2>3, <2>4, OneEnt
  <2>. QED
    BY <1>2, <1>4, <2>3, <2>5 DEF c
<1>. QED
  BY <1>3, <1>4 DEF StatCb

LEMMA SignalTyped ==
  ASSUME NEW e \in Ents
  PROVE  /\ SignalEvent(e) \in EventType /\ SignalEvent(e).kind = "fs_signal_handle"
         /\ SignalEvent(e).of = e
BY NoEntTyped DEF SignalEvent, Event, EventType

LEMMA CommitTyped ==
  ASSUME NEW d \in Dirs, NEW t \in Times \ {0}
  PROVE  /\ Event("commit", None, d, t) \in EventType
         /\ Event("commit", None, d, t).kind = "commit"
         /\ Event("commit", None, d, t).dir = d
         /\ Event("commit", None, d, t).time = t
BY DEF Event, EventType

LEMMA PutTwo ==
  ASSUME NEW q \in Seq(EventType), NEW c \in EventType, NEW v \in EventType
  PROVE  q \o (<< c >> \o << v >>) = Append(Append(q, c), v)
<1>. DEFINE t == << c >> \o << v >> a == q \o t b == Append(Append(q, c), v)
<1>1. << c >> \in Seq(EventType) /\ << v >> \in Seq(EventType)
  OBVIOUS
<1>2. t \in Seq(EventType) /\ Len(t) = 2 /\ t[1] = c /\ t[2] = v
  <2>1. t \in Seq(EventType) /\ Len(t) = Len(<< c >>) + Len(<< v >>)
    BY <1>1, ConcatProperties
  <2>2. \A i \in 1..2 : t[i] = IF i <= 1 THEN << c >>[i] ELSE << v >>[i - 1]
    OBVIOUS
  <2>3. Len(<< c >>) = 1 /\ Len(<< v >>) = 1 /\ << c >>[1] = c /\ << v >>[1] = v
    OBVIOUS
  <2>. QED
    BY <2>1, <2>2, <2>3
<1>. HIDE DEF t
<1>3. /\ a \in Seq(EventType) /\ Len(a) = Len(q) + 2 /\ Len(q) \in Nat
      /\ \A i \in 1..Len(q)+2 : a[i] = IF i <= Len(q) THEN q[i] ELSE t[i - Len(q)]
  <2>1. /\ a \in Seq(EventType) /\ Len(a) = Len(q) + Len(t)
        /\ \A i \in 1..Len(q)+Len(t) : a[i] = IF i <= Len(q) THEN q[i] ELSE t[i - Len(q)]
    BY <1>2, ConcatProperties
  <2>2. Len(q) \in Nat
    BY LenProperties
  <2>. HIDE DEF a
  <2>. QED
    BY <1>2, <2>1, <2>2
<1>4. /\ Append(q, c) \in Seq(EventType) /\ Len(Append(q, c)) = Len(q) + 1
      /\ \A i \in 1..Len(q) : Append(q, c)[i] = q[i]
      /\ Append(q, c)[Len(q) + 1] = c
  BY AppendProperties
<1>5. /\ b \in Seq(EventType) /\ Len(b) = Len(q) + 2
      /\ \A i \in 1..Len(q) + 1 : b[i] = Append(q, c)[i]
      /\ b[Len(q) + 2] = v
  <2>1. /\ b \in Seq(EventType) /\ Len(b) = Len(Append(q, c)) + 1
        /\ \A i \in 1..Len(Append(q, c)) : b[i] = Append(q, c)[i]
        /\ b[Len(Append(q, c)) + 1] = v
    BY <1>4, AppendProperties
  <2>. QED
    BY <1>3, <1>4, <2>1
<1>. HIDE DEF a, b
<1>6. ASSUME NEW i \in 1..Len(q)+2 PROVE a[i] = b[i]
  <2>1. CASE i <= Len(q)
    BY <1>3, <1>4, <1>5, <2>1
  <2>2. CASE i = Len(q) + 1
    <3>1. i - Len(q) = 1 /\ ~(i <= Len(q))
      BY <1>3, <2>2
    <3>. QED
      BY <1>2, <1>3, <1>4, <1>5, <2>2, <3>1
  <2>3. CASE i = Len(q) + 2
    <3>1. i - Len(q) = 2 /\ ~(i <= Len(q))
      BY <1>3, <2>3
    <3>. QED
      BY <1>2, <1>3, <1>5, <2>3, <3>1
  <2>. QED
    BY <1>3, <2>1, <2>2, <2>3
<1>7. a = b
  BY <1>3, <1>5, <1>6, SeqEqual
<1>. QED
  BY <1>7 DEF a, b, t

LEMMA ScanCbEnt ==
  ASSUME Good, NEW e \in Ents, ScanCb(e), fault' = "none"
  PROVE  /\ EntsTyped(ent') /\ \A x \in Ents \ {e} : ent'[x] = ent[x]
         /\ ent[e].st = "live" /\ ent[e].req = "scanned" /\ ent[e].dir \in Dirs
         /\ ent'[e].st = "live" /\ ent'[e].dir = ent[e].dir /\ ent'[e].lis = ent[e].lis
         /\ ent'[e].running <=> ent[e].running
         /\ ent'[e].watch <=> ent[e].watch
         /\ ent'[e].timer <=> ent[e].timer
         /\ ent'[e].cancel <=> ent[e].cancel
         /\ ent'[e].req = "none"
         /\ view' = Flushed(e, ent[e].dir) /\ rows' = [rows EXCEPT ![ent[e].dir] = 0]
         /\ cache' = [cache EXCEPT ![ent[e].dir] = ent[e].ctime] /\ ent[e].ctime \in Times
         /\ \/ ent[e].cancel /\ evq' = Append(evq, SignalEvent(e))
            \/ /\ ~ent[e].cancel
               /\ \E t \in Times \ {0} :
                    evq' = Append(Append(evq, Event("commit", None, ent[e].dir, t)), SignalEvent(e))
<1>1. EntsTyped(ent) /\ ent \in [Ents -> EntType] /\ ent[e] \in EntType /\ 0 \in Times
      /\ evq \in Seq(EventType)
  BY GoodTypes DEF EntsTyped
<1>2. ent[e].req = "scanned" /\ ent[e].st = "live"
  <2>1. ent[e].req = "scanned"
    BY DEF ScanCb
  <2>. QED
    BY <1>1, <2>1, RestingFacts DEF EntsTyped
<1>3. /\ ent[e].seen # 0 \/ ent[e].cancel
      /\ view' = Flushed(e, ent[e].dir) /\ rows' = [rows EXCEPT ![ent[e].dir] = 0]
      /\ cache' = [cache EXCEPT ![ent[e].dir] = ent[e].ctime]
      /\ evq' = evq \o ScanEvents(e)
      /\ ent' = [ent EXCEPT ![e].req = "none", ![e].ctime = 0, ![e].seen = 0]
  BY DEF ScanCb, Fails
<1>. DEFINE r == [ent[e] EXCEPT !.req = "none", !.ctime = 0, !.seen = 0]
<1>4. ent' = [ent EXCEPT ![e] = r]
  BY <1>1, <1>3
<1>5. /\ r \in EntType /\ r.st = "live" /\ r.dir = ent[e].dir /\ r.lis = ent[e].lis
      /\ (r.running <=> ent[e].running) /\ (r.watch <=> ent[e].watch)
      /\ (r.timer <=> ent[e].timer) /\ r.req = "none" /\ (r.cancel <=> ent[e].cancel)
  BY <1>1, <1>2 DEF EntType
<1>. HIDE DEF r
<1>6. EntsTyped(ent') /\ ent'[e] = r /\ \A x \in Ents \ {e} : ent'[x] = ent[x]
  BY <1>1, <1>4, <1>5, OneEnt
<1>7. ent[e].dir \in Dirs /\ ent[e].ctime \in Times /\ ent[e].seen \in Times /\ ent[e].cancel \in BOOLEAN
  BY <1>1 DEF EntType
<1>8. \/ ent[e].cancel /\ evq' = Append(evq, SignalEvent(e))
      \/ /\ ~ent[e].cancel
         /\ \E t \in Times \ {0} :
              evq' = Append(Append(evq, Event("commit", None, ent[e].dir, t)), SignalEvent(e))
  <2>. DEFINE s == SignalEvent(e) c == Event("commit", None, ent[e].dir, ent[e].seen)
  <2>1. s \in EventType
    BY SignalTyped
  <2>2. CASE ent[e].cancel
    <3>1. evq' = evq \o (<<>> \o << s >>)
      BY <1>3, <2>2 DEF ScanEvents, RowsEvents
    <3>. HIDE DEF s
    <3>2. evq' = Append(evq, s)
      BY <1>1, <2>1, <3>1
    <3>. QED
      BY <2>2, <3>2 DEF s
  <2>3. CASE ~ent[e].cancel
    <3>1. evq' = evq \o (<< c >> \o << s >>)
      BY <1>3, <2>3 DEF ScanEvents, RowsEvents
    <3>2. ent[e].seen \in Times \ {0}
      BY <1>3, <1>7, <2>3
    <3>3. c \in EventType
      BY <1>7, <3>2, CommitTyped
    <3>. HIDE DEF s, c
    <3>4. evq' = Append(Append(evq, c), s)
      BY <1>1, <2>1, <3>1, <3>3, PutTwo
    <3>. QED
      BY <2>3, <3>2, <3>4 DEF s, c
  <2>. QED
    BY <2>2, <2>3
<1>. QED
  BY <1>2, <1>3, <1>5, <1>6, <1>7, <1>8
LEMMA DelEntEnt ==
  ASSUME Good, NEW e \in Ents, DelEnt(e)
  PROVE  /\ EntsTyped(ent') /\ \A x \in Ents \ {e} : ent'[x] = ent[x]
         /\ ent[e].st = "closing"
         /\ ent'[e].st = "freed" \/ (ent'[e].st = "none" /\ Sig(evq, e) = {})
         /\ ent'[e].req = "none"
         /\ ent'[e].cancel => ent[e].cancel
<1>1. EntsTyped(ent) /\ ent \in [Ents -> EntType] /\ ent[e] \in EntType /\ Resting(ent[e])
      /\ ent[e].st = "closing"
  BY GoodTypes DEF EntsTyped, DelEnt
<1>2. CASE ent' = [ent EXCEPT ![e] = NoEnt] /\ Sig(evq, e) = {}
  <2>1. NoEnt \in EntType /\ NoEnt.st = "none" /\ ~NoEnt.cancel /\ NoEnt.req = "none"
    BY NoEntTyped DEF NoEnt
  <2>2. Resting(NoEnt)
    BY <2>1 DEF Resting, EntType
  <2>3. EntsTyped(ent') /\ ent'[e] = NoEnt /\ \A x \in Ents \ {e} : ent'[x] = ent[x]
    BY <1>1, <1>2, <2>1, <2>2, OneEnt
  <2>. QED
    BY <1>1, <1>2, <2>1, <2>3
<1>3. CASE ent' = [ent EXCEPT ![e] = [ent[e] EXCEPT !.st = "freed"]]
  <2>. DEFINE d == ent[e].dir c == ent[e].cancel
              r == [NoEnt EXCEPT !.st = "freed", !.dir = d, !.cancel = c]
  <2>1. NoEnt \in EntType /\ d \in Dirs /\ c \in BOOLEAN
    BY <1>1, NoEntTyped DEF EntType
  <2>2. ent[e] = [NoEnt EXCEPT !.st = "closing", !.dir = d, !.cancel = c]
    BY <1>1 DEF Resting
  <2>3. \A dd \in Dirs, cc \in BOOLEAN : LET y == [NoEnt EXCEPT !.st = "freed", !.dir = dd, !.cancel = cc]
          IN  y \in EntType /\ Resting(y) /\ y.st = "freed" /\ y.dir = dd /\ y.cancel = cc
    BY RestingAt
  <2>4. r \in EntType /\ Resting(r) /\ r.st = "freed" /\ r.cancel = c
    BY <2>1, <2>3, Zenon
  <2>5. ASSUME NEW dd \in Dirs, NEW cc \in BOOLEAN
        PROVE  [[NoEnt EXCEPT !.st = "closing", !.dir = dd, !.cancel = cc] EXCEPT !.st = "freed"]
               = [NoEnt EXCEPT !.st = "freed", !.dir = dd, !.cancel = cc]
    BY <2>1 DEF EntType
  <2>6. [ent[e] EXCEPT !.st = "freed"] = r
    BY <2>1, <2>2, <2>5, Zenon
  <2>7. c <=> ent[e].cancel
    OBVIOUS
  <2>. HIDE DEF r, c, d
  <2>8. EntsTyped(ent') /\ ent'[e] = r /\ \A x \in Ents \ {e} : ent'[x] = ent[x]
    BY <1>1, <1>3, <2>4, <2>6, OneEnt
  <2>9. r.req = "none"
    BY <2>4, RestingFacts
  <2>10. ent'[e].cancel => ent[e].cancel
    BY <2>4, <2>7, <2>8
  <2>. QED
    BY <1>1, <2>4, <2>8, <2>9, <2>10
<1>. QED
  BY <1>2, <1>3 DEF DelEnt, Signalled, Sig

LEMMA NoticedEnt ==
  ASSUME Good, NEW e \in Ents, ent[e].st = "live", ent' = Noticed(ent, e)
  PROVE  /\ EntsTyped(ent') /\ \A x \in Ents : Alike(ent'[x], ent[x])
         /\ \A x \in Ents \ {e} : ent'[x] = ent[x]
         /\ ent'[e].timer /\ (ent'[e].cancel <=> ent[e].cancel)
         /\ ent'[e].req = ent[e].req /\ ent'[e].ctime = ent[e].ctime
<1>1. EntsTyped(ent) /\ ent \in [Ents -> EntType] /\ ent[e] \in EntType
  BY GoodTypes DEF EntsTyped
<1>. DEFINE r == [ent[e] EXCEPT !.watch = FALSE, !.notified = FALSE, !.timer = TRUE]
<1>2. ent' = [ent EXCEPT ![e] = r]
  BY <1>1 DEF Noticed
<1>3. /\ r \in EntType /\ r.st = "live" /\ r.dir = ent[e].dir /\ r.lis = ent[e].lis
      /\ (r.running <=> ent[e].running) /\ r.timer /\ (r.cancel <=> ent[e].cancel)
      /\ r.req = ent[e].req /\ r.ctime = ent[e].ctime
  BY <1>1 DEF EntType
<1>. HIDE DEF r
<1>4. EntsTyped(ent') /\ ent'[e] = r /\ \A x \in Ents \ {e} : ent'[x] = ent[x]
  BY <1>1, <1>2, <1>3, OneEnt
<1>. QED
  BY <1>3, <1>4 DEF Alike

(* Changes in what only watch, timer and cache need.                       *)
Slight(y, x) ==
  /\ Alike(y, x) /\ y.req = x.req /\ y.ctime = x.ctime
  /\ y.cancel <=> x.cancel
  /\ y.watch <=> x.watch
  /\ x.timer => y.timer

LEMMA ManyEnts ==
  ASSUME EntsTyped(ent), \A x \in Ents : ent'[x] \in EntType /\ Slight(ent'[x], ent[x]),
         \A x \in Ents : ent[x].st # "live" => Resting(ent'[x]),
         ent' = [x \in Ents |-> ent'[x]]
  PROVE  EntsTyped(ent')
BY DEF EntsTyped, Slight, Alike

LEMMA ChangeEnt ==
  ASSUME Good, NEW d \in Dirs, Change(d)
  PROVE  EntsTyped(ent') /\ \A x \in Ents : Slight(ent'[x], ent[x])
<1>1. EntsTyped(ent) /\ \A x \in Ents : ent[x] \in EntType
  BY GoodTypes
<1>2. ent' = [x \in Ents |-> IF ent[x].dir = d
                            THEN [ent[x] EXCEPT !.notified = ent[x].notified \/ ent[x].watch]
                            ELSE ent[x]]
  BY DEF Change
<1>3. ASSUME NEW x \in Ents
      PROVE  /\ ent'[x] \in EntType /\ Slight(ent'[x], ent[x])
             /\ ent[x].st # "live" => Resting(ent'[x])
  <2>. DEFINE b == ent[x].notified \/ ent[x].watch r == [ent[x] EXCEPT !.notified = b]
  <2>1. b \in BOOLEAN /\ ent[x] \in EntType
    BY <1>1
  <2>2. ent[x].st # "live" => b = ent[x].notified
    BY <1>1, RestingFacts DEF EntsTyped
  <2>3. ent'[x] = IF ent[x].dir = d THEN r ELSE ent[x]
    BY <1>2
  <2>. HIDE DEF b
  <2>4. r \in EntType /\ Slight(r, ent[x]) /\ Slight(ent[x], ent[x])
    BY <2>1 DEF EntType, Slight, Alike
  <2>5. ent[x].st # "live" => r = ent[x] /\ Resting(ent[x])
    BY <1>1, <2>1, <2>2 DEF EntType, EntsTyped
  <2>. HIDE DEF r
  <2>. QED
    BY <2>1, <2>3, <2>4, <2>5
<1>4. ent' = [x \in Ents |-> ent'[x]]
  BY <1>2
<1>. QED
  BY <1>1, <1>3, <1>4, ManyEnts

LEMMA ReloadEnt ==
  ASSUME Good, NEW d \in Dirs, Reload(d)
  PROVE  EntsTyped(ent') /\ \A x \in Ents : Slight(ent'[x], ent[x])
<1>1. EntsTyped(ent) /\ \A x \in Ents : ent[x] \in EntType
  BY GoodTypes
<1>2. ent' = [x \in Ents |-> IF x \in Of(ent, d)
                            THEN [ent[x] EXCEPT !.flush = TRUE, !.timer = TRUE] ELSE ent[x]]
  BY DEF Reload
<1>3. ASSUME NEW x \in Ents
      PROVE  /\ ent'[x] \in EntType /\ Slight(ent'[x], ent[x])
             /\ ent[x].st # "live" => Resting(ent'[x])
  <2>. DEFINE r == [ent[x] EXCEPT !.flush = TRUE, !.timer = TRUE]
  <2>1. ent'[x] = IF x \in Of(ent, d) THEN r ELSE ent[x]
    BY <1>2
  <2>2. r \in EntType /\ Slight(r, ent[x]) /\ Slight(ent[x], ent[x])
    BY <1>1 DEF EntType, Slight, Alike
  <2>3. ent[x].st # "live" => x \notin Of(ent, d) /\ Resting(ent[x])
    BY <1>1 DEF Of, EntsTyped
  <2>. HIDE DEF r
  <2>. QED
    BY <1>1, <2>1, <2>2, <2>3
<1>4. ent' = [x \in Ents |-> ent'[x]]
  BY <1>2
<1>. QED
  BY <1>1, <1>3, <1>4, ManyEnts

(* fs_cancel: the entry is that of an open directory.                      *)
LEMMA FsCancelEnt ==
  ASSUME Good, NEW f \in Fss, FsCancel(f), fault' = "none"
  PROVE  /\ EntsTyped(ent') /\ \A x \in Ents : Alike(ent'[x], ent[x])
         /\ \A x \in Ents : (ent'[x].watch <=> ent[x].watch) /\ (ent'[x].timer <=> ent[x].timer)
         /\ MayCancel
<1>. DEFINE e == fs[f].ent
<1>1. EntsTyped(ent) /\ ent \in [Ents -> EntType] /\ 0 \in Times /\ fs \in [Fss -> FsType]
  BY GoodTypes DEF EntsTyped
<1>2. /\ MayCancel /\ e # None
      /\ \/ ent' = [ent EXCEPT ![e].cancel = TRUE]
         \/ ent[e].req = "stat" /\ ent' = [ent EXCEPT ![e].cancel = TRUE, ![e].req = "statted", ![e].ctime = 0]
         \/ ent[e].req = "scan" /\ ent' = [ent EXCEPT ![e].cancel = TRUE, ![e].req = "scanned", ![e].seen = 0]
  BY DEF FsCancel
<1>3. e \in Ents /\ ent[e].st = "live"
  BY <1>2 DEF Good, Listened
<1>. HIDE DEF e
<1>4. ent[e] \in EntType
  BY <1>1, <1>3
<1>5. ASSUME NEW r \in EntType, ent' = [ent EXCEPT ![e] = r], Alike(r, ent[e]),
             r.watch <=> ent[e].watch, r.timer <=> ent[e].timer
      PROVE  /\ EntsTyped(ent') /\ \A x \in Ents : Alike(ent'[x], ent[x])
             /\ \A x \in Ents : (ent'[x].watch <=> ent[x].watch) /\ (ent'[x].timer <=> ent[x].timer)
  <2>1. r.st = "live"
    BY <1>3, <1>5 DEF Alike
  <2>2. EntsTyped(ent') /\ ent'[e] = r /\ \A x \in Ents \ {e} : ent'[x] = ent[x]
    BY <1>1, <1>3, <1>5, <2>1, OneEnt
  <2>3. \A x \in Ents : Alike(ent[x], ent[x])
    BY DEF Alike
  <2>. QED
    BY <1>5, <2>2, <2>3
<1>6. CASE ent' = [ent EXCEPT ![e].cancel = TRUE]
  <2>. DEFINE r == [ent[e] EXCEPT !.cancel = TRUE]
  <2>1. ent' = [ent EXCEPT ![e] = r]
    BY <1>1, <1>6
  <2>2. r \in EntType /\ Alike(r, ent[e]) /\ (r.watch <=> ent[e].watch) /\ (r.timer <=> ent[e].timer)
    BY <1>4 DEF EntType, Alike
  <2>. HIDE DEF r
  <2>. QED
    BY <1>2, <1>5, <2>1, <2>2
<1>7. CASE /\ ent[e].req = "stat"
           /\ ent' = [ent EXCEPT ![e].cancel = TRUE, ![e].req = "statted", ![e].ctime = 0]
  <2>. DEFINE r == [ent[e] EXCEPT !.cancel = TRUE, !.req = "statted", !.ctime = 0]
  <2>1. ent' = [ent EXCEPT ![e] = r]
    BY <1>1, <1>7
  <2>2. r \in EntType /\ Alike(r, ent[e]) /\ (r.watch <=> ent[e].watch) /\ (r.timer <=> ent[e].timer)
    BY <1>1, <1>4, <1>7 DEF EntType, Alike
  <2>. HIDE DEF r
  <2>. QED
    BY <1>2, <1>5, <2>1, <2>2
<1>8. CASE /\ ent[e].req = "scan"
           /\ ent' = [ent EXCEPT ![e].cancel = TRUE, ![e].req = "scanned", ![e].seen = 0]
  <2>. DEFINE r == [ent[e] EXCEPT !.cancel = TRUE, !.req = "scanned", !.seen = 0]
  <2>1. ent' = [ent EXCEPT ![e] = r]
    BY <1>1, <1>8
  <2>2. r \in EntType /\ Alike(r, ent[e]) /\ (r.watch <=> ent[e].watch) /\ (r.timer <=> ent[e].timer)
    BY <1>1, <1>4, <1>8 DEF EntType, Alike
  <2>. HIDE DEF r
  <2>. QED
    BY <1>2, <1>5, <2>1, <2>2
<1>. QED
  BY <1>2, <1>6, <1>7, <1>8

LEMMA IdleEnt ==
  ASSUME Good, NEW e \in Ents
  PROVE  LET E == Idle(ent, e) IN
         /\ EntsTyped(E) /\ \A x \in Ents \ {e} : E[x] = ent[x]
         /\ E[e].st = ent[e].st /\ E[e].dir = ent[e].dir /\ E[e].lis = ent[e].lis
         /\ E[e].req = ent[e].req /\ E[e].ctime = ent[e].ctime
         /\ ~E[e].running /\ (E[e].cancel <=> ent[e].cancel)
         /\ (E[e].watch <=> ent[e].watch) /\ (E[e].timer <=> ent[e].timer)
<1>1. EntsTyped(ent) /\ ent \in [Ents -> EntType] /\ ent[e] \in EntType
  BY GoodTypes DEF EntsTyped
<1>. DEFINE r == [ent[e] EXCEPT !.running = FALSE, !.flush = FALSE, !.reopen = FALSE]
<1>2. Idle(ent, e) = [ent EXCEPT ![e] = r]
  BY <1>1 DEF Idle
<1>3. /\ r \in EntType /\ r.st = ent[e].st /\ r.dir = ent[e].dir /\ r.lis = ent[e].lis
      /\ r.req = ent[e].req /\ r.ctime = ent[e].ctime
      /\ ~r.running /\ (r.cancel <=> ent[e].cancel)
      /\ (r.watch <=> ent[e].watch) /\ (r.timer <=> ent[e].timer)
  BY <1>1 DEF EntType
<1>4. ent[e].st # "live" => Resting(r)
  <2>1. SUFFICES ASSUME ent[e].st # "live" PROVE Resting(r)
    OBVIOUS
  <2>2. ent[e].running = FALSE /\ ent[e].flush = FALSE /\ ent[e].reopen = FALSE
    BY <1>1, <2>1, RestingFacts DEF EntsTyped
  <2>3. r = ent[e]
    BY <1>1, <2>2 DEF EntType
  <2>. QED
    BY <1>1, <2>1, <2>3 DEF EntsTyped
<1>. HIDE DEF r
<1>. QED
  BY <1>1, <1>2, <1>3, <1>4 DEF EntsTyped
-----------------------------------------------------------------------------
(* The steps keep entries, listeners and the queue in agreement.           *)
Core ==
  /\ EntsTyped(ent) /\ fs \in [Fss -> FsType] /\ evq \in Seq(EventType)
  /\ Listened(ent, fs) /\ \A e \in Ents : SigOK(ent[e], evq, e)

LEMMA GoodCore ==
  ASSUME Good
  PROVE  Core
BY GoodTypes DEF Good, Core

(* Nothing that matters to them changes.                                   *)
LEMMA CalmCore ==
  ASSUME Good, EntsTyped(ent'), \A x \in Ents : Alike(ent'[x], ent[x]), UNCHANGED evq,
         fs' \in [Fss -> FsType], \A f \in Fss : fs'[f].ent = fs[f].ent
  PROVE  Core'
<1>1. Core /\ \A x \in Ents : ent[x] \in EntType /\ ent'[x] \in EntType
  BY GoodCore, GoodTypes DEF EntsTyped
<1>2. ASSUME NEW x \in Ents PROVE SigOK(ent'[x], evq', x)
  <2>1. /\ SigOK(ent[x], evq, x) /\ ent[x] \in EntType /\ ent'[x] \in EntType
        /\ ent'[x].st = ent[x].st /\ ent'[x].dir = ent[x].dir
        /\ (ent'[x].running <=> ent[x].running) /\ (ent'[x].req = "none" <=> ent[x].req = "none")
    BY <1>1 DEF Core, Alike
  <2>2. SigOK(ent'[x], evq, x)
    BY <2>1, SameEnt
  <2>. QED
    BY <2>2
<1>3. \A x \in Ents : ent'[x].st = ent[x].st /\ ent'[x].dir = ent[x].dir /\ ent'[x].lis = ent[x].lis
  BY DEF Alike
<1>4. Listened(ent', fs')
  BY <1>1, <1>3 DEF Core, Listened
<1>. QED
  BY <1>1, <1>2, <1>4 DEF Core

(* One entry changes, but neither its state, its directory nor its         *)
(* listeners.                                                              *)
LEMMA OneCore ==
  ASSUME Good, EntsTyped(ent'), NEW e \in Ents, \A x \in Ents \ {e} : ent'[x] = ent[x],
         ent'[e].st = ent[e].st, ent'[e].dir = ent[e].dir, ent'[e].lis = ent[e].lis,
         UNCHANGED fs, evq' \in Seq(EventType),
         SigOK(ent'[e], evq', e), \A x \in Ents \ {e} : SigOK(ent[x], evq', x)
  PROVE  Core'
<1>1. \A x \in Ents : ent'[x].st = ent[x].st /\ ent'[x].dir = ent[x].dir /\ ent'[x].lis = ent[x].lis
  OBVIOUS
<1>2. Listened(ent', fs')
  BY <1>1 DEF Good, Listened
<1>3. \A x \in Ents : SigOK(ent'[x], evq', x)
  OBVIOUS
<1>4. fs' \in [Fss -> FsType]
  BY GoodTypes
<1>. QED
  BY <1>2, <1>3, <1>4 DEF Core

LEMMA StatCbCore ==
  ASSUME Good, NEW e \in Ents, StatCb(e)
  PROVE  Core'
<1>1. /\ EntsTyped(ent') /\ \A x \in Ents \ {e} : ent'[x] = ent[x]
      /\ ent[e].st = "live" /\ ent[e].req = "statted"
      /\ ent'[e].st = "live" /\ ent'[e].dir = ent[e].dir /\ ent'[e].lis = ent[e].lis
      /\ ent'[e].running <=> ent[e].running
      /\ \/ ent'[e].req = "scan" /\ UNCHANGED evq
         \/ ent'[e].req = "none" /\ evq' = Append(evq, SignalEvent(e))
  BY StatCbEnt
<1>2. /\ evq \in Seq(EventType) /\ UNCHANGED fs /\ fs \in [Fss -> FsType]
      /\ \A x \in Ents : ent[x] \in EntType /\ ent'[x] \in EntType /\ SigOK(ent[x], evq, x)
  BY <1>1, GoodTypes DEF EntsTyped, StatCb, Good
<1>3. CASE ent'[e].req = "scan" /\ UNCHANGED evq
  <2>1. SigOK(ent'[e], evq, e)
    BY <1>1, <1>2, <1>3, SameEnt
  <2>. QED
    BY <1>1, <1>2, <1>3, <2>1, OneCore
<1>4. CASE ent'[e].req = "none" /\ evq' = Append(evq, SignalEvent(e))
  <2>. DEFINE v == SignalEvent(e)
  <2>1. v \in EventType /\ v.kind = "fs_signal_handle" /\ v.of = e
    BY SignalTyped
  <2>. HIDE DEF v
  <2>2. Append(evq, v) \in Seq(EventType)
    BY <1>2, <2>1, QueueAppend
  <2>3. SigOK(ent'[e], Append(evq, v), e)
    BY <1>1, <1>2, <1>4, <2>1, PutSignal
  <2>4. ASSUME NEW x \in Ents \ {e} PROVE SigOK(ent[x], Append(evq, v), x)
    <3>1. ~(v.kind = "fs_signal_handle" /\ v.of = x) /\ v.kind # "commit"
      BY <2>1
    <3>. QED
      BY <1>2, <2>1, <3>1, PutOther
  <2>5. evq' = Append(evq, v)
    BY <1>4 DEF v
  <2>. QED
    BY <1>1, <1>2, <2>2, <2>3, <2>4, <2>5, OneCore
<1>. QED
  BY <1>1, <1>3, <1>4

LEMMA ScanCbCore ==
  ASSUME Good, NEW e \in Ents, ScanCb(e), fault' = "none"
  PROVE  Core'
<1>1. /\ EntsTyped(ent') /\ \A x \in Ents \ {e} : ent'[x] = ent[x]
      /\ ent[e].st = "live" /\ ent[e].req = "scanned" /\ ent[e].dir \in Dirs
      /\ ent'[e].st = "live" /\ ent'[e].dir = ent[e].dir /\ ent'[e].lis = ent[e].lis
      /\ ent'[e].running <=> ent[e].running
      /\ ent'[e].req = "none"
      /\ \/ evq' = Append(evq, SignalEvent(e))
         \/ \E t \in Times \ {0} :
              evq' = Append(Append(evq, Event("commit", None, ent[e].dir, t)), SignalEvent(e))
  BY ScanCbEnt
<1>2. /\ evq \in Seq(EventType) /\ UNCHANGED fs /\ fs \in [Fss -> FsType]
      /\ \A x \in Ents : ent[x] \in EntType /\ ent'[x] \in EntType /\ SigOK(ent[x], evq, x)
  BY <1>1, GoodTypes DEF EntsTyped, ScanCb, Fails, Good
<1>. DEFINE v == SignalEvent(e)
<1>3. v \in EventType /\ v.kind = "fs_signal_handle" /\ v.of = e
  BY SignalTyped
<1>4. evq' = Append(evq, v) \/ \E t \in Times \ {0} :
         evq' = Append(Append(evq, Event("commit", None, ent[e].dir, t)), v)
  BY <1>1
<1>. HIDE DEF v
<1>5. ASSUME NEW q \in Seq(EventType), \A x \in Ents : SigOK(ent[x], q, x), evq' = Append(q, v)
      PROVE  Core'
  <2>1. Append(q, v) \in Seq(EventType)
    BY <1>3, QueueAppend
  <2>2. SigOK(ent'[e], Append(q, v), e)
    BY <1>1, <1>2, <1>3, <1>5, PutSignal
  <2>3. ASSUME NEW x \in Ents \ {e} PROVE SigOK(ent[x], Append(q, v), x)
    <3>1. ~(v.kind = "fs_signal_handle" /\ v.of = x) /\ v.kind # "commit"
      BY <1>3
    <3>. QED
      BY <1>2, <1>3, <1>5, <3>1, PutOther
  <2>. QED
    BY <1>1, <1>2, <1>5, <2>1, <2>2, <2>3, OneCore
<1>6. CASE evq' = Append(evq, v)
  BY <1>2, <1>5, <1>6
<1>7. ASSUME NEW t \in Times \ {0},
             evq' = Append(Append(evq, Event("commit", None, ent[e].dir, t)), v)
      PROVE  Core'
  <2>. DEFINE c == Event("commit", None, ent[e].dir, t)
  <2>1. c \in EventType /\ c.kind = "commit" /\ c.dir = ent[e].dir
    BY <1>1, CommitTyped
  <2>2. evq' = Append(Append(evq, c), v)
    BY <1>7
  <2>. HIDE DEF c
  <2>3. Append(evq, c) \in Seq(EventType)
    BY <1>2, <2>1, QueueAppend
  <2>4. ASSUME NEW x \in Ents PROVE SigOK(ent[x], Append(evq, c), x)
    <3>1. ent[x].st = "live" /\ ent[x].dir = c.dir => x = e
      BY <1>1, <2>1 DEF Good, Listened
    <3>2. c.kind = "commit" /\ ent[x].st = "live" /\ ent[x].dir = c.dir => ent[x].req # "none"
      BY <1>1, <3>1
    <3>. QED
      BY <1>2, <2>1, <3>2, PutOther
  <2>. QED
    BY <1>5, <2>2, <2>3, <2>4
<1>. QED
  BY <1>4, <1>6, <1>7

LEMMA DelEntCore ==
  ASSUME Good, NEW e \in Ents, DelEnt(e)
  PROVE  Core'
<1>1. /\ EntsTyped(ent') /\ \A x \in Ents \ {e} : ent'[x] = ent[x]
      /\ ent[e].st = "closing"
      /\ ent'[e].st = "freed" \/ (ent'[e].st = "none" /\ Sig(evq, e) = {})
  BY DelEntEnt
<1>2. UNCHANGED <<fs, evq>> /\ Core
  BY GoodCore DEF DelEnt
<1>3. \A x \in Ents : SigOK(ent'[x], evq, x)
  BY <1>1, <1>2 DEF Core, SigOK
<1>4. Listened(ent', fs)
  BY <1>1, <1>2 DEF Core, Listened
<1>. QED
  BY <1>1, <1>2, <1>3, <1>4 DEF Core

LEMMA ReopenCore ==
  ASSUME Good, NEW e \in Ents, ent[e].st = "live", ~ent[e].running, ent' = Reopen(ent, e),
         UNCHANGED <<fs, evq>>
  PROVE  Core'
<1>1. EntsTyped(ent) /\ Core /\ ent[e] \in EntType
  BY GoodTypes, GoodCore
<1>2. /\ EntsTyped(ent') /\ \A x \in Ents \ {e} : ent'[x] = ent[x]
      /\ ent'[e].st = "live" /\ ent'[e].dir = ent[e].dir
      /\ ent'[e].lis = ent[e].lis /\ ent'[e].running /\ ent'[e].req = "stat"
  BY <1>1, ReopenFacts
<1>3. SigOK(ent[e], evq, e) /\ ent'[e] \in EntType
  BY <1>1, <1>2 DEF Core, EntsTyped
<1>4. SigOK(ent'[e], evq, e)
  BY <1>1, <1>2, <1>3, Started
<1>. QED
  BY <1>1, <1>2, <1>4, OneCore DEF Core

LEMMA StatReadCbCore ==
  ASSUME Good, NEW f \in Fss, StatReadCb(f), fault' = "none"
  PROVE  Core' /\ \A d : Com(evq', d) = Com(evq, d) /\ Sig(evq', d) = Sig(evq, d)
<1>. DEFINE a == Event("stat_cb", f, fs[f].dir, disk[fs[f].dir])
            b == Event("stat_cleanup", f, NoEnt.dir, 0)
<1>1. /\ fs' = [fs EXCEPT ![f].stat = FALSE, ![f].dir = NoEnt.dir]
      /\ evq' = evq \o << a, b >> /\ UNCHANGED ent
  BY DEF StatReadCb, Fails
<1>2. /\ fs \in [Fss -> FsType] /\ disk \in [Dirs -> Times] /\ evq \in Seq(EventType) /\ 0 \in Times
      /\ Core /\ \A x \in Ents : ent[x] \in EntType
  BY GoodTypes, GoodCore
<1>3. NoEnt.dir \in Dirs /\ fs[f].dir \in Dirs
  BY <1>2, NoEntTyped DEF FsType
<1>4. a \in EventType /\ b \in EventType /\ a.kind = "stat_cb" /\ b.kind = "stat_cleanup"
  BY <1>2, <1>3 DEF Event, EventType
<1>. HIDE DEF a, b
<1>5. evq' = Append(Append(evq, a), b)
  <2>1. << a >> \o << b >> = << a, b >>
    <3>1. /\ << a >> \in Seq(EventType) /\ << b >> \in Seq(EventType) /\ << a, b >> \in Seq(EventType)
          /\ Len(<< a >>) = 1 /\ Len(<< b >>) = 1 /\ Len(<< a, b >>) = 2
      BY <1>4
    <3>2. << a >> \o << b >> \in Seq(EventType) /\ Len(<< a >> \o << b >>) = 2
      BY <3>1, ConcatProperties
    <3>3. \A i \in 1..2 : (<< a >> \o << b >>)[i] = IF i <= 1 THEN << a >>[i] ELSE << b >>[i - 1]
      OBVIOUS
    <3>4. \A i \in 1..2 : (<< a >> \o << b >>)[i] = << a, b >>[i]
      BY <3>3
    <3>. QED
      BY <3>1, <3>2, <3>4, SeqEqual
  <2>. QED
    BY <1>1, <1>2, <1>4, <2>1, PutTwo
<1>6. Append(evq, a) \in Seq(EventType) /\ evq' \in Seq(EventType)
  BY <1>2, <1>4, <1>5, QueueAppend
<1>7. ASSUME NEW x \in Ents PROVE SigOK(ent'[x], evq', x)
  <2>1. SigOK(ent[x], Append(evq, a), x)
    BY <1>2, <1>4, PutOther DEF Core
  <2>2. SigOK(ent[x], Append(Append(evq, a), b), x)
    BY <1>2, <1>4, <1>6, <2>1, PutOther
  <2>. QED
    BY <1>1, <1>5, <2>2
<1>8. fs' \in [Fss -> FsType] /\ \A h \in Fss : fs'[h].ent = fs[h].ent
  <2>. DEFINE r == [fs[f] EXCEPT !.stat = FALSE, !.dir = NoEnt.dir]
  <2>1. r \in FsType /\ r.ent = fs[f].ent
    BY <1>2, <1>3 DEF FsType
  <2>2. fs' = [fs EXCEPT ![f] = r]
    BY <1>1, <1>2
  <2>. HIDE DEF r
  <2>. QED
    BY <1>2, <2>1, <2>2
<1>9. Listened(ent', fs')
  BY <1>1, <1>2, <1>8 DEF Core, Listened
<1>10. ASSUME NEW d PROVE Com(evq', d) = Com(evq, d) /\ Sig(evq', d) = Sig(evq, d)
  <2>1. Com(Append(evq, a), d) = Com(evq, d) /\ Sig(Append(evq, a), d) = Sig(evq, d)
    BY <1>2, <1>4, SigAppend
  <2>2. /\ Com(Append(Append(evq, a), b), d) = Com(Append(evq, a), d)
        /\ Sig(Append(Append(evq, a), b), d) = Sig(Append(evq, a), d)
    BY <1>4, <1>6, SigAppend
  <2>. QED
    BY <1>5, <2>1, <2>2
<1>. QED
  BY <1>1, <1>2, <1>6, <1>7, <1>8, <1>9, <1>10 DEF Core
(* fs_demux does not disturb the requests and signals of any entry.        *)
LEMMA DemuxSig ==
  ASSUME NEW E, EntsTyped(E), NEW e \in Ents, E[e].st = "live", NEW S, S # {}, NEW q,
         \A x \in Ents : SigOK(E[x], q, x)
  PROVE  \A x \in Ents : SigOK(Demux(E, S, e)[x], q, x)
<1>. DEFINE E2 == Demux(E, S, e)
<1>1. /\ EntsTyped(E2) /\ \A x \in Ents \ {e} : E2[x] = E[x]
      /\ E2[e].st = "closing" \/ E2[e] = [E[e] EXCEPT !.lis = E[e].lis \ S]
  BY DemuxFacts
<1>2. E[e] \in EntType
  BY DEF EntsTyped
<1>3. \/ E2[e].st = "closing"
      \/ /\ E2[e].st = E[e].st /\ E2[e].dir = E[e].dir /\ (E2[e].running <=> E[e].running)
         /\ E2[e].req = E[e].req
  BY <1>1, <1>2 DEF EntType
<1>4. E2[e] \in EntType
  BY <1>1 DEF EntsTyped
<1>. HIDE DEF E2
<1>5. CASE E2[e].st = "closing"
  <2>1. SigOK(E2[e], q, e)
    BY <1>5 DEF SigOK
  <2>2. \A x \in Ents : SigOK(E2[x], q, x)
    BY <1>1, <2>1
  <2>. QED
    BY <2>2 DEF E2
<1>6. CASE /\ E2[e].st = E[e].st /\ E2[e].dir = E[e].dir /\ (E2[e].running <=> E[e].running)
           /\ E2[e].req = E[e].req
  <2>1. SigOK(E[e], q, e)
    OBVIOUS
  <2>2. SigOK(E2[e], q, e)
    BY <1>2, <1>4, <1>6, <2>1, SameEnt
  <2>3. \A x \in Ents : SigOK(E2[x], q, x)
    BY <1>1, <2>2
  <2>. QED
    BY <2>3 DEF E2
<1>. QED
  BY <1>3, <1>5, <1>6

(* f leaves the directory it has open, if it has one: no other entry       *)
(* changes, and its own only in its listeners, if any stays.               *)
Leaves(E, f) ==
  /\ EntsTyped(E)
  /\ \A x \in Ents : E[x].dir = ent[x].dir /\ (E[x].cancel <=> ent[x].cancel)
  /\ \A x \in Ents : E[x].st = "live" =>
       /\ ent[x].st = "live" /\ E[x].lis = ent[x].lis \ {f}
       /\ E[x].req = ent[x].req /\ E[x].ctime = ent[x].ctime
       /\ E[x].running <=> ent[x].running
       /\ E[x].watch <=> ent[x].watch
       /\ E[x].timer <=> ent[x].timer
  /\ \A x \in Ents : ent[x].st # "live" => E[x] = ent[x]
  /\ \A x \in Ents : E[x].st # ent[x].st => E[x].st = "closing" /\ ent[x].lis = {f}

LEMMA Left ==
  ASSUME Good, NEW f \in Fss, NEW q, \A x \in Ents : SigOK(ent[x], q, x),
         NEW G, G[f].ent = None, \A h \in Fss \ {f} : G[h].ent = fs[h].ent,
         NEW E, E = Demux(ent, {f}, fs[f].ent)
  PROVE  Leaves(E, f) /\ Listened(E, G) /\ \A x \in Ents : SigOK(E[x], q, x)
<1>. DEFINE e == fs[f].ent
<1>1. EntsTyped(ent) /\ Listened(ent, fs) /\ \A x \in Ents : ent[x] \in EntType
  BY GoodTypes DEF Good
<1>2. CASE e = None
  <2>1. E = ent
    BY <1>2 DEF Demux
  <2>2. \A h \in Fss : G[h].ent = fs[h].ent
    BY <1>2
  <2>3. Listened(ent, G)
    BY <1>1, <2>2 DEF Listened
  <2>4. \A x \in Ents : ent[x].st = "live" => f \notin ent[x].lis
    BY <1>1, <1>2 DEF Listened, Ents, None
  <2>5. \A x \in Ents : ent[x].st = "live" => ent[x].lis = ent[x].lis \ {f}
    BY <2>4
  <2>6. EntsTyped(E) /\ Listened(E, G) /\ \A x \in Ents : SigOK(E[x], q, x)
    BY <1>1, <2>1, <2>3
  <2>. QED
    BY <2>1, <2>5, <2>6 DEF Leaves
<1>3. CASE e # None
  <2>1. e \in Ents /\ ent[e].st = "live" /\ f \in ent[e].lis
    BY <1>1, <1>3 DEF Listened
  <2>2. {f} # {} /\ {f} \subseteq ent[e].lis
    BY <2>1
  <2>. DEFINE S == {f}
  <2>3. \A h \in Fss : G[h].ent = IF h \in S THEN None ELSE fs[h].ent
    OBVIOUS
  <2>4. E = Demux(ent, S, e) /\ S # {} /\ S \subseteq ent[e].lis /\ ent[e].lis \ {f} = ent[e].lis \ S
    BY <2>2
  <2>. HIDE DEF e, S
  <2>5. Listened(E, G)
    <3>1. Listened(Demux(ent, S, e), G)
      BY <1>1, <2>1, <2>3, <2>4, DemuxListened
    <3>. QED
      BY <2>4, <3>1
  <2>6. \A x \in Ents : SigOK(E[x], q, x)
    <3>1. \A x \in Ents : SigOK(Demux(ent, S, e)[x], q, x)
      BY <1>1, <2>1, <2>4, DemuxSig
    <3>. QED
      BY <2>4, <3>1
  <2>7. /\ EntsTyped(E)
        /\ \A x \in Ents \ {e} : E[x] = ent[x]
        /\ E[e].dir = ent[e].dir /\ (E[e].cancel <=> ent[e].cancel)
        /\ \/ E[e].st = "closing" /\ ent[e].lis \ {f} = {}
           \/ E[e] = [ent[e] EXCEPT !.lis = ent[e].lis \ {f}] /\ ent[e].lis \ {f} # {}
    <3>1. LET D == Demux(ent, S, e) IN
          /\ EntsTyped(D)
          /\ \A x \in Ents \ {e} : D[x] = ent[x]
          /\ D[e].dir = ent[e].dir /\ (D[e].cancel <=> ent[e].cancel)
          /\ \/ D[e].st = "closing" /\ ent[e].lis \ S = {}
             \/ D[e] = [ent[e] EXCEPT !.lis = ent[e].lis \ S] /\ ent[e].lis \ S # {}
      BY <1>1, <2>1, <2>4, DemuxFacts
    <3>. QED
      BY <2>4, <3>1
  <2>8. E[e].st = "live" =>
              /\ ent[e].st = "live" /\ E[e].lis = ent[e].lis \ {f}
              /\ E[e].req = ent[e].req /\ E[e].ctime = ent[e].ctime
              /\ E[e].running <=> ent[e].running
              /\ E[e].watch <=> ent[e].watch
              /\ E[e].timer <=> ent[e].timer
    BY <1>1, <2>1, <2>7 DEF EntType
  <2>9. E[e].st # ent[e].st => E[e].st = "closing" /\ ent[e].lis = {f}
    BY <1>1, <2>1, <2>7 DEF EntType
  <2>10. \A x \in Ents \ {e} : ent[x].st = "live" => ent[x].lis = ent[x].lis \ {f}
    <3>1. \A x \in Ents \ {e} : ent[x].st = "live" => f \notin ent[x].lis
      BY <1>1 DEF Listened, e
    <3>. QED
      BY <3>1
  <2>11. \A x \in Ents : E[x].st = "live" =>
              /\ ent[x].st = "live" /\ E[x].lis = ent[x].lis \ {f}
              /\ E[x].req = ent[x].req /\ E[x].ctime = ent[x].ctime
              /\ E[x].running <=> ent[x].running
              /\ E[x].watch <=> ent[x].watch
              /\ E[x].timer <=> ent[x].timer
    BY <2>7, <2>8, <2>10
  <2>12. \A x \in Ents : E[x].dir = ent[x].dir /\ (E[x].cancel <=> ent[x].cancel)
    BY <2>7
  <2>13. \A x \in Ents : ent[x].st # "live" => E[x] = ent[x]
    BY <2>1, <2>7
  <2>14. \A x \in Ents : E[x].st # ent[x].st => E[x].st = "closing" /\ ent[x].lis = {f}
    BY <2>7, <2>9
  <2>. QED
    BY <2>5, <2>6, <2>7, <2>11, <2>12, <2>13, <2>14 DEF Leaves
<1>. QED
  BY <1>2, <1>3

LEMMA FmDeleteCore ==
  ASSUME Good, NEW f \in Fss, FmDelete(f)
  PROVE  Core'
<1>1. /\ fs \in [Fss -> FsType] /\ evq \in Seq(EventType)
      /\ \A x \in Ents : SigOK(ent[x], evq, x)
  BY GoodTypes DEF Good
<1>2. ent' = Demux(ent, {f}, fs[f].ent) /\ UNCHANGED evq
      /\ fs' = [fs EXCEPT ![f].freed = TRUE, ![f].ent = None]
  BY DEF FmDelete
<1>3. fs' \in [Fss -> FsType] /\ fs'[f].ent = None /\ \A h \in Fss \ {f} : fs'[h].ent = fs[h].ent
  <2>. DEFINE r == [fs[f] EXCEPT !.freed = TRUE, !.ent = None]
  <2>1. r \in FsType /\ r.ent = None
    BY <1>1 DEF FsType
  <2>2. fs' = [fs EXCEPT ![f] = r]
    BY <1>1, <1>2
  <2>. HIDE DEF r
  <2>. QED
    BY <1>1, <2>1, <2>2
<1>4. EntsTyped(ent') /\ Listened(ent', fs') /\ \A x \in Ents : SigOK(ent'[x], evq, x)
  <2>1. Leaves(ent', f) /\ Listened(ent', fs') /\ \A x \in Ents : SigOK(ent'[x], evq, x)
    BY <1>1, <1>2, <1>3, Left
  <2>. QED
    BY <2>1 DEF Leaves
<1>. QED
  BY <1>1, <1>2, <1>3, <1>4 DEF Core

LEMMA FmDeleteLeaves ==
  ASSUME Good, NEW f \in Fss, FmDelete(f)
  PROVE  Leaves(ent', f)
<1>. DEFINE G == [fs EXCEPT ![f].ent = None]
<1>1. ent' = Demux(ent, {f}, fs[f].ent) /\ fs \in [Fss -> FsType]
      /\ \A x \in Ents : SigOK(ent[x], evq, x)
  BY GoodTypes DEF FmDelete, Good
<1>2. G[f].ent = None /\ \A h \in Fss \ {f} : G[h].ent = fs[h].ent
  BY <1>1 DEF FsType
<1>. HIDE DEF G
<1>. QED
  BY <1>1, <1>2, Left

-----------------------------------------------------------------------------
(* Events are popped.                                                      *)
LEMMA PoppedEvent ==
  ASSUME Good, evq # <<>>
  PROVE  /\ Tail(evq) \in Seq(EventType) /\ Head(evq) \in EventType
         /\ Head(evq).dir \in Dirs
         /\ Head(evq).kind = "commit" => Head(evq).time \in Times \ {0}
         /\ Head(evq).kind = "fs_signal_handle" => Head(evq).of \in Ents
         /\ Head(evq).kind \in {"stat_cb", "stat_cleanup"} => Head(evq).of \in Fss
         /\ \A x \in Ents : ~(Head(evq).kind = "fs_signal_handle" /\ Head(evq).of = x)
                            => SigOK(ent[x], Tail(evq), x)
<1>1. evq \in Seq(EventType) /\ \A x \in Ents : ent[x] \in EntType /\ SigOK(ent[x], evq, x)
  BY GoodTypes DEF Good
<1>2. Tail(evq) \in Seq(EventType) /\ Head(evq) \in EventType
  BY <1>1, QueueTail
<1>3. ASSUME NEW x \in Ents, ~(Head(evq).kind = "fs_signal_handle" /\ Head(evq).of = x)
      PROVE  SigOK(ent[x], Tail(evq), x)
  BY <1>1, <1>3, PopOther
<1>. QED
  BY <1>2, <1>3 DEF EventType

(* The event is about nothing of them.                                     *)
LEMMA PopCore ==
  ASSUME Good, evq # <<>>, evq' = Tail(evq), Head(evq).kind # "fs_signal_handle", UNCHANGED ent,
         fs' \in [Fss -> FsType], \A h \in Fss : fs'[h].ent = fs[h].ent
  PROVE  Core'
<1>1. Core /\ evq' \in Seq(EventType) /\ \A x \in Ents : SigOK(ent[x], evq', x)
  BY PoppedEvent, GoodCore
<1>2. Listened(ent', fs')
  BY <1>1 DEF Core, Listened
<1>. QED
  BY <1>1, <1>2 DEF Core

LEMMA StatCleanupCore ==
  ASSUME Good, StatCleanup, fault' = "none"
  PROVE  Core'
<1>. DEFINE f == Head(evq).of
<1>1. /\ evq # <<>> /\ Head(evq).kind = "stat_cleanup" /\ evq' = Tail(evq) /\ UNCHANGED ent
      /\ fs' = [fs EXCEPT ![f].running = FALSE]
  BY DEF StatCleanup, Pop
<1>2. f \in Fss /\ fs \in [Fss -> FsType]
  BY <1>1, PoppedEvent, GoodTypes
<1>. HIDE DEF f
<1>3. fs' \in [Fss -> FsType] /\ \A h \in Fss : fs'[h].ent = fs[h].ent
  <2>. DEFINE r == [fs[f] EXCEPT !.running = FALSE]
  <2>1. r \in FsType /\ r.ent = fs[f].ent
    BY <1>2 DEF FsType
  <2>2. fs' = [fs EXCEPT ![f] = r]
    BY <1>1, <1>2
  <2>. HIDE DEF r
  <2>. QED
    BY <1>2, <2>1, <2>2
<1>. QED
  BY <1>1, <1>3, PopCore
(* f leaves its directory on an event about it.                            *)
LEMMA PopLeaves ==
  ASSUME Good, evq # <<>>, Head(evq).kind = "stat_cb", NEW f \in Fss
  PROVE  LET E == Demux(ent, {f}, fs[f].ent)
             G == [fs EXCEPT ![f].ent = None] IN
         /\ Leaves(E, f) /\ Listened(E, G) /\ \A x \in Ents : SigOK(E[x], Tail(evq), x)
         /\ G \in [Fss -> FsType] /\ G[f].ent = None /\ \A h \in Fss \ {f} : G[h].ent = fs[h].ent
<1>. DEFINE E == Demux(ent, {f}, fs[f].ent)
            r == [fs[f] EXCEPT !.ent = None]
            G == [fs EXCEPT ![f] = r]
<1>1. fs \in [Fss -> FsType] /\ \A x \in Ents : SigOK(ent[x], Tail(evq), x)
  BY GoodTypes, PoppedEvent
<1>2. r \in FsType /\ r.ent = None
  BY <1>1 DEF FsType
<1>3. [fs EXCEPT ![f].ent = None] = G
  BY <1>1
<1>. HIDE DEF r
<1>4. G \in [Fss -> FsType] /\ G[f].ent = None /\ \A h \in Fss \ {f} : G[h].ent = fs[h].ent
  BY <1>1, <1>2
<1>. HIDE DEF G
<1>5. E = Demux(ent, {f}, fs[f].ent)
  OBVIOUS
<1>. HIDE DEF E
<1>6. Leaves(E, f) /\ Listened(E, G) /\ \A x \in Ents : SigOK(E[x], Tail(evq), x)
  BY <1>1, <1>4, <1>5, Left
<1>. QED
  BY <1>3, <1>4, <1>5, <1>6

(* The event of fm_ch_dir and menu_ch_dir.                                 *)
LEMMA ChDirCore ==
  ASSUME Good, ChDir, fault' = "none"
  PROVE  Core'
<1>. DEFINE f == Head(evq).of
            d == Head(evq).dir
            E == Demux(ent, {f}, fs[f].ent)
            G == [fs EXCEPT ![f].ent = None]
<1>1. evq # <<>> /\ Head(evq).kind = "stat_cb" /\ evq' = Tail(evq)
  BY DEF ChDir, Pop
<1>2. /\ f \in Fss /\ d \in Dirs /\ evq' \in Seq(EventType)
      /\ fs \in [Fss -> FsType] /\ EntsTyped(ent)
  BY <1>1, PoppedEvent, GoodTypes
<1>3. /\ Leaves(E, f) /\ Listened(E, G) /\ \A x \in Ents : SigOK(E[x], evq', x)
      /\ G \in [Fss -> FsType] /\ G[f].ent = None /\ \A h \in Fss \ {f} : G[h].ent = fs[h].ent
  BY <1>1, <1>2, PopLeaves
<1>4. \/ /\ MayOpen(E, d) /\ ent' = Open(E, f, d)
         /\ fs' = [fs EXCEPT ![f].ent = MuxEnt(E, d)]
      \/ ent' = E /\ fs' = G
      \/ UNCHANGED <<ent, fs>>
  BY DEF ChDir
<1>5. CASE /\ MayOpen(E, d) /\ ent' = Open(E, f, d)
           /\ fs' = [fs EXCEPT ![f].ent = MuxEnt(E, d)]
  <2>. DEFINE e == MuxEnt(E, d)
              r == [fs[f] EXCEPT !.ent = e]
  <2>. HIDE DEF E, G, f, d
  <2>1. EntsTyped(E)
    BY <1>3 DEF Leaves
  <2>2. /\ EntsTyped(ent') /\ e \in Ents
        /\ \/ E[e].st = "live" /\ E[e].dir = d
           \/ E[e].st = "none" /\ \A x \in Ents : ~(E[x].st = "live" /\ E[x].dir = d)
        /\ \A x \in Ents \ {e} : ent'[x] = E[x]
        /\ ent'[e].st = "live" /\ ent'[e].dir = d
        /\ \/ E[e].running /\ ent'[e].running /\ ent'[e].req = E[e].req
           \/ ~E[e].running /\ ent'[e].running /\ ent'[e].req = "stat"
    BY <1>2, <1>5, <2>1, OpenFacts
  <2>3. /\ fs' \in [Fss -> FsType] /\ fs'[f].ent = e
        /\ \A h \in Fss \ {f} : fs'[h].ent = G[h].ent
    <3>. HIDE DEF e
    <3>1. r \in FsType /\ r.ent = e
      BY <1>2, <2>2 DEF FsType
    <3>2. fs' = [fs EXCEPT ![f] = r]
      BY <1>2, <1>5 DEF e
    <3>. HIDE DEF r
    <3>. QED
      BY <1>2, <1>3, <3>1, <3>2
  <2>4. Listened(ent', fs')
    <3>1. Listened(Open(E, f, d), fs')
      BY <1>2, <1>3, <1>5, <2>1, <2>3, OpenListened
    <3>. QED
      BY <1>5, <3>1
  <2>. HIDE DEF e
  <2>5. E[e] \in EntType /\ ent'[e] \in EntType /\ SigOK(E[e], evq', e)
    BY <1>3, <2>1, <2>2 DEF EntsTyped
  <2>6. SigOK(ent'[e], evq', e)
    <3>1. CASE E[e].running /\ ent'[e].running /\ ent'[e].req = E[e].req
      <4>1. E[e].st = "live"
        BY <2>1, <2>2, <3>1, RestingFacts DEF EntsTyped
      <4>2. E[e].dir = d
        BY <2>2, <4>1
      <4>. QED
        BY <2>2, <2>5, <3>1, <4>1, <4>2, SameEnt
    <3>2. CASE ~E[e].running /\ ent'[e].running /\ ent'[e].req = "stat"
      BY <2>2, <2>5, <3>2, Started
    <3>. QED
      BY <2>2, <3>1, <3>2
  <2>7. \A x \in Ents : SigOK(ent'[x], evq', x)
    BY <1>3, <2>2, <2>6
  <2>. QED
    BY <1>2, <2>2, <2>3, <2>4, <2>7 DEF Core
<1>6. CASE ent' = E /\ fs' = G
  <2>1. EntsTyped(E)
    BY <1>3 DEF Leaves
  <2>. QED
    BY <1>2, <1>3, <1>6, <2>1 DEF Core
<1>7. CASE UNCHANGED <<ent, fs>>
  BY <1>1, <1>2, <1>7, PopCore
<1>. QED
  BY <1>4, <1>5, <1>6, <1>7

(* fs_signal_handle: the request was the last of the entry, which is idle. *)
SignalFrame(e, S) ==
  /\ evq # <<>> /\ Head(evq).kind = "fs_signal_handle" /\ Head(evq).of = e
  /\ evq' = Tail(evq)
  /\ S \subseteq ent[e].lis \cap Menus
  /\ ent' = Demux(Idle(ent, e), S, e)
  /\ fs' = [f \in Fss |-> IF f \in S THEN [fs[f] EXCEPT !.ent = None] ELSE fs[f]]

LEMMA SignalFramed ==
  ASSUME Good, FsSignalHandle, fault' = "none"
  PROVE  ent[Head(evq).of].st # "freed" /\ \E S : SignalFrame(Head(evq).of, S)
BY DEF FsSignalHandle, Pop, SignalFrame

LEMMA SignalState ==
  ASSUME Good, NEW e, NEW S, SignalFrame(e, S), ent[e].st # "freed"
  PROVE  /\ e \in Ents
         /\ \/ ent[e].st = "closing" /\ S = {}
            \/ /\ ent[e].st = "live" /\ ent[e].req = "none" /\ Sig(Tail(evq), e) = {}
               /\ Com(evq, ent[e].dir) = {} /\ Com(Tail(evq), ent[e].dir) = {}
<1>1. evq # <<>> /\ Head(evq).kind = "fs_signal_handle" /\ Head(evq).of = e
  BY DEF SignalFrame
<1>2. e \in Ents /\ evq \in Seq(EventType)
  BY <1>1, PoppedEvent, GoodTypes
<1>3. ent[e] \in EntType /\ SigOK(ent[e], evq, e)
  BY <1>2, GoodTypes DEF Good
<1>4. Sig(evq, e) # {}
  BY <1>1, <1>2, SigTail
<1>5. ent[e].st \in {"live", "closing"}
  BY <1>3, <1>4 DEF SigOK, EntType
<1>6. CASE ent[e].st = "closing"
  <2>1. ent[e].lis = {}
    BY <1>2, <1>6, GoodTypes, RestingFacts
  <2>. QED
    BY <1>2, <1>6, <2>1 DEF SignalFrame
<1>7. CASE ent[e].st = "live"
  BY <1>1, <1>2, <1>3, <1>7, PopSignal
<1>. QED
  BY <1>5, <1>6, <1>7

LEMMA SignalCore ==
  ASSUME Good, NEW e, NEW S, SignalFrame(e, S), ent[e].st # "freed"
  PROVE  Core'
<1>. DEFINE E == Idle(ent, e)
<1>1. /\ evq # <<>> /\ Head(evq).kind = "fs_signal_handle" /\ Head(evq).of = e
      /\ evq' = Tail(evq) /\ S \subseteq ent[e].lis /\ ent' = Demux(E, S, e)
      /\ fs' = [f \in Fss |-> IF f \in S THEN [fs[f] EXCEPT !.ent = None] ELSE fs[f]]
  BY DEF SignalFrame
<1>2. /\ e \in Ents
      /\ \/ ent[e].st = "closing" /\ S = {}
         \/ /\ ent[e].st = "live" /\ ent[e].req = "none" /\ Sig(evq', e) = {}
            /\ Com(evq', ent[e].dir) = {}
  BY <1>1, SignalState
<1>3. /\ EntsTyped(E) /\ \A x \in Ents \ {e} : E[x] = ent[x]
      /\ E[e].st = ent[e].st /\ E[e].dir = ent[e].dir /\ E[e].lis = ent[e].lis
      /\ E[e].req = ent[e].req /\ ~E[e].running
  BY <1>2, IdleEnt
<1>. HIDE DEF E
<1>4. /\ fs \in [Fss -> FsType] /\ evq' \in Seq(EventType)
      /\ \A x \in Ents \ {e} : SigOK(ent[x], evq', x)
  BY <1>1, PoppedEvent, GoodTypes
<1>5. SigOK(E[e], evq', e)
  BY <1>2, <1>3 DEF SigOK
<1>6. \A x \in Ents : SigOK(E[x], evq', x)
  BY <1>3, <1>4, <1>5
<1>7. Listened(E, fs)
  <2>1. \A x \in Ents : E[x].st = ent[x].st /\ E[x].dir = ent[x].dir /\ E[x].lis = ent[x].lis
    BY <1>2, <1>3
  <2>. QED
    BY <2>1 DEF Good, Listened
<1>8. /\ fs' \in [Fss -> FsType]
      /\ \A f \in Fss : fs'[f].ent = IF f \in S THEN None ELSE fs[f].ent
  <2>1. ASSUME NEW f \in Fss
        PROVE  fs'[f] \in FsType /\ fs'[f].ent = IF f \in S THEN None ELSE fs[f].ent
    <3>1. fs'[f] = IF f \in S THEN [fs[f] EXCEPT !.ent = None] ELSE fs[f]
      BY <1>1
    <3>2. fs[f] \in FsType
      BY <1>4
    <3>. QED
      BY <3>1, <3>2 DEF FsType
  <2>2. fs' = [f \in Fss |-> fs'[f]]
    BY <1>1
  <2>. QED
    BY <2>1, <2>2
<1>9. CASE S = {}
  <2>1. ent' = E
    BY <1>1, <1>9 DEF Demux
  <2>2. \A f \in Fss : fs'[f].ent = fs[f].ent
    BY <1>8, <1>9
  <2>3. Listened(ent', fs')
    BY <1>7, <2>1, <2>2 DEF Listened
  <2>. QED
    BY <1>3, <1>4, <1>6, <1>8, <2>1, <2>3 DEF Core
<1>10. CASE S # {}
  <2>1. ent[e].st = "live" /\ E[e].st = "live" /\ S \subseteq E[e].lis
    BY <1>1, <1>2, <1>3, <1>10
  <2>2. EntsTyped(Demux(E, S, e))
    BY <1>2, <1>3, <1>10, <2>1, DemuxFacts
  <2>3. Listened(Demux(E, S, e), fs')
    BY <1>2, <1>3, <1>7, <1>8, <1>10, <2>1, DemuxListened
  <2>4. \A x \in Ents : SigOK(Demux(E, S, e)[x], evq', x)
    BY <1>2, <1>3, <1>6, <1>10, <2>1, DemuxSig
  <2>. QED
    BY <1>1, <1>4, <1>8, <2>2, <2>3, <2>4 DEF Core
<1>. QED
  BY <1>9, <1>10
LEMMA CoreStep ==
  ASSUME Good, Next, fault' = "none"
  PROVE  Core'
<1>1. ASSUME NEW e \in Ents, Callback(e) PROVE Core'
  <2>1. CASE ThreadPool(e)
    <3>1. EntsTyped(ent') /\ \A x \in Ents : Alike(ent'[x], ent[x])
      BY <2>1, ThreadPoolEnt
    <3>2. UNCHANGED <<fs, evq>> /\ fs \in [Fss -> FsType]
      BY <2>1, GoodTypes DEF ThreadPool
    <3>. QED
      BY <3>1, <3>2, CalmCore
  <2>2. CASE StatCb(e)
    BY <2>2, StatCbCore
  <2>3. CASE ScanCb(e)
    BY <2>3, ScanCbCore
  <2>4. CASE DelEnt(e)
    BY <2>4, DelEntCore
  <2>5. CASE WatchCb(e)
    <3>1. /\ ent[e].st = "live" /\ UNCHANGED <<fs, evq>> /\ fs \in [Fss -> FsType]
          /\ ent' = Noticed(ent, e) \/ (~ent[e].running /\ ent' = Reopen(ent, e))
      BY <2>5, GoodTypes DEF WatchCb, Live
    <3>2. CASE ent' = Noticed(ent, e)
      <4>1. EntsTyped(ent') /\ \A x \in Ents : Alike(ent'[x], ent[x])
        BY <3>1, <3>2, NoticedEnt
      <4>. QED
        BY <3>1, <4>1, CalmCore
    <3>3. CASE ~ent[e].running /\ ent' = Reopen(ent, e)
      BY <3>1, <3>3, ReopenCore
    <3>. QED
      BY <3>1, <3>2, <3>3
  <2>6. CASE WatchTimerCb(e)
    BY <2>6, ReopenCore DEF WatchTimerCb, Live
  <2>. QED
    BY <1>1, <2>1, <2>2, <2>3, <2>4, <2>5, <2>6 DEF Callback
<1>2. ASSUME NEW f \in Fss, StatReadCb(f) PROVE Core'
  BY <1>2, StatReadCbCore
<1>3. CASE Commit
  <2>1. /\ evq # <<>> /\ evq' = Tail(evq) /\ Head(evq).kind # "fs_signal_handle"
        /\ UNCHANGED <<ent, fs>> /\ fs \in [Fss -> FsType]
    BY <1>3, GoodTypes DEF Commit, Pop
  <2>. QED
    BY <2>1, PopCore
<1>4. CASE FsSignalHandle
  BY <1>4, SignalFramed, SignalCore
<1>5. CASE ChDir
  BY <1>5, ChDirCore
<1>6. CASE StatCleanup
  BY <1>6, StatCleanupCore
<1>7. ASSUME NEW d \in Dirs, Reload(d) PROVE Core'
  <2>1. EntsTyped(ent') /\ \A x \in Ents : Alike(ent'[x], ent[x])
    BY <1>7, ReloadEnt DEF Slight
  <2>2. UNCHANGED <<fs, evq>> /\ fs \in [Fss -> FsType]
    BY <1>7, GoodTypes DEF Reload
  <2>. QED
    BY <2>1, <2>2, CalmCore
<1>8. ASSUME NEW f \in Fss, NEW d \in Dirs, FsRead(f, d) PROVE Core'
  <2>1. UNCHANGED <<ent, evq>> /\ fs \in [Fss -> FsType] /\ EntsTyped(ent)
        /\ fs' = [fs EXCEPT ![f].running = TRUE, ![f].stat = TRUE, ![f].dir = d]
    BY <1>8, GoodTypes DEF FsRead
  <2>. DEFINE r == [fs[f] EXCEPT !.running = TRUE, !.stat = TRUE, !.dir = d]
  <2>2. r \in FsType /\ r.ent = fs[f].ent
    BY <2>1 DEF FsType
  <2>3. fs' = [fs EXCEPT ![f] = r]
    BY <2>1
  <2>. HIDE DEF r
  <2>4. fs' \in [Fss -> FsType] /\ \A h \in Fss : fs'[h].ent = fs[h].ent
    BY <2>1, <2>2, <2>3
  <2>5. \A x \in Ents : Alike(ent'[x], ent[x])
    BY <2>1 DEF Alike
  <2>. QED
    BY <2>1, <2>4, <2>5, CalmCore
<1>9. ASSUME NEW f \in Fss, FsCancel(f) PROVE Core'
  <2>1. EntsTyped(ent') /\ \A x \in Ents : Alike(ent'[x], ent[x])
    BY <1>9, FsCancelEnt
  <2>2. UNCHANGED <<fs, evq>> /\ fs \in [Fss -> FsType]
    BY <1>9, GoodTypes DEF FsCancel
  <2>. QED
    BY <2>1, <2>2, CalmCore
<1>10. ASSUME NEW f \in Fss, FmDelete(f) PROVE Core'
  BY <1>10, FmDeleteCore
<1>11. CASE Tick
  <2>1. Core /\ UNCHANGED <<ent, fs, evq>>
    BY <1>11, GoodCore DEF Tick
  <2>. QED
    BY <2>1 DEF Core
<1>12. ASSUME NEW d \in Dirs, Change(d) PROVE Core'
  <2>1. EntsTyped(ent') /\ \A x \in Ents : Alike(ent'[x], ent[x])
    BY <1>12, ChangeEnt DEF Slight
  <2>2. UNCHANGED <<fs, evq>> /\ fs \in [Fss -> FsType]
    BY <1>12, GoodTypes DEF Change
  <2>. QED
    BY <2>1, <2>2, CalmCore
<1>. QED
  BY <1>1, <1>2, <1>3, <1>4, <1>5, <1>6, <1>7, <1>8, <1>9, <1>10, <1>11, <1>12
     DEF Next, Handle, User

-----------------------------------------------------------------------------
(* Disk, table and models.                                                 *)
ViewType == [lines : {"blocking", "empty", "listing", "dangling"}, time : Times]

Data ==
  /\ disk \in [Dirs -> Times] /\ now \in Times \ {0}
  /\ cache \in [Dirs -> Times] /\ rows \in [Dirs -> Times]
  /\ view \in [Fss -> ViewType]

LEMMA GoodData ==
  ASSUME Good
  PROVE  Data /\ 0 \in Times /\ \A e \in Ents : ent[e].dir \in Dirs /\ ent[e].ctime \in Times
BY GoodTypes DEF Good, TypeOK, Data, ViewType, EntType

LEMMA FlushedTyped ==
  ASSUME Good, NEW e, NEW d
  PROVE  /\ Flushed(e, d) \in [Fss -> ViewType]
         /\ \A f \in Fss :
              \/ Flushed(e, d)[f] = [lines |-> "blocking", time |-> 0]
              \/ Flushed(e, d)[f].lines = "dangling" /\ view[f].lines = "listing"
              \/ /\ Flushed(e, d)[f] = view[f]
                 /\ ~(view[f].lines = "listing" /\ fs[f].ent # None /\ ent[fs[f].ent].dir = d)
<1>1. view \in [Fss -> ViewType] /\ 0 \in Times
  BY GoodData DEF Data
<1>2. ASSUME NEW f \in Fss
      PROVE  /\ Flushed(e, d)[f] \in ViewType
             /\ \/ Flushed(e, d)[f] = [lines |-> "blocking", time |-> 0]
                \/ Flushed(e, d)[f].lines = "dangling" /\ view[f].lines = "listing"
                \/ /\ Flushed(e, d)[f] = view[f]
                   /\ ~(view[f].lines = "listing" /\ fs[f].ent # None /\ ent[fs[f].ent].dir = d)
  <2>1. view[f] \in ViewType
    BY <1>1
  <2>2. /\ [view[f] EXCEPT !.lines = "dangling"] \in ViewType
        /\ [view[f] EXCEPT !.lines = "dangling"].lines = "dangling"
        /\ [lines |-> "blocking", time |-> 0] \in ViewType
    BY <1>1, <2>1 DEF ViewType
  <2>3. Flushed(e, d)[f] =
          IF f \in ent[e].lis \ Menus /\ ent[e].reopen
          THEN [lines |-> "blocking", time |-> 0]
          ELSE IF view[f].lines = "listing" /\ fs[f].ent # None /\ ent[fs[f].ent].dir = d
          THEN [view[f] EXCEPT !.lines = "dangling"]
          ELSE view[f]
    BY DEF Flushed
  <2>. QED
    BY <2>1, <2>2, <2>3
<1>3. Flushed(e, d) = [f \in Fss |-> Flushed(e, d)[f]]
  BY DEF Flushed
<1>. QED
  BY <1>2, <1>3

LEMMA RecvTyped ==
  ASSUME Good, NEW e \in Ents, NEW v \in [Fss -> ViewType], NEW rs \in [Dirs -> Times]
  PROVE  /\ Recv(v, rs, e) \in [Fss -> ViewType]
         /\ \A f \in Fss :
              \/ Recv(v, rs, e)[f] = v[f]
              \/ /\ f \in ent[e].lis \ Menus
                 /\ \/ Recv(v, rs, e)[f].lines = "empty" /\ rs[ent[e].dir] = 0
                    \/ /\ Recv(v, rs, e)[f].lines = "listing" /\ rs[ent[e].dir] # 0
                       /\ Recv(v, rs, e)[f].time = rs[ent[e].dir]
<1>. DEFINE d == ent[e].dir
<1>1. d \in Dirs /\ 0 \in Times /\ rs[d] \in Times
  BY GoodData
<1>. HIDE DEF d
<1>2. ASSUME NEW f \in Fss
      PROVE  /\ Recv(v, rs, e)[f] \in ViewType
             /\ \/ Recv(v, rs, e)[f] = v[f]
                \/ /\ f \in ent[e].lis \ Menus
                   /\ \/ Recv(v, rs, e)[f].lines = "empty" /\ rs[d] = 0
                      \/ /\ Recv(v, rs, e)[f].lines = "listing" /\ rs[d] # 0
                         /\ Recv(v, rs, e)[f].time = rs[d]
  <2>1. v[f] \in ViewType
    OBVIOUS
  <2>2. Recv(v, rs, e)[f] = IF f \in ent[e].lis \ Menus THEN Received(v[f], rs, d) ELSE v[f]
    BY DEF Recv, d
  <2>3. \/ Received(v[f], rs, d) = v[f]
        \/ Received(v[f], rs, d) = [lines |-> "empty", time |-> 0] /\ rs[d] = 0
        \/ Received(v[f], rs, d) = [lines |-> "listing", time |-> rs[d]] /\ rs[d] # 0
    BY DEF Received
  <2>4. /\ [lines |-> "empty", time |-> 0] \in ViewType
        /\ [lines |-> "listing", time |-> rs[d]] \in ViewType
    BY <1>1 DEF ViewType
  <2>. QED
    BY <2>1, <2>2, <2>3, <2>4
<1>3. Recv(v, rs, e) = [f \in Fss |-> Recv(v, rs, e)[f]]
  BY DEF Recv
<1>. QED
  BY <1>2, <1>3 DEF d
(* What fs_signal_handle does to them.                                     *)
SignalData(e) ==
  /\ ent[e].st # "freed" /\ UNCHANGED <<disk, now, fault>>
  /\ rows' = (IF ent[e].cancel THEN [rows EXCEPT ![ent[e].dir] = 0] ELSE rows)
  /\ cache' = (IF ent[e].cancel /\ cache[ent[e].dir] # 0 THEN [cache EXCEPT ![ent[e].dir] = 0]
               ELSE cache)
  /\ view' = Recv(IF ent[e].cancel THEN Flushed(e, ent[e].dir) ELSE view, rows', e)

LEMMA SignalDatas ==
  ASSUME FsSignalHandle, Good, fault' = "none"
  PROVE  /\ SignalData(Head(evq).of) /\ Head(evq).of \in Ents
         /\ \E S : SignalFrame(Head(evq).of, S)
<1>1. evq # <<>> /\ Head(evq).kind = "fs_signal_handle"
  BY DEF FsSignalHandle, Pop
<1>2. Head(evq).of \in Ents
  BY <1>1, PoppedEvent
<1>3. \E S : SignalFrame(Head(evq).of, S)
  BY SignalFramed
<1>. DEFINE e == Head(evq).of
<1>4. SignalData(e)
  BY DEF FsSignalHandle, SignalData
<1>. QED
  BY <1>2, <1>3, <1>4

LEMMA DataStep ==
  ASSUME Good, Next, fault' = "none"
  PROVE  Data'
<1>1. /\ disk \in [Dirs -> Times] /\ now \in Times \ {0} /\ 0 \in Times
      /\ cache \in [Dirs -> Times] /\ rows \in [Dirs -> Times]
      /\ view \in [Fss -> ViewType]
      /\ \A e \in Ents : ent[e].dir \in Dirs /\ ent[e].ctime \in Times
  BY GoodData DEF Data
<1>2. ASSUME NEW e \in Ents, Callback(e) PROVE Data'
  <2>1. CASE UNCHANGED <<disk, now, cache, rows, view>>
    BY <1>1, <2>1 DEF Data
  <2>2. CASE ScanCb(e)
    <3>1. /\ view' = Flushed(e, ent[e].dir) /\ rows' = [rows EXCEPT ![ent[e].dir] = 0]
          /\ cache' = [cache EXCEPT ![ent[e].dir] = ent[e].ctime]
      BY <2>2, ScanCbEnt
    <3>2. view' \in [Fss -> ViewType]
      BY <3>1, FlushedTyped
    <3>3. UNCHANGED <<disk, now>>
      BY <2>2 DEF ScanCb, Fails
    <3>. QED
      BY <1>1, <3>1, <3>2, <3>3 DEF Data
  <2>. QED
    BY <1>2, <2>1, <2>2 DEF Callback, ThreadPool, StatCb, DelEnt, WatchCb, WatchTimerCb
<1>3. ASSUME NEW f \in Fss, StatReadCb(f) PROVE Data'
  BY <1>1, <1>3 DEF StatReadCb, Fails, Data
<1>4. CASE Commit
  <2>1. evq # <<>> /\ Head(evq).kind = "commit"
    BY <1>4 DEF Commit, Pop
  <2>2. Head(evq).dir \in Dirs /\ Head(evq).time \in Times
    BY <2>1, PoppedEvent
  <2>. QED
    BY <1>1, <1>4, <2>2 DEF Commit, Data
<1>5. CASE FsSignalHandle
  <2>. DEFINE e == Head(evq).of
  <2>1. SignalData(e) /\ e \in Ents
    BY <1>5, SignalDatas
  <2>. HIDE DEF e
  <2>2. rows' \in [Dirs -> Times] /\ cache' \in [Dirs -> Times] /\ UNCHANGED <<disk, now>>
    BY <1>1, <2>1 DEF SignalData
  <2>3. (IF ent[e].cancel THEN Flushed(e, ent[e].dir) ELSE view) \in [Fss -> ViewType]
    BY <1>1, FlushedTyped
  <2>4. view' \in [Fss -> ViewType]
    BY <2>1, <2>2, <2>3, RecvTyped DEF SignalData
  <2>. QED
    BY <1>1, <2>2, <2>4 DEF Data
<1>6. CASE ChDir
  <2>1. UNCHANGED <<disk, now, cache, rows>>
    BY <1>6 DEF ChDir
  <2>2. view' = view \/ view' = [view EXCEPT ![Head(evq).of] = [lines |-> "blocking", time |-> 0]]
    BY <1>6 DEF ChDir
  <2>3. [lines |-> "blocking", time |-> 0] \in ViewType
    BY <1>1 DEF ViewType
  <2>4. view' \in [Fss -> ViewType]
    BY <1>1, <2>2, <2>3
  <2>. QED
    BY <1>1, <2>1, <2>4 DEF Data
<1>7. CASE StatCleanup
  BY <1>1, <1>7 DEF StatCleanup, Data
<1>8. ASSUME NEW d \in Dirs, Reload(d) PROVE Data'
  BY <1>1, <1>8 DEF Reload, Data
<1>9. ASSUME NEW f \in Fss, NEW d \in Dirs, FsRead(f, d) PROVE Data'
  BY <1>1, <1>9 DEF FsRead, Data
<1>10. ASSUME NEW f \in Fss, FsCancel(f) PROVE Data'
  BY <1>1, <1>10 DEF FsCancel, Data
<1>11. ASSUME NEW f \in Fss, FmDelete(f) PROVE Data'
  BY <1>1, <1>11 DEF FmDelete, Data
<1>12. CASE Tick
  BY <1>1, <1>12, FsAssumption DEF Tick, Data, Times
<1>13. ASSUME NEW d \in Dirs, Change(d) PROVE Data'
  <2>1. PICK t \in {now, 0} : disk' = [disk EXCEPT ![d] = t]
    BY <1>13 DEF Change
  <2>. QED
    BY <1>1, <1>13, <2>1 DEF Change, Data
<1>. QED
  BY <1>2, <1>3, <1>4, <1>5, <1>6, <1>7, <1>8, <1>9, <1>10, <1>11, <1>12, <1>13
     DEF Next, Handle, User

(* A step that fails leaves everything as it was, but for the event.       *)
LEMMA FaultStep ==
  ASSUME Good, Next, fault' # "none"
  PROVE  /\ UNCHANGED <<disk, now, cache, rows, ent, fs, view>>
         /\ evq' = evq \/ (evq # <<>> /\ evq' = Tail(evq))
         /\ fault' \in {"scan_that_never_ends", "nv_fs_used_after_fs_cleanup",
                        "cancel_without_an_entry", "entry_used_after_fs_demux"}
<1>1. fault = "none"
  BY DEF Good
<1>2. ASSUME NEW e \in Ents, Callback(e)
      PROVE  ScanCb(e) /\ Fails("scan_that_never_ends")
  BY <1>1, <1>2 DEF Callback, ThreadPool, StatCb, ScanCb, DelEnt, WatchCb, WatchTimerCb
<1>3. ASSUME NEW f \in Fss, StatReadCb(f) PROVE Fails("nv_fs_used_after_fs_cleanup")
  BY <1>1, <1>3 DEF StatReadCb
<1>4. ~Commit /\ ~Tick /\ \A d \in Dirs : ~Reload(d) /\ ~Change(d)
  BY <1>1 DEF Commit, Tick, Reload, Change
<1>5. \A f \in Fss : ~FmDelete(f) /\ \A d \in Dirs : ~FsRead(f, d)
  BY <1>1 DEF FmDelete, FsRead
<1>6. ASSUME NEW f \in Fss, FsCancel(f)
      PROVE  /\ UNCHANGED <<disk, now, cache, rows, ent, fs, view, evq>>
             /\ fault' = "cancel_without_an_entry"
  BY <1>1, <1>6 DEF FsCancel
<1>7. ASSUME FsSignalHandle \/ ChDir \/ StatCleanup
      PROVE  /\ UNCHANGED <<disk, now, cache, rows, ent, fs, view>>
             /\ evq # <<>> /\ evq' = Tail(evq)
             /\ fault' \in {"nv_fs_used_after_fs_cleanup", "entry_used_after_fs_demux"}
  BY <1>1, <1>7 DEF FsSignalHandle, ChDir, StatCleanup, Pop
<1>. QED
  BY <1>2, <1>3, <1>4, <1>5, <1>6, <1>7 DEF Next, Handle, User, Fails
-----------------------------------------------------------------------------
(* The first part of the invariant: types, listeners and requests.         *)
Agreed == TypeOK /\ (fault = "none" => Good)

LEMMA Stopped ==
  ASSUME fault # "none"
  PROVE  ~Next
BY DEF Next, Callback, Handle, User, ThreadPool, StatCb, ScanCb, DelEnt, WatchCb, WatchTimerCb,
       StatReadCb, Commit, FsSignalHandle, ChDir, StatCleanup, Pop, Reload, FsRead, FsCancel,
       FmDelete, Tick, Change, Running

LEMMA TypeParts ==
  /\ TypeOK <=> Data /\ EntsTyped(ent) /\ fs \in [Fss -> FsType] /\ evq \in Seq(EventType)
                /\ fault \in {"none", "scan_that_never_ends", "nv_fs_used_after_fs_cleanup",
                              "cancel_without_an_entry", "entry_used_after_fs_demux"}
  /\ TypeOK' <=> Data' /\ EntsTyped(ent') /\ fs' \in [Fss -> FsType] /\ evq' \in Seq(EventType)
                 /\ fault' \in {"none", "scan_that_never_ends", "nv_fs_used_after_fs_cleanup",
                                "cancel_without_an_entry", "entry_used_after_fs_demux"}
BY DEF TypeOK, Data, ViewType, EntsTyped, FsType, Live

LEMMA AgreedInit == Init => Agreed
<1>. SUFFICES ASSUME Init PROVE Agreed
  OBVIOUS
<1>1. NoEnt \in EntType /\ NoEnt.dir \in Dirs /\ NoEnt.st = "none"
  BY NoEntTyped DEF NoEnt
<1>2. 0 \in Times /\ 1 \in Times \ {0}
  BY FsAssumption DEF Times
<1>3. Resting(NoEnt)
  <2>1. NoEnt = [NoEnt EXCEPT !.st = NoEnt.st, !.dir = NoEnt.dir, !.cancel = NoEnt.cancel]
    BY <1>1 DEF EntType
  <2>. QED
    BY <2>1 DEF Resting
<1>4. EntsTyped(ent) /\ \A e \in Ents : ent[e].st = "none"
  BY <1>1, <1>3 DEF Init, EntsTyped
<1>5. fs \in [Fss -> FsType] /\ \A f \in Fss : fs[f].ent = None
  <2>. DEFINE r == [ent |-> None, running |-> FALSE, stat |-> FALSE, dir |-> NoEnt.dir, freed |-> FALSE]
  <2>1. r \in FsType /\ r.ent = None
    BY <1>1 DEF FsType
  <2>2. fs = [f \in Fss |-> r]
    BY DEF Init
  <2>. HIDE DEF r
  <2>. QED
    BY <2>1, <2>2
<1>6. view \in [Fss -> ViewType]
  BY <1>2 DEF Init, ViewType
<1>7. Data
  BY <1>2, <1>6 DEF Init, Data
<1>8. evq = <<>> /\ evq \in Seq(EventType) /\ fault = "none"
  BY DEF Init
<1>9. TypeOK
  BY <1>4, <1>5, <1>7, <1>8, TypeParts
<1>10. Listened(ent, fs)
  BY <1>4, <1>5 DEF Listened
<1>11. \A e \in Ents : SigOK(ent[e], evq, e)
  <2>1. \A e : Sig(evq, e) = {}
    BY <1>8 DEF Sig
  <2>. QED
    BY <1>4, <2>1 DEF SigOK
<1>. QED
  BY <1>8, <1>9, <1>10, <1>11 DEF Agreed, Good

LEMMA AgreedStep == Agreed /\ [Next]_vars => Agreed'
<1>. SUFFICES ASSUME Agreed, [Next]_vars PROVE Agreed'
  OBVIOUS
<1>1. CASE UNCHANGED vars
  BY <1>1 DEF vars, Agreed, Good, TypeOK, Live, Listened
<1>2. CASE Next
  <2>1. fault = "none" /\ Good
    BY <1>2, Stopped DEF Agreed
  <2>2. CASE fault' = "none"
    <3>1. Core' /\ Data'
      BY <1>2, <2>1, <2>2, CoreStep, DataStep
    <3>2. TypeOK'
      BY <2>2, <3>1, TypeParts DEF Core
    <3>. QED
      BY <2>2, <3>1, <3>2 DEF Core, Good, Agreed
  <2>3. CASE fault' # "none"
    <3>1. /\ UNCHANGED <<disk, now, cache, rows, ent, fs, view>>
          /\ evq' = evq \/ (evq # <<>> /\ evq' = Tail(evq))
          /\ fault' \in {"scan_that_never_ends", "nv_fs_used_after_fs_cleanup",
                         "cancel_without_an_entry", "entry_used_after_fs_demux"}
      BY <1>2, <2>1, <2>3, FaultStep
    <3>2. evq' \in Seq(EventType)
      BY <2>1, <3>1, PoppedEvent, GoodTypes
    <3>3. Data'
      BY <2>1, <3>1, GoodData DEF Data
    <3>4. EntsTyped(ent') /\ fs' \in [Fss -> FsType]
      BY <2>1, <3>1, GoodTypes
    <3>5. TypeOK'
      BY <3>1, <3>2, <3>3, <3>4, TypeParts
    <3>. QED
      BY <2>3, <3>5 DEF Agreed
  <2>. QED
    BY <2>2, <2>3
<1>. QED
  BY <1>1, <1>2

LEMMA AgreedAlways == Spec => []Agreed
<1>. QED
  BY AgreedInit, AgreedStep, PTL DEF Spec

LEMMA AgreedFacts ==
  ASSUME Agreed
  PROVE  TypeOK /\ RunningMatches /\ ListenersMatch /\ SignalsMatch
<1>1. TypeOK
  BY DEF Agreed
<1>2. ASSUME Running, NEW e \in Ents
      PROVE  SigOK(ent[e], evq, e) /\ Signalled(e) = Sig(evq, e) /\ Listened(ent, fs)
             /\ ent[e] \in EntType /\ \A d : Commits(d) = Com(evq, d)
  BY <1>2, GoodTypes DEF Running, Agreed, Good, Signalled, Sig, Commits, Com
<1>3. RunningMatches
  <2>. SUFFICES ASSUME Running, NEW e \in Ents, Live(e)
                PROVE  /\ ent[e].running <=> ent[e].req # "none" \/ Signalled(e) # {}
                       /\ Cardinality(Signalled(e)) + (IF ent[e].req = "none" THEN 0 ELSE 1) <= 1
    BY DEF RunningMatches
  <2>1. /\ ent[e].running <=> ent[e].req # "none" \/ Signalled(e) # {}
        /\ ent[e].req # "none" => Signalled(e) = {}
        /\ \A i, j \in Signalled(e) : i = j
    BY <1>2 DEF SigOK, Live
  <2>2. CASE Signalled(e) = {}
    <3>1. Cardinality(Signalled(e)) = 0
      BY <2>2, FS_EmptySet
    <3>. QED
      BY <2>1, <3>1
  <2>3. CASE Signalled(e) # {}
    <3>1. PICK i \in Signalled(e) : Signalled(e) = {i}
      BY <2>1, <2>3
    <3>2. Cardinality(Signalled(e)) = 1
      BY <3>1, FS_Singleton
    <3>. QED
      BY <2>1, <2>3, <3>2
  <2>. QED
    BY <2>2, <2>3
<1>4. ListenersMatch
  <2>. SUFFICES ASSUME Running
                PROVE  /\ \A e \in Ents : Live(e) =>
                            /\ Of(ent, ent[e].dir) = {e}
                            /\ ent[e].lis # {} /\ ent[e].lis = {f \in Fss : fs[f].ent = e}
                       /\ \A f \in Fss : fs[f].ent # None => Live(fs[f].ent)
    BY DEF ListenersMatch
  <2>1. Good
    BY DEF Agreed, Running
  <2>2. Listened(ent, fs) /\ \A e \in Ents : ent[e].lis \subseteq Fss
    BY <2>1, GoodTypes DEF Good, EntType
  <2>. QED
    BY <2>2 DEF Listened, Live, Of
<1>5. SignalsMatch
  BY <1>2 DEF SignalsMatch, SigOK, Live
<1>. QED
  BY <1>1, <1>3, <1>4, <1>5
-----------------------------------------------------------------------------
(* Listings.  Of one window that is not freed:                             *)
Lists(f) ==
  view[f].lines = "listing" =>
    /\ fs[f].ent # None /\ view[f].time = rows[ent[fs[f].ent].dir]
    /\ Com(evq, ent[fs[f].ent].dir) = {}

(* a popped event commits nothing, and signals nothing new;                *)
LEMMA PoppedQueue ==
  ASSUME Good, evq # <<>>, NEW d
  PROVE  /\ Com(evq, d) = {} => Com(Tail(evq), d) = {} /\ ~(Head(evq).kind = "commit" /\ Head(evq).dir = d)
         /\ ~(Head(evq).kind = "commit" /\ Head(evq).dir = d) /\ Com(evq, d) # {}
            => Com(Tail(evq), d) # {}
         /\ Sig(Tail(evq), d) # {} => Sig(evq, d) # {}
<1>1. evq \in Seq(EventType)
  BY GoodTypes
<1>2. /\ \A i \in Sig(Tail(evq), d) : i + 1 \in Sig(evq, d)
      /\ \A i \in Com(Tail(evq), d) : i + 1 \in Com(evq, d)
      /\ \A i \in Com(evq, d) : i = 1 \/ i - 1 \in Com(Tail(evq), d)
      /\ 1 \in Com(evq, d) <=> Head(evq).kind = "commit" /\ Head(evq).dir = d
  BY <1>1, SigTail
<1>. QED
  BY <1>2

(* the window keeps its lines, its entry and the entry its directory, and  *)
(* nothing happens to the rows;                                            *)
ListsOn(f) ==
  view'[f].lines = "listing" =>
    /\ view'[f] = view[f] /\ fs'[f].ent = fs[f].ent
    /\ LET d == ent[fs[f].ent].dir IN
       fs[f].ent # None => /\ ent'[fs[f].ent].dir = d /\ rows'[d] = rows[d]
                           /\ Com(evq, d) = {} => Com(evq', d) = {}

LEMMA ListsKept ==
  ASSUME NEW f, Lists(f), ListsOn(f)
  PROVE  Lists(f)'
BY DEF Lists, ListsOn

(* most steps are such;                                                    *)
LEMMA ListsCalm ==
  ASSUME Good, NEW f \in Fss, Lists(f), UNCHANGED <<rows, view>>, fs'[f].ent = fs[f].ent,
         \A x \in Ents : ent[x].st = "live" => ent'[x].dir = ent[x].dir,
         \A d : Com(evq, d) = {} => Com(evq', d) = {}
  PROVE  Lists(f)'
<1>1. fs[f].ent # None => fs[f].ent \in Ents /\ ent[fs[f].ent].st = "live"
  BY DEF Good, Listened
<1>2. ListsOn(f)
  BY <1>1 DEF ListsOn
<1>. QED
  BY <1>2, ListsKept

(* a scan drops the lines that list its rows;                              *)
LEMMA ListsScan ==
  ASSUME Good, NEW f \in Fss, Lists(f), NEW e \in Ents, ScanCb(e), fault' = "none"
  PROVE  Lists(f)'
<1>. DEFINE d == ent[e].dir
<1>1. /\ d \in Dirs /\ ent'[e].dir = d /\ \A x \in Ents \ {e} : ent'[x] = ent[x]
      /\ view' = Flushed(e, d) /\ rows' = [rows EXCEPT ![d] = 0]
      /\ \/ evq' = Append(evq, SignalEvent(e))
         \/ \E t \in Times \ {0} : evq' = Append(Append(evq, Event("commit", None, d, t)), SignalEvent(e))
  BY ScanCbEnt
<1>2. UNCHANGED fs
  BY DEF ScanCb, Fails
<1>3. evq \in Seq(EventType) /\ rows \in [Dirs -> Times]
  BY GoodTypes
<1>4. ASSUME NEW k, k # d PROVE Com(evq', k) = Com(evq, k)
  <2>. DEFINE v == SignalEvent(e)
  <2>1. v \in EventType /\ v.kind = "fs_signal_handle"
    BY SignalTyped
  <2>2. evq' = Append(evq, v) \/ \E t \in Times \ {0} : evq' = Append(Append(evq, Event("commit", None, d, t)), v)
    BY <1>1
  <2>. HIDE DEF v, d
  <2>3. ASSUME NEW q \in Seq(EventType) PROVE Com(Append(q, v), k) = Com(q, k)
    BY <2>1, SigAppend
  <2>4. CASE evq' = Append(evq, v)
    BY <1>3, <2>3, <2>4
  <2>5. ASSUME NEW t \in Times \ {0}, evq' = Append(Append(evq, Event("commit", None, d, t)), v)
        PROVE  Com(evq', k) = Com(evq, k)
    <3>. DEFINE c == Event("commit", None, d, t)
    <3>1. c \in EventType /\ c.dir = d
      BY <1>1, CommitTyped
    <3>2. evq' = Append(Append(evq, c), v)
      BY <2>5
    <3>. HIDE DEF c
    <3>3. Append(evq, c) \in Seq(EventType) /\ Com(Append(evq, c), k) = Com(evq, k)
      BY <1>3, <1>4, <3>1, QueueAppend, SigAppend
    <3>. QED
      BY <2>3, <3>2, <3>3
  <2>. QED
    BY <2>2, <2>4, <2>5
<1>5. view'[f].lines = "listing"
      => view'[f] = view[f] /\ ~(view[f].lines = "listing" /\ fs[f].ent # None /\ ent[fs[f].ent].dir = d)
  BY <1>1, FlushedTyped
<1>6. fs[f].ent # None => fs[f].ent \in Ents /\ ent[fs[f].ent].dir \in Dirs
  BY GoodData DEF Good, Listened
<1>. HIDE DEF d
<1>7. ListsOn(f)
  <2>. SUFFICES ASSUME view'[f].lines = "listing"
                PROVE  /\ view'[f] = view[f] /\ fs'[f].ent = fs[f].ent
                       /\ LET k == ent[fs[f].ent].dir IN
                          fs[f].ent # None => /\ ent'[fs[f].ent].dir = k /\ rows'[k] = rows[k]
                                              /\ Com(evq, k) = {} => Com(evq', k) = {}
    BY DEF ListsOn
  <2>1. view'[f] = view[f] /\ (fs[f].ent # None => ent[fs[f].ent].dir # d)
    BY <1>5
  <2>2. fs[f].ent # None => ent'[fs[f].ent].dir = ent[fs[f].ent].dir
    BY <1>1, <1>6 DEF d
  <2>3. fs[f].ent # None => rows'[ent[fs[f].ent].dir] = rows[ent[fs[f].ent].dir]
    BY <1>1, <1>3, <1>6, <2>1
  <2>. QED
    BY <1>2, <1>4, <2>1, <2>2, <2>3 DEF ListsOn
<1>. QED
  BY <1>7, ListsKept

(* a commit finds no window that lists its directory;                      *)
LEMMA ListsCommit ==
  ASSUME Good, NEW f \in Fss, Lists(f), Commit
  PROVE  Lists(f)'
<1>1. /\ evq # <<>> /\ Head(evq).kind = "commit" /\ evq' = Tail(evq)
      /\ rows' = [rows EXCEPT ![Head(evq).dir] = Head(evq).time]
      /\ UNCHANGED <<ent, fs, view>>
  BY DEF Commit, Pop
<1>2. rows \in [Dirs -> Times]
  BY GoodTypes
<1>3. \A d : Com(evq, d) = {} => Com(evq', d) = {} /\ d # Head(evq).dir
  BY <1>1, PoppedQueue
<1>4. fs[f].ent # None => ent[fs[f].ent].dir \in Dirs
  BY GoodData DEF Good, Listened
<1>. QED
  BY <1>1, <1>2, <1>3, <1>4 DEF Lists

(* fs_signal_handle drops the lines of rows it deletes, and has a window   *)
(* list the rows there are;                                                *)
LEMMA ListsSignal ==
  ASSUME Good, NEW f \in Fms, Lists(f), NEW e, NEW S, SignalFrame(e, S), SignalData(e)
  PROVE  Lists(f)'
<1>. DEFINE d == ent[e].dir
            w == IF ent[e].cancel THEN Flushed(e, d) ELSE view
<1>1. /\ evq # <<>> /\ Head(evq).kind = "fs_signal_handle" /\ Head(evq).of = e
      /\ evq' = Tail(evq) /\ S \subseteq Menus /\ ent' = Demux(Idle(ent, e), S, e)
      /\ fs' = [g \in Fss |-> IF g \in S THEN [fs[g] EXCEPT !.ent = None] ELSE fs[g]]
  BY DEF SignalFrame
<1>2. /\ ent[e].st # "freed" /\ view' = Recv(w, rows', e)
      /\ rows' = (IF ent[e].cancel THEN [rows EXCEPT ![d] = 0] ELSE rows)
  BY DEF SignalData
<1>3. /\ e \in Ents
      /\ \/ ent[e].st = "closing" /\ S = {}
         \/ ent[e].st = "live" /\ Com(Tail(evq), d) = {}
  BY <1>2, SignalState
<1>4. f \in Fss /\ f \notin S /\ fs'[f] = fs[f]
  BY <1>1 DEF Fms
<1>5. /\ view \in [Fss -> ViewType] /\ rows \in [Dirs -> Times] /\ d \in Dirs /\ 0 \in Times
      /\ \A x \in Ents : ent[x].dir \in Dirs
  BY <1>3, GoodData DEF Data
<1>6. \A x \in Ents : ent'[x].dir = ent[x].dir
  <2>1. /\ EntsTyped(Idle(ent, e)) /\ Idle(ent, e)[e].st = ent[e].st
        /\ \A x \in Ents : Idle(ent, e)[x].dir = ent[x].dir
    BY <1>3, IdleEnt
  <2>. DEFINE E == Idle(ent, e)
  <2>. HIDE DEF E
  <2>2. EntsTyped(E) /\ E[e].st = ent[e].st /\ \A x \in Ents : E[x].dir = ent[x].dir
    BY <2>1 DEF E
  <2>3. ent' = Demux(E, S, e)
    BY <1>1 DEF E
  <2>4. CASE S = {}
    BY <2>2, <2>3, <2>4 DEF Demux
  <2>5. CASE S # {}
    <3>1. E[e].st = "live"
      BY <1>3, <2>2, <2>5
    <3>2. LET D == Demux(E, S, e) IN
          /\ EntsTyped(D)
          /\ \A x \in Ents \ {e} : D[x] = E[x]
          /\ D[e].dir = E[e].dir /\ (D[e].cancel <=> E[e].cancel)
          /\ \/ D[e].st = "closing" /\ E[e].lis \ S = {}
             \/ D[e] = [E[e] EXCEPT !.lis = E[e].lis \ S] /\ E[e].lis \ S # {}
      BY <1>3, <2>2, <2>5, <3>1, DemuxFacts
    <3>. QED
      BY <2>2, <2>3, <3>2
  <2>. QED
    BY <2>4, <2>5
<1>7. /\ w \in [Fss -> ViewType] /\ rows' \in [Dirs -> Times]
      /\ \/ w[f] = view[f] /\ rows' = rows
         \/ w[f].lines # "listing"
         \/ /\ w[f] = view[f] /\ rows' = [rows EXCEPT ![d] = 0]
            /\ ~(view[f].lines = "listing" /\ fs[f].ent # None /\ ent[fs[f].ent].dir = d)
  <2>1. CASE ent[e].cancel
    <3>1. w = Flushed(e, d) /\ rows' = [rows EXCEPT ![d] = 0]
      BY <1>2, <2>1
    <3>2. /\ Flushed(e, d) \in [Fss -> ViewType]
          /\ \/ Flushed(e, d)[f].lines # "listing"
             \/ /\ Flushed(e, d)[f] = view[f]
                /\ ~(view[f].lines = "listing" /\ fs[f].ent # None /\ ent[fs[f].ent].dir = d)
      BY <1>4, FlushedTyped
    <3>. QED
      BY <1>5, <3>1, <3>2
  <2>2. CASE ~ent[e].cancel
    BY <1>2, <1>5, <2>2
  <2>. QED
    BY <2>1, <2>2
<1>. HIDE DEF w
<1>8. \/ view'[f] = w[f]
      \/ /\ f \in ent[e].lis
         /\ view'[f].lines = "listing" => view'[f].time = rows'[d]
  BY <1>2, <1>3, <1>4, <1>7, RecvTyped
<1>. HIDE DEF d
<1>9. \A k : Com(evq, k) = {} => Com(evq', k) = {}
  BY <1>1, PoppedQueue
<1>10. fs[f].ent # None => fs[f].ent \in Ents /\ ent[fs[f].ent].st = "live"
  BY <1>4 DEF Good, Listened
<1>11. CASE view'[f] = w[f]
  <2>1. ListsOn(f)
    <3>. SUFFICES ASSUME view'[f].lines = "listing"
                  PROVE  /\ view'[f] = view[f] /\ fs'[f].ent = fs[f].ent
                         /\ LET k == ent[fs[f].ent].dir IN
                            fs[f].ent # None => /\ ent'[fs[f].ent].dir = k /\ rows'[k] = rows[k]
                                                /\ Com(evq, k) = {} => Com(evq', k) = {}
      BY DEF ListsOn
    <3>1. w[f].lines = "listing" /\ w[f] = view[f] /\ view'[f] = view[f]
      BY <1>7, <1>11
    <3>2. fs[f].ent # None => rows'[ent[fs[f].ent].dir] = rows[ent[fs[f].ent].dir]
      BY <1>5, <1>7, <1>10, <3>1
    <3>. QED
      BY <1>4, <1>6, <1>9, <1>10, <3>1, <3>2 DEF ListsOn
  <2>. QED
    BY <2>1, ListsKept
<1>12. CASE f \in ent[e].lis /\ (view'[f].lines = "listing" => view'[f].time = rows'[d])
  <2>1. ent[e].st = "live"
    <3>1. CASE ent[e].st = "closing"
      <4>1. ent[e].lis = {}
        BY <1>3, <3>1, GoodTypes, RestingFacts
      <4>. QED
        BY <1>12, <4>1
    <3>. QED
      BY <1>3, <3>1
  <2>2. fs[f].ent = e /\ e # None
    BY <1>3, <1>4, <1>12, <2>1 DEF Good, Listened, Ents, None
  <2>3. Com(evq', d) = {}
    BY <1>1, <1>3, <2>1
  <2>. QED
    BY <1>3, <1>4, <1>6, <1>12, <2>2, <2>3 DEF Lists, d
<1>. QED
  BY <1>8, <1>11, <1>12
(* fm_ch_dir empties the lines of the window it moves;                     *)
LEMMA ListsChDir ==
  ASSUME Good, NEW f \in Fms, Lists(f), ChDir, fault' = "none"
  PROVE  Lists(f)'
<1>. DEFINE g == Head(evq).of
            d == Head(evq).dir
            E == Demux(ent, {g}, fs[g].ent)
            G == [fs EXCEPT ![g].ent = None]
<1>1. evq # <<>> /\ Head(evq).kind = "stat_cb" /\ evq' = Tail(evq) /\ UNCHANGED rows
  BY DEF ChDir, Pop
<1>2. g \in Fss /\ d \in Dirs /\ f \in Fss /\ view \in [Fss -> ViewType] /\ fs \in [Fss -> FsType]
  BY <1>1, PoppedEvent, GoodData, GoodTypes DEF Data, Fms
<1>3. Leaves(E, g) /\ G[g].ent = None /\ \A h \in Fss \ {g} : G[h].ent = fs[h].ent
  BY <1>1, <1>2, PopLeaves
<1>4. \/ /\ MayOpen(E, d) /\ ent' = Open(E, g, d)
         /\ fs' = [fs EXCEPT ![g].ent = MuxEnt(E, d)]
         /\ view' = [view EXCEPT ![g] = [lines |-> "blocking", time |-> 0]]
      \/ ent' = E /\ fs' = G /\ g \in Menus /\ UNCHANGED view
      \/ UNCHANGED <<ent, fs, view>>
  BY DEF ChDir
<1>5. \A k : Com(evq, k) = {} => Com(evq', k) = {}
  BY <1>1, PoppedQueue
<1>6. CASE /\ MayOpen(E, d) /\ ent' = Open(E, g, d)
           /\ fs' = [fs EXCEPT ![g].ent = MuxEnt(E, d)]
           /\ view' = [view EXCEPT ![g] = [lines |-> "blocking", time |-> 0]]
  <2>. DEFINE e == MuxEnt(E, d)
  <2>. HIDE DEF E, G, g, d
  <2>1. EntsTyped(E)
    BY <1>3 DEF Leaves
  <2>2. /\ EntsTyped(ent') /\ e \in Ents
        /\ \/ E[e].st = "live" /\ E[e].dir = d
           \/ E[e].st = "none" /\ \A x \in Ents : ~(E[x].st = "live" /\ E[x].dir = d)
        /\ \A x \in Ents \ {e} : ent'[x] = E[x]
        /\ ent'[e].st = "live" /\ ent'[e].dir = d
    BY <1>2, <1>6, <2>1, OpenFacts
  <2>. HIDE DEF e
  <2>3. ASSUME NEW x \in Ents, ent[x].st = "live" PROVE ent'[x].dir = ent[x].dir
    <3>1. E[x].dir = ent[x].dir /\ E[x].st # "none"
      BY <1>3, <2>3 DEF Leaves
    <3>. QED
      BY <2>2, <3>1
  <2>4. CASE f = g
    <3>1. view'[f].lines = "blocking"
      BY <1>2, <1>6, <2>4
    <3>. QED
      BY <3>1 DEF Lists
  <2>5. CASE f # g
    <3>1. view'[f] = view[f] /\ fs'[f].ent = fs[f].ent
      BY <1>2, <1>6, <2>5
    <3>2. fs[f].ent # None => fs[f].ent \in Ents /\ ent[fs[f].ent].st = "live"
      BY <1>2 DEF Good, Listened
    <3>3. ListsOn(f)
      BY <1>1, <1>5, <2>3, <3>1, <3>2 DEF ListsOn
    <3>. QED
      BY <3>3, ListsKept
  <2>. QED
    BY <2>4, <2>5
<1>7. CASE ent' = E /\ fs' = G /\ g \in Menus /\ UNCHANGED view
  <2>1. fs'[f].ent = fs[f].ent
    BY <1>2, <1>3, <1>7 DEF Fms
  <2>2. \A x \in Ents : ent'[x].dir = ent[x].dir
    BY <1>3, <1>7 DEF Leaves
  <2>. QED
    BY <1>1, <1>2, <1>5, <1>7, <2>1, <2>2, ListsCalm
<1>8. CASE UNCHANGED <<ent, fs, view>>
  BY <1>1, <1>2, <1>5, <1>8, ListsCalm
<1>. QED
  BY <1>4, <1>6, <1>7, <1>8

(* and nothing else touches rows or lines.                                 *)
LEMMA ListsStep ==
  ASSUME Good, Next, fault' = "none", NEW f \in Fms, ~fs'[f].freed, ~fs[f].freed => Lists(f)
  PROVE  Lists(f)'
<1>1. f \in Fss /\ fs \in [Fss -> FsType]
  BY GoodTypes DEF Fms
<1>2. ~fs[f].freed
  BY <1>1 DEF Next, Callback, Handle, User, ThreadPool, StatCb, ScanCb, DelEnt, WatchCb,
       WatchTimerCb, StatReadCb, Commit, FsSignalHandle, ChDir, StatCleanup, Pop, Reload, FsRead,
       FsCancel, FmDelete, Tick, Change, Fails, FsType
<1>3. Lists(f)
  BY <1>2
<1>4. ASSUME UNCHANGED <<rows, view>>, UNCHANGED fs[f].ent,
             \A x \in Ents : ent[x].st = "live" => ent'[x].dir = ent[x].dir,
             \A d : Com(evq, d) = {} => Com(evq', d) = {}
      PROVE  Lists(f)'
  BY <1>1, <1>3, <1>4, ListsCalm
<1>5. ASSUME NEW e \in Ents, Callback(e) PROVE Lists(f)'
  <2>1. CASE ThreadPool(e)
    <3>1. \A x \in Ents : ent'[x].dir = ent[x].dir
      BY <2>1, ThreadPoolEnt DEF Alike
    <3>. QED
      BY <1>4, <2>1, <3>1 DEF ThreadPool
  <2>2. CASE StatCb(e)
    <3>1. /\ \A x \in Ents : ent'[x].dir = ent[x].dir
          /\ evq' = evq \/ evq' = Append(evq, SignalEvent(e))
      BY <2>2, StatCbEnt
    <3>2. \A d : Com(evq, d) = {} => Com(evq', d) = {}
      <4>. DEFINE v == SignalEvent(e)
      <4>1. /\ v \in EventType /\ v.kind = "fs_signal_handle" /\ evq \in Seq(EventType)
            /\ evq' = evq \/ evq' = Append(evq, v)
        BY <3>1, SignalTyped, GoodTypes
      <4>. HIDE DEF v
      <4>2. \A d : Com(Append(evq, v), d) = Com(evq, d)
        BY <4>1, SigAppend
      <4>. QED
        BY <4>1, <4>2
    <3>. QED
      BY <1>4, <2>2, <3>1, <3>2 DEF StatCb
  <2>3. CASE ScanCb(e)
    BY <1>1, <1>3, <2>3, ListsScan
  <2>4. CASE DelEnt(e)
    <3>1. \A x \in Ents : ent[x].st = "live" => ent'[x].dir = ent[x].dir
      BY <2>4, DelEntEnt
    <3>. QED
      BY <1>4, <2>4, <3>1 DEF DelEnt
  <2>5. ASSUME ent' = Noticed(ent, e) \/ ent' = Reopen(ent, e), ent[e].st = "live"
        PROVE  \A x \in Ents : ent'[x].dir = ent[x].dir
    <3>1. CASE ent' = Noticed(ent, e)
      BY <2>5, <3>1, NoticedEnt DEF Alike
    <3>2. CASE ent' = Reopen(ent, e)
      BY <2>5, <3>2, ReopenFacts, GoodTypes
    <3>. QED
      BY <2>5, <3>1, <3>2
  <2>6. CASE WatchCb(e) \/ WatchTimerCb(e)
    <3>1. \A x \in Ents : ent'[x].dir = ent[x].dir
      BY <2>5, <2>6 DEF WatchCb, WatchTimerCb, Live
    <3>. QED
      BY <1>4, <2>6, <3>1 DEF WatchCb, WatchTimerCb
  <2>. QED
    BY <1>5, <2>1, <2>2, <2>3, <2>4, <2>6 DEF Callback
<1>6. ASSUME NEW g \in Fss, StatReadCb(g) PROVE Lists(f)'
  <2>1. /\ \A d : Com(evq', d) = Com(evq, d)
        /\ fs' = [fs EXCEPT ![g].stat = FALSE, ![g].dir = NoEnt.dir]
        /\ UNCHANGED <<rows, view, ent>>
    BY <1>6, StatReadCbCore DEF StatReadCb, Fails
  <2>2. fs'[f].ent = fs[f].ent
    BY <1>1, <2>1 DEF FsType
  <2>. QED
    BY <1>4, <2>1, <2>2
<1>7. CASE Commit
  BY <1>1, <1>3, <1>7, ListsCommit
<1>8. CASE FsSignalHandle
  BY <1>3, <1>8, SignalDatas, ListsSignal
<1>9. CASE ChDir
  BY <1>3, <1>9, ListsChDir
<1>10. CASE StatCleanup
  <2>1. /\ evq # <<>> /\ evq' = Tail(evq) /\ UNCHANGED <<rows, view, ent>>
        /\ fs' = [fs EXCEPT ![Head(evq).of].running = FALSE]
    BY <1>10 DEF StatCleanup, Pop
  <2>2. \A d : Com(evq, d) = {} => Com(evq', d) = {}
    BY <2>1, PoppedQueue
  <2>3. fs'[f].ent = fs[f].ent
    BY <1>1, <2>1 DEF FsType
  <2>. QED
    BY <1>4, <2>1, <2>2, <2>3
<1>11. ASSUME NEW d \in Dirs, Reload(d) \/ Change(d) PROVE Lists(f)'
  <2>1. \A x \in Ents : ent'[x].dir = ent[x].dir
    BY <1>11, ReloadEnt, ChangeEnt DEF Slight, Alike
  <2>. QED
    BY <1>4, <1>11, <2>1 DEF Reload, Change
<1>12. ASSUME NEW g \in Fss, NEW d \in Dirs, FsRead(g, d) PROVE Lists(f)'
  <2>1. /\ fs' = [fs EXCEPT ![g].running = TRUE, ![g].stat = TRUE, ![g].dir = d]
        /\ UNCHANGED <<rows, view, ent, evq>>
    BY <1>12 DEF FsRead
  <2>2. fs'[f].ent = fs[f].ent
    BY <1>1, <2>1 DEF FsType
  <2>. QED
    BY <1>4, <2>1, <2>2
<1>13. ASSUME NEW g \in Fss, FsCancel(g) PROVE Lists(f)'
  <2>1. \A x \in Ents : ent'[x].dir = ent[x].dir
    BY <1>13, FsCancelEnt DEF Alike
  <2>. QED
    BY <1>4, <1>13, <2>1 DEF FsCancel
<1>14. ASSUME NEW g \in Fss, FmDelete(g) PROVE Lists(f)'
  <2>1. /\ fs' = [fs EXCEPT ![g].freed = TRUE, ![g].ent = None] /\ UNCHANGED <<rows, view, evq>>
        /\ ent' = Demux(ent, {g}, fs[g].ent)
    BY <1>14 DEF FmDelete
  <2>2. f # g
    BY <1>1, <2>1 DEF FsType
  <2>5. Leaves(ent', g)
    BY <1>14, FmDeleteLeaves
  <2>6. fs'[f].ent = fs[f].ent
    BY <1>1, <2>1, <2>2
  <2>. QED
    BY <1>4, <2>1, <2>5, <2>6 DEF Leaves
<1>15. CASE Tick
  BY <1>4, <1>15 DEF Tick
<1>. QED
  BY <1>5, <1>6, <1>7, <1>8, <1>9, <1>10, <1>11, <1>12, <1>13, <1>14, <1>15
     DEF Next, Handle, User

LEMMA ViewsInit == Init => ViewsMatch
BY DEF Init, ViewsMatch, Fms

LEMMA ViewsStep == Agreed /\ ViewsMatch /\ [Next]_vars => ViewsMatch'
<1>. SUFFICES ASSUME Agreed, ViewsMatch, [Next]_vars PROVE ViewsMatch'
  OBVIOUS
<1>1. CASE UNCHANGED vars
  BY <1>1 DEF vars, ViewsMatch, Running, Commits
<1>2. CASE Next
  <2>1. fault = "none" /\ Good
    BY <1>2, Stopped DEF Agreed
  <2>2. CASE fault' = "none"
    <3>1. \A f \in Fms : ~fs[f].freed => Lists(f)
      BY <2>1 DEF ViewsMatch, Lists, Running, Commits, Com
    <3>2. \A f \in Fms : ~fs'[f].freed => Lists(f)'
      BY <1>2, <2>1, <2>2, <3>1, ListsStep
    <3>. QED
      BY <3>2 DEF ViewsMatch, Lists, Commits, Com
  <2>3. CASE fault' # "none"
    <3>1. UNCHANGED <<disk, now, cache, rows, ent, fs, view>>
      BY <1>2, <2>1, <2>3, FaultStep
    <3>. QED
      BY <2>3, <3>1 DEF ViewsMatch, Running
  <2>. QED
    BY <2>2, <2>3
<1>. QED
  BY <1>1, <1>2
-----------------------------------------------------------------------------
(* Watches.                                                                *)
Watched(x) == x.st = "live" => x.watch \/ x.timer

(* The user opens a directory or leaves one: a directory that is there is  *)
(* watched.                                                                *)
LEMMA WatchChDir ==
  ASSUME Good, ChDir, \A d \in Dirs : disk[d] # 0, \A x \in Ents : Watched(ent[x])
  PROVE  \A x \in Ents : Watched(ent'[x])
<1>. DEFINE g == Head(evq).of
            d == Head(evq).dir
            E == Demux(ent, {g}, fs[g].ent)
<1>1. evq # <<>> /\ Head(evq).kind = "stat_cb"
  BY DEF ChDir, Pop
<1>2. g \in Fss /\ d \in Dirs
  BY <1>1, PoppedEvent
<1>3. Leaves(E, g)
  BY <1>1, <1>2, PopLeaves
<1>4. \/ MayOpen(E, d) /\ ent' = Open(E, g, d)
      \/ ent' = E
      \/ ent' = ent
  BY DEF ChDir
<1>. HIDE DEF E, g, d
<1>5. EntsTyped(E) /\ \A x \in Ents : Watched(E[x])
  BY <1>3 DEF Leaves, Watched
<1>6. CASE MayOpen(E, d) /\ ent' = Open(E, g, d)
  <2>. DEFINE e == MuxEnt(E, d)
  <2>1. /\ e \in Ents
        /\ \/ E[e].st = "live" /\ E[e].dir = d
           \/ E[e].st = "none" /\ \A x \in Ents : ~(E[x].st = "live" /\ E[x].dir = d)
        /\ \A x \in Ents \ {e} : ent'[x] = E[x]
        /\ \/ /\ E[e].running
              /\ (ent'[e].watch <=> E[e].watch) /\ (ent'[e].timer <=> E[e].timer)
           \/ /\ ~E[e].running
              /\ ent'[e].watch <=> (E[e].watch \/ disk[d] # 0)
    BY <1>2, <1>5, <1>6, OpenFacts
  <2>. HIDE DEF e
  <2>2. E[e].running => E[e].st = "live"
    BY <1>5, <2>1, RestingFacts DEF EntsTyped
  <2>3. Watched(ent'[e])
    BY <1>2, <1>5, <2>1, <2>2 DEF Watched
  <2>. QED
    BY <1>5, <2>1, <2>3
<1>. QED
  BY <1>4, <1>5, <1>6

LEMMA WatchSignal ==
  ASSUME Good, NEW e, NEW S, SignalFrame(e, S), ent[e].st # "freed",
         \A x \in Ents : Watched(ent[x])
  PROVE  \A x \in Ents : Watched(ent'[x])
<1>. DEFINE E == Idle(ent, e)
<1>1. ent' = Demux(E, S, e)
  BY DEF SignalFrame
<1>2. /\ e \in Ents /\ ((ent[e].st = "closing" /\ S = {}) \/ ent[e].st = "live")
  BY SignalState
<1>3. /\ EntsTyped(E) /\ \A x \in Ents \ {e} : E[x] = ent[x]
      /\ E[e].st = ent[e].st
      /\ (E[e].watch <=> ent[e].watch) /\ (E[e].timer <=> ent[e].timer)
  BY <1>2, IdleEnt
<1>. HIDE DEF E
<1>4. \A x \in Ents : Watched(E[x])
  BY <1>3 DEF Watched
<1>5. CASE S = {}
  BY <1>1, <1>4, <1>5 DEF Demux
<1>6. CASE S # {}
  <2>1. E[e].st = "live" /\ E[e] \in EntType
    BY <1>2, <1>3, <1>6 DEF EntsTyped
  <2>2. LET D == Demux(E, S, e) IN
        /\ EntsTyped(D)
        /\ \A x \in Ents \ {e} : D[x] = E[x]
        /\ D[e].dir = E[e].dir /\ (D[e].cancel <=> E[e].cancel)
        /\ \/ D[e].st = "closing" /\ E[e].lis \ S = {}
           \/ D[e] = [E[e] EXCEPT !.lis = E[e].lis \ S] /\ E[e].lis \ S # {}
    BY <1>2, <1>3, <1>6, <2>1, DemuxFacts
  <2>3. Watched(ent'[e])
    BY <1>1, <1>2, <1>4, <2>1, <2>2 DEF Watched, EntType
  <2>. QED
    BY <1>1, <1>4, <2>2, <2>3
<1>. QED
  BY <1>5, <1>6

(* No step leaves an entry blind.                                          *)
LEMMA WatchStep ==
  ASSUME Good, Next, fault' = "none", ~MayVanish, \A d \in Dirs : disk[d] # 0,
         \A x \in Ents : Watched(ent[x])
  PROVE  (\A d \in Dirs : disk'[d] # 0) /\ \A x \in Ents : Watched(ent'[x])
<1>1. ASSUME NEW e \in Ents, Callback(e)
      PROVE  UNCHANGED disk /\ \A x \in Ents : Watched(ent'[x])
  <2>1. CASE ThreadPool(e)
    <3>1. /\ \A x \in Ents \ {e} : ent'[x] = ent[x]
          /\ ent[e].st = "live"
          /\ (ent'[e].watch <=> ent[e].watch) /\ (ent'[e].timer <=> ent[e].timer)
      BY <2>1, ThreadPoolEnt
    <3>. QED
      BY <2>1, <3>1 DEF Watched, ThreadPool
  <2>2. CASE StatCb(e)
    <3>1. /\ \A x \in Ents \ {e} : ent'[x] = ent[x]
          /\ ent[e].st = "live"
          /\ (ent'[e].watch <=> ent[e].watch) /\ (ent'[e].timer <=> ent[e].timer)
      BY <2>2, StatCbEnt
    <3>. QED
      BY <2>2, <3>1 DEF Watched, StatCb
  <2>3. CASE ScanCb(e)
    <3>1. /\ \A x \in Ents \ {e} : ent'[x] = ent[x]
          /\ ent[e].st = "live"
          /\ (ent'[e].watch <=> ent[e].watch) /\ (ent'[e].timer <=> ent[e].timer)
      BY <2>3, ScanCbEnt
    <3>. QED
      BY <2>3, <3>1 DEF Watched, ScanCb, Fails
  <2>4. CASE DelEnt(e)
    <3>1. (\A x \in Ents \ {e} : ent'[x] = ent[x]) /\ ent'[e].st # "live"
      BY <2>4, DelEntEnt
    <3>. QED
      BY <2>4, <3>1 DEF Watched, DelEnt
  <2>5. CASE WatchCb(e) \/ WatchTimerCb(e)
    <3>1. /\ UNCHANGED disk /\ ent[e].st = "live" /\ ent[e].dir \in Dirs
          /\ ent' = Noticed(ent, e) \/ ent' = Reopen(ent, e)
      BY <2>5, GoodData DEF WatchCb, WatchTimerCb, Live
    <3>2. CASE ent' = Noticed(ent, e)
      <4>1. (\A x \in Ents \ {e} : ent'[x] = ent[x]) /\ ent'[e].timer
        BY <3>1, <3>2, NoticedEnt
      <4>. QED
        BY <3>1, <4>1 DEF Watched
    <3>3. CASE ent' = Reopen(ent, e)
      <4>1. (\A x \in Ents \ {e} : ent'[x] = ent[x]) /\ (ent'[e].watch <=> disk[ent[e].dir] # 0)
        BY <3>1, <3>3, ReopenFacts, GoodTypes
      <4>. QED
        BY <3>1, <4>1 DEF Watched
    <3>. QED
      BY <3>1, <3>2, <3>3
  <2>. QED
    BY <1>1, <2>1, <2>2, <2>3, <2>4, <2>5 DEF Callback
<1>2. ASSUME NEW f \in Fss, StatReadCb(f) PROVE UNCHANGED <<disk, ent>>
  BY <1>2 DEF StatReadCb, Fails
<1>3. CASE Commit \/ StatCleanup
  BY <1>3 DEF Commit, StatCleanup
<1>4. CASE FsSignalHandle
  <2>1. SignalData(Head(evq).of) /\ \E S : SignalFrame(Head(evq).of, S)
    BY <1>4, SignalDatas
  <2>2. UNCHANGED disk /\ ent[Head(evq).of].st # "freed"
    BY <2>1 DEF SignalData
  <2>. QED
    BY <2>1, <2>2, WatchSignal
<1>5. CASE ChDir
  <2>1. UNCHANGED disk
    BY <1>5 DEF ChDir
  <2>. QED
    BY <1>5, <2>1, WatchChDir
<1>6. ASSUME NEW d \in Dirs, Reload(d)
      PROVE  UNCHANGED disk /\ \A x \in Ents : Watched(ent'[x])
  <2>1. \A x \in Ents : Slight(ent'[x], ent[x])
    BY <1>6, ReloadEnt
  <2>. QED
    BY <1>6, <2>1 DEF Reload, Slight, Alike, Watched
<1>7. ASSUME NEW f \in Fss, NEW d \in Dirs, FsRead(f, d) PROVE UNCHANGED <<disk, ent>>
  BY <1>7 DEF FsRead
<1>8. ASSUME NEW f \in Fss, FsCancel(f)
      PROVE  UNCHANGED disk /\ \A x \in Ents : Watched(ent'[x])
  <2>1. /\ \A x \in Ents : Alike(ent'[x], ent[x])
        /\ \A x \in Ents : (ent'[x].watch <=> ent[x].watch) /\ (ent'[x].timer <=> ent[x].timer)
    BY <1>8, FsCancelEnt
  <2>. QED
    BY <1>8, <2>1 DEF FsCancel, Alike, Watched
<1>9. ASSUME NEW f \in Fss, FmDelete(f)
      PROVE  UNCHANGED disk /\ \A x \in Ents : Watched(ent'[x])
  <2>1. Leaves(ent', f) /\ UNCHANGED disk
    BY <1>9, FmDeleteLeaves DEF FmDelete
  <2>. QED
    BY <2>1 DEF Leaves, Watched
<1>10. CASE Tick
  BY <1>10 DEF Tick
<1>11. ASSUME NEW d \in Dirs, Change(d)
       PROVE  (\A k \in Dirs : disk'[k] # 0) /\ \A x \in Ents : Watched(ent'[x])
  <2>1. \A x \in Ents : Slight(ent'[x], ent[x])
    BY <1>11, ChangeEnt
  <2>2. disk' = [disk EXCEPT ![d] = now] /\ now # 0 /\ disk \in [Dirs -> Times]
    BY <1>11, GoodData DEF Change, Data
  <2>. QED
    BY <2>1, <2>2 DEF Slight, Alike, Watched
<1>. QED
  BY <1>1, <1>2, <1>3, <1>4, <1>5, <1>6, <1>7, <1>8, <1>9, <1>10, <1>11
     DEF Next, Handle, User

LEMMA WatchInit == Init => WatchMatch
<1>1. NoEnt.st = "none"
  BY DEF NoEnt
<1>. QED
  BY <1>1 DEF Init, WatchMatch, Live

LEMMA WatchMatchStep == Agreed /\ WatchMatch /\ [Next]_vars => WatchMatch'
<1>. SUFFICES ASSUME Agreed, WatchMatch, [Next]_vars, ~MayVanish PROVE WatchMatch'
  BY DEF WatchMatch
<1>1. CASE UNCHANGED vars
  BY <1>1 DEF vars, WatchMatch, Live
<1>2. CASE Next
  <2>1. fault = "none" /\ Good
    BY <1>2, Stopped DEF Agreed
  <2>2. CASE fault' = "none"
    <3>1. (\A d \in Dirs : disk[d] # 0) /\ \A x \in Ents : Watched(ent[x])
      BY DEF WatchMatch, Watched, Live
    <3>2. (\A d \in Dirs : disk'[d] # 0) /\ \A x \in Ents : Watched(ent'[x])
      BY <1>2, <2>1, <2>2, <3>1, WatchStep
    <3>. QED
      BY <3>2 DEF WatchMatch, Watched, Live
  <2>3. CASE fault' # "none"
    <3>1. UNCHANGED <<disk, ent>>
      BY <1>2, <2>1, <2>3, FaultStep
    <3>. QED
      BY <3>1 DEF WatchMatch, Live
  <2>. QED
    BY <2>2, <2>3
<1>. QED
  BY <1>1, <1>2
-----------------------------------------------------------------------------
(* Rows, where nobody cancels and directories stay: no entry is cancelled  *)
(* and no stat fails;                                                      *)
Known(x) == ~x.cancel /\ (x.req = "statted" => x.ctime # 0)

LEMMA KnownChDir ==
  ASSUME Good, ChDir, \A x \in Ents : Known(ent[x])
  PROVE  \A x \in Ents : Known(ent'[x])
<1>. DEFINE g == Head(evq).of
            d == Head(evq).dir
            E == Demux(ent, {g}, fs[g].ent)
<1>1. evq # <<>> /\ Head(evq).kind = "stat_cb"
  BY DEF ChDir, Pop
<1>2. g \in Fss /\ d \in Dirs
  BY <1>1, PoppedEvent
<1>3. Leaves(E, g)
  BY <1>1, <1>2, PopLeaves
<1>4. \/ MayOpen(E, d) /\ ent' = Open(E, g, d)
      \/ ent' = E
      \/ ent' = ent
  BY DEF ChDir
<1>. HIDE DEF E, g, d
<1>5. EntsTyped(E) /\ \A x \in Ents : Known(E[x])
  <2>1. \A x \in Ents : E[x].st # "live" => E[x].req = "none"
    BY <1>3, RestingFacts DEF Leaves, EntsTyped
  <2>. QED
    BY <1>3, <2>1 DEF Leaves, Known
<1>6. CASE MayOpen(E, d) /\ ent' = Open(E, g, d)
  <2>. DEFINE e == MuxEnt(E, d)
  <2>1. /\ e \in Ents
        /\ \A x \in Ents \ {e} : ent'[x] = E[x]
        /\ ent'[e].cancel <=> E[e].cancel
        /\ \/ ent'[e].req = E[e].req /\ ent'[e].ctime = E[e].ctime
           \/ ent'[e].req = "stat"
    BY <1>2, <1>5, <1>6, OpenFacts
  <2>. HIDE DEF e
  <2>2. Known(ent'[e])
    BY <1>5, <2>1 DEF Known
  <2>. QED
    BY <1>5, <2>1, <2>2
<1>. QED
  BY <1>4, <1>5, <1>6

LEMMA KnownSignal ==
  ASSUME Good, NEW e, NEW S, SignalFrame(e, S), ent[e].st # "freed",
         \A x \in Ents : Known(ent[x])
  PROVE  \A x \in Ents : Known(ent'[x])
<1>. DEFINE E == Idle(ent, e)
<1>1. ent' = Demux(E, S, e)
  BY DEF SignalFrame
<1>2. /\ e \in Ents /\ ((ent[e].st = "closing" /\ S = {}) \/ ent[e].st = "live")
  BY SignalState
<1>3. /\ EntsTyped(E) /\ \A x \in Ents \ {e} : E[x] = ent[x]
      /\ E[e].st = ent[e].st /\ (E[e].cancel <=> ent[e].cancel)
      /\ E[e].req = ent[e].req /\ E[e].ctime = ent[e].ctime
  BY <1>2, IdleEnt
<1>. HIDE DEF E
<1>4. \A x \in Ents : Known(E[x])
  BY <1>3 DEF Known
<1>5. CASE S = {}
  BY <1>1, <1>4, <1>5 DEF Demux
<1>6. CASE S # {}
  <2>1. E[e].st = "live" /\ E[e] \in EntType
    BY <1>2, <1>3, <1>6 DEF EntsTyped
  <2>2. LET D == Demux(E, S, e) IN
        /\ EntsTyped(D)
        /\ \A x \in Ents \ {e} : D[x] = E[x]
        /\ D[e].dir = E[e].dir /\ (D[e].cancel <=> E[e].cancel)
        /\ \/ D[e].st = "closing" /\ E[e].lis \ S = {}
           \/ D[e] = [E[e] EXCEPT !.lis = E[e].lis \ S] /\ E[e].lis \ S # {}
    BY <1>2, <1>3, <1>6, <2>1, DemuxFacts
  <2>3. ent'[e].st = "closing" => ent'[e].req = "none"
    BY <1>1, <1>2, <2>2, RestingFacts DEF EntsTyped
  <2>4. Known(ent'[e])
    BY <1>1, <1>2, <1>4, <2>1, <2>2, <2>3 DEF Known, EntType
  <2>. QED
    BY <1>1, <1>4, <2>2, <2>4
<1>. QED
  BY <1>5, <1>6

LEMMA KnownStep ==
  ASSUME Good, Next, fault' = "none", ~MayCancel, \A d \in Dirs : disk[d] # 0,
         \A x \in Ents : Known(ent[x])
  PROVE  \A x \in Ents : Known(ent'[x])
<1>1. ASSUME NEW e \in Ents, Callback(e) PROVE \A x \in Ents : Known(ent'[x])
  <2>1. CASE ThreadPool(e)
    <3>1. /\ \A x \in Ents \ {e} : ent'[x] = ent[x]
          /\ (ent'[e].cancel <=> ent[e].cancel) /\ ent[e].dir \in Dirs
          /\ ent'[e].req = "statted" => ent'[e].ctime = disk[ent[e].dir]
      BY <2>1, ThreadPoolEnt, GoodData
    <3>. QED
      BY <3>1 DEF Known
  <2>2. CASE StatCb(e)
    <3>1. /\ \A x \in Ents \ {e} : ent'[x] = ent[x]
          /\ ent[e].req = "statted" /\ ent'[e].req # "statted"
          /\ ent'[e].cancel => ent[e].cancel \/ ent[e].ctime = 0
      BY <2>2, StatCbEnt
    <3>. QED
      BY <3>1 DEF Known
  <2>3. CASE ScanCb(e)
    <3>1. /\ \A x \in Ents \ {e} : ent'[x] = ent[x]
          /\ ent'[e].req = "none" /\ (ent'[e].cancel <=> ent[e].cancel)
      BY <2>3, ScanCbEnt
    <3>. QED
      BY <3>1 DEF Known
  <2>4. CASE DelEnt(e)
    <3>1. /\ \A x \in Ents \ {e} : ent'[x] = ent[x]
          /\ ent'[e].req = "none" /\ (ent'[e].cancel => ent[e].cancel)
      BY <2>4, DelEntEnt
    <3>. QED
      BY <3>1 DEF Known
  <2>5. CASE WatchCb(e) \/ WatchTimerCb(e)
    <3>1. /\ ent[e].st = "live"
          /\ ent' = Noticed(ent, e) \/ ent' = Reopen(ent, e)
      BY <2>5 DEF WatchCb, WatchTimerCb, Live
    <3>2. CASE ent' = Noticed(ent, e)
      <4>1. /\ \A x \in Ents \ {e} : ent'[x] = ent[x]
            /\ (ent'[e].cancel <=> ent[e].cancel)
            /\ ent'[e].req = ent[e].req /\ ent'[e].ctime = ent[e].ctime
        BY <3>1, <3>2, NoticedEnt
      <4>. QED
        BY <4>1 DEF Known
    <3>3. CASE ent' = Reopen(ent, e)
      <4>1. /\ \A x \in Ents \ {e} : ent'[x] = ent[x]
            /\ ent'[e].req = "stat" /\ (ent'[e].cancel <=> ent[e].cancel)
        BY <3>1, <3>3, ReopenFacts, GoodTypes
      <4>. QED
        BY <4>1 DEF Known
    <3>. QED
      BY <3>1, <3>2, <3>3
  <2>. QED
    BY <1>1, <2>1, <2>2, <2>3, <2>4, <2>5 DEF Callback
<1>2. ASSUME NEW f \in Fss, StatReadCb(f) PROVE UNCHANGED ent
  BY <1>2 DEF StatReadCb, Fails
<1>3. CASE Commit \/ StatCleanup
  BY <1>3 DEF Commit, StatCleanup
<1>4. CASE FsSignalHandle
  <2>1. SignalData(Head(evq).of) /\ \E S : SignalFrame(Head(evq).of, S)
    BY <1>4, SignalDatas
  <2>2. ent[Head(evq).of].st # "freed"
    BY <2>1 DEF SignalData
  <2>. QED
    BY <2>1, <2>2, KnownSignal
<1>5. CASE ChDir
  BY <1>5, KnownChDir
<1>6. ASSUME NEW d \in Dirs, Reload(d) \/ Change(d) PROVE \A x \in Ents : Known(ent'[x])
  <2>1. \A x \in Ents : Slight(ent'[x], ent[x])
    BY <1>6, ReloadEnt, ChangeEnt
  <2>. QED
    BY <2>1 DEF Slight, Known
<1>7. ASSUME NEW f \in Fss, NEW d \in Dirs, FsRead(f, d) PROVE UNCHANGED ent
  BY <1>7 DEF FsRead
<1>8. ASSUME NEW f \in Fss, FsCancel(f) PROVE FALSE
  BY <1>8 DEF FsCancel
<1>9. ASSUME NEW f \in Fss, FmDelete(f) PROVE \A x \in Ents : Known(ent'[x])
  <2>1. Leaves(ent', f)
    BY <1>9, FmDeleteLeaves
  <2>2. \A x \in Ents : ent'[x].st # "live" => ent'[x].req = "none"
    BY <2>1, RestingFacts DEF Leaves, EntsTyped
  <2>. QED
    BY <2>1, <2>2 DEF Leaves, Known
<1>10. CASE Tick
  BY <1>10 DEF Tick
<1>. QED
  BY <1>1, <1>2, <1>3, <1>4, <1>5, <1>6, <1>7, <1>8, <1>9, <1>10
     DEF Next, Handle, User
(* a directory with rows keeps them, or they are on their way again;       *)
Comes(r, q, d) == r[d] # 0 \/ Com(q, d) # {}

LEMMA PutQueue ==
  ASSUME Good, NEW e \in Ents, NEW q \in Seq(EventType)
  PROVE  /\ \A d : Com(Append(q, SignalEvent(e)), d) = Com(q, d)
         /\ \A x : x # e => Sig(Append(q, SignalEvent(e)), x) = Sig(q, x)
<1>. DEFINE v == SignalEvent(e)
<1>1. v \in EventType /\ v.kind = "fs_signal_handle" /\ v.of = e
  BY SignalTyped
<1>. HIDE DEF v
<1>2. /\ \A d : Com(Append(q, v), d) = Com(q, d)
      /\ \A x : x # e => Sig(Append(q, v), x) = Sig(q, x)
  BY <1>1, SigAppend
<1>. QED
  BY <1>2 DEF v

LEMMA ScanQueue ==
  ASSUME Good, NEW e \in Ents, ScanCb(e), fault' = "none", ~ent[e].cancel
  PROVE  /\ Com(evq', ent[e].dir) # {}
         /\ \A d : Com(evq, d) # {} => Com(evq', d) # {}
         /\ \A x : x # e => Sig(evq', x) = Sig(evq, x)
<1>. DEFINE d == ent[e].dir
<1>1. d \in Dirs /\ evq \in Seq(EventType)
  BY GoodData, GoodTypes
<1>2. PICK t \in Times \ {0} : evq' = Append(Append(evq, Event("commit", None, d, t)), SignalEvent(e))
  BY ScanCbEnt
<1>. DEFINE c == Event("commit", None, d, t)
<1>3. c \in EventType /\ c.kind = "commit" /\ c.dir = d
  BY <1>1, CommitTyped
<1>. HIDE DEF c, d
<1>4. /\ Append(evq, c) \in Seq(EventType)
      /\ Com(Append(evq, c), d) # {}
      /\ \A k : Com(evq, k) # {} => Com(Append(evq, c), k) # {}
      /\ \A x : Sig(Append(evq, c), x) = Sig(evq, x)
  <2>1. Append(evq, c) \in Seq(EventType)
    BY <1>1, <1>3, QueueAppend
  <2>2. /\ \A k : Com(Append(evq, c), k) = IF c.dir = k THEN Com(evq, k) \cup {Len(evq) + 1} ELSE Com(evq, k)
        /\ \A x : Sig(Append(evq, c), x) = Sig(evq, x)
    BY <1>1, <1>3, SigAppend
  <2>. QED
    BY <1>3, <2>1, <2>2
<1>5. evq' = Append(Append(evq, c), SignalEvent(e))
  BY <1>2 DEF c
<1>6. /\ Com(evq', d) # {}
      /\ \A k : Com(evq, k) # {} => Com(evq', k) # {}
      /\ \A x : x # e => Sig(evq', x) = Sig(evq, x)
  BY <1>4, <1>5, PutQueue
<1>. QED
  BY <1>6 DEF d

(* the cache knows only directories whose rows are there or come, and a    *)
(* signal finds them there.                                                *)
Signals(E, q, e) == E[e].st = "live" /\ Sig(q, e) # {}

LEMMA SignalEnts ==
  ASSUME Good, NEW e, NEW S, SignalFrame(e, S), ent[e].st # "freed"
  PROVE  \A x \in Ents : ent'[x].st = "live" => ent[x].st = "live" /\ ent'[x].dir = ent[x].dir
<1>. DEFINE E == Idle(ent, e)
<1>1. ent' = Demux(E, S, e)
  BY DEF SignalFrame
<1>2. /\ e \in Ents /\ ((ent[e].st = "closing" /\ S = {}) \/ ent[e].st = "live")
  BY SignalState
<1>3. /\ EntsTyped(E) /\ \A x \in Ents \ {e} : E[x] = ent[x]
      /\ E[e].st = ent[e].st /\ E[e].dir = ent[e].dir
  BY <1>2, IdleEnt
<1>. HIDE DEF E
<1>4. CASE S = {}
  BY <1>1, <1>3, <1>4 DEF Demux
<1>5. CASE S # {}
  <2>1. E[e].st = "live" /\ ent[e].st = "live"
    BY <1>2, <1>3, <1>5
  <2>2. LET D == Demux(E, S, e) IN
        /\ EntsTyped(D)
        /\ \A x \in Ents \ {e} : D[x] = E[x]
        /\ D[e].dir = E[e].dir /\ (D[e].cancel <=> E[e].cancel)
        /\ \/ D[e].st = "closing" /\ E[e].lis \ S = {}
           \/ D[e] = [E[e] EXCEPT !.lis = E[e].lis \ S] /\ E[e].lis \ S # {}
    BY <1>2, <1>3, <1>5, <2>1, DemuxFacts
  <2>. QED
    BY <1>1, <1>3, <2>1, <2>2
<1>. QED
  BY <1>4, <1>5

LEMMA ChDirSignals ==
  ASSUME Good, ChDir, NEW x \in Ents, Signals(ent', evq', x)
  PROVE  Signals(ent, evq, x) /\ ent'[x].dir = ent[x].dir
<1>. DEFINE g == Head(evq).of
            d == Head(evq).dir
            E == Demux(ent, {g}, fs[g].ent)
<1>1. evq # <<>> /\ Head(evq).kind = "stat_cb" /\ evq' = Tail(evq)
  BY DEF ChDir, Pop
<1>2. g \in Fss /\ d \in Dirs
  BY <1>1, PoppedEvent
<1>3. Leaves(E, g) /\ \A z \in Ents : SigOK(E[z], evq', z)
  BY <1>1, <1>2, PopLeaves
<1>4. \/ MayOpen(E, d) /\ ent' = Open(E, g, d)
      \/ ent' = E
      \/ ent' = ent
  BY DEF ChDir
<1>. HIDE DEF E, g, d
<1>5. Sig(evq', x) # {} /\ Sig(evq, x) # {} /\ ent'[x].st = "live"
  BY <1>1, PoppedQueue DEF Signals
<1>6. EntsTyped(E) /\ E[x].dir = ent[x].dir /\ (E[x].st = "live" => ent[x].st = "live")
  BY <1>3 DEF Leaves
<1>7. CASE MayOpen(E, d) /\ ent' = Open(E, g, d)
  <2>. DEFINE e == MuxEnt(E, d)
  <2>1. /\ e \in Ents
        /\ \/ E[e].st = "live" /\ E[e].dir = d
           \/ E[e].st = "none" /\ \A y \in Ents : ~(E[y].st = "live" /\ E[y].dir = d)
        /\ \A y \in Ents \ {e} : ent'[y] = E[y]
        /\ ent'[e].dir = d
    BY <1>2, <1>6, <1>7, OpenFacts
  <2>. HIDE DEF e
  <2>2. E[x].st # "none"
    BY <1>3, <1>5 DEF SigOK
  <2>. QED
    BY <1>5, <1>6, <2>1, <2>2 DEF Signals
<1>. QED
  BY <1>4, <1>5, <1>6, <1>7 DEF Signals

LEMMA ComesStep ==
  ASSUME Good, Next, fault' = "none", ~MayCancel, \A x \in Ents : Known(ent[x]),
         \A d \in Dirs : cache[d] # 0 => Comes(rows, evq, d),
         \A x \in Ents : Signals(ent, evq, x) => Comes(rows, evq, ent[x].dir)
  PROVE  /\ \A d \in Dirs : cache'[d] # 0 => Comes(rows', evq', d)
         /\ \A x \in Ents : Signals(ent', evq', x) => Comes(rows', evq', ent'[x].dir)
<1>1. /\ cache \in [Dirs -> Times] /\ rows \in [Dirs -> Times] /\ evq \in Seq(EventType)
      /\ EntsTyped(ent) /\ fs \in [Fss -> FsType]
      /\ \A x \in Ents : ent[x].dir \in Dirs /\ ~ent[x].cancel
  BY GoodTypes, GoodData DEF Known
(* Most steps neither fill the cache nor put a signal, nor lose any rows.  *)
<1>2. ASSUME \A d \in Dirs : cache'[d] # 0 => cache[d] # 0,
             \A d \in Dirs : Comes(rows, evq, d) => Comes(rows', evq', d),
             \A x \in Ents : Signals(ent', evq', x) => Signals(ent, evq, x) /\ ent'[x].dir = ent[x].dir
      PROVE  /\ \A d \in Dirs : cache'[d] # 0 => Comes(rows', evq', d)
             /\ \A x \in Ents : Signals(ent', evq', x) => Comes(rows', evq', ent'[x].dir)
  <2>1. ASSUME NEW d \in Dirs, cache'[d] # 0 PROVE Comes(rows', evq', d)
    BY <1>2, <2>1
  <2>2. ASSUME NEW x \in Ents, Signals(ent', evq', x) PROVE Comes(rows', evq', ent'[x].dir)
    <3>1. Signals(ent, evq, x) /\ ent'[x].dir = ent[x].dir /\ ent[x].dir \in Dirs
      BY <1>1, <1>2, <2>2
    <3>2. Comes(rows', evq', ent[x].dir)
      BY <1>2, <3>1
    <3>. QED
      BY <3>1, <3>2 DEF Comes
  <2>. QED
    BY <2>1, <2>2
<1>3. ASSUME UNCHANGED rows, \A d : Com(evq, d) # {} => Com(evq', d) # {}
      PROVE  \A d \in Dirs : Comes(rows, evq, d) => Comes(rows', evq', d)
  BY <1>3 DEF Comes
<1>4. ASSUME NEW e \in Ents, Callback(e)
      PROVE  /\ \A d \in Dirs : cache'[d] # 0 => Comes(rows', evq', d)
             /\ \A x \in Ents : Signals(ent', evq', x) => Comes(rows', evq', ent'[x].dir)
  <2>1. ASSUME UNCHANGED <<rows, cache, evq>>,
               \A x \in Ents : ent'[x].st = "live" => ent[x].st = "live" /\ ent'[x].dir = ent[x].dir
        PROVE  /\ \A d \in Dirs : cache'[d] # 0 => Comes(rows', evq', d)
               /\ \A x \in Ents : Signals(ent', evq', x) => Comes(rows', evq', ent'[x].dir)
    BY <1>2, <2>1 DEF Comes, Signals
  <2>2. CASE ThreadPool(e)
    <3>1. \A x \in Ents : Alike(ent'[x], ent[x])
      BY <2>2, ThreadPoolEnt
    <3>. QED
      BY <2>1, <2>2, <3>1 DEF Alike, ThreadPool
  <2>3. CASE StatCb(e)
    <3>1. /\ \A x \in Ents \ {e} : ent'[x] = ent[x]
          /\ ent[e].st = "live" /\ ent[e].req = "statted" /\ ent'[e].st = "live"
          /\ ent'[e].dir = ent[e].dir
          /\ \/ UNCHANGED evq
             \/ (ent[e].ctime = 0 \/ Cached(e)) /\ evq' = Append(evq, SignalEvent(e))
      BY <2>3, StatCbEnt
    <3>2. UNCHANGED <<rows, cache>>
      BY <2>3 DEF StatCb
    <3>3. CASE UNCHANGED evq
      BY <2>1, <3>1, <3>2, <3>3
    <3>4. CASE (ent[e].ctime = 0 \/ Cached(e)) /\ evq' = Append(evq, SignalEvent(e))
      <4>1. cache[ent[e].dir] # 0
        BY <3>1, <3>4 DEF Known, Cached
      <4>2. Comes(rows, evq, ent[e].dir)
        BY <1>1, <4>1
      <4>3. /\ \A d : Com(evq', d) = Com(evq, d)
            /\ \A x : x # e => Sig(evq', x) = Sig(evq, x)
        BY <1>1, <3>4, PutQueue
      <4>4. \A d : Comes(rows', evq', d) <=> Comes(rows, evq, d)
        BY <3>2, <4>3 DEF Comes
      <4>5. ASSUME NEW x \in Ents, Signals(ent', evq', x) PROVE Comes(rows, evq, ent'[x].dir)
        <5>1. CASE x = e
          BY <3>1, <4>2, <5>1
        <5>2. CASE x # e
          <6>1. Signals(ent, evq, x) /\ ent'[x] = ent[x]
            BY <3>1, <4>3, <4>5, <5>2 DEF Signals
          <6>. QED
            BY <6>1
        <5>. QED
          BY <5>1, <5>2
      <4>6. \A x \in Ents : Comes(rows, evq, ent'[x].dir) => Comes(rows', evq', ent'[x].dir)
        BY <3>2, <4>3 DEF Comes
      <4>. QED
        BY <3>2, <4>4, <4>5, <4>6
    <3>. QED
      BY <3>1, <3>3, <3>4
  <2>4. CASE ScanCb(e)
    <3>. DEFINE k == ent[e].dir
    <3>1. /\ \A x \in Ents \ {e} : ent'[x] = ent[x]
          /\ ent'[e].st = "live" /\ ent'[e].dir = k
          /\ rows' = [rows EXCEPT ![k] = 0] /\ cache' = [cache EXCEPT ![k] = ent[e].ctime]
      BY <2>4, ScanCbEnt
    <3>2. /\ Com(evq', k) # {}
          /\ \A d : Com(evq, d) # {} => Com(evq', d) # {}
          /\ \A x : x # e => Sig(evq', x) = Sig(evq, x)
      BY <1>1, <2>4, ScanQueue
    <3>3. k \in Dirs
      BY <1>1
    <3>. HIDE DEF k
    <3>4. ASSUME NEW d \in Dirs, Comes(rows, evq, d) \/ d = k PROVE Comes(rows', evq', d)
      BY <1>1, <3>1, <3>2, <3>4 DEF Comes
    <3>5. ASSUME NEW d \in Dirs, cache'[d] # 0 PROVE Comes(rows', evq', d)
      <4>1. d = k \/ cache[d] # 0
        BY <1>1, <3>1, <3>5
      <4>. QED
        BY <3>4, <4>1
    <3>6. ASSUME NEW x \in Ents, Signals(ent', evq', x) PROVE Comes(rows', evq', ent'[x].dir)
      <4>1. CASE x = e
        BY <3>1, <3>2, <4>1 DEF Comes
      <4>2. CASE x # e
        <5>1. Signals(ent, evq, x) /\ ent'[x] = ent[x] /\ ent[x].dir \in Dirs
          BY <1>1, <3>1, <3>2, <3>6, <4>2 DEF Signals
        <5>2. Comes(rows', evq', ent[x].dir)
          BY <3>4, <5>1
        <5>. QED
          BY <5>1, <5>2 DEF Comes
      <4>. QED
        BY <4>1, <4>2
    <3>. QED
      BY <3>5, <3>6
  <2>5. CASE DelEnt(e)
    <3>1. (\A x \in Ents \ {e} : ent'[x] = ent[x]) /\ ent'[e].st # "live"
      BY <2>5, DelEntEnt
    <3>. QED
      BY <2>1, <2>5, <3>1 DEF DelEnt
  <2>6. CASE WatchCb(e) \/ WatchTimerCb(e)
    <3>1. /\ UNCHANGED <<rows, cache, evq>> /\ ent[e].st = "live"
          /\ ent' = Noticed(ent, e) \/ ent' = Reopen(ent, e)
      BY <2>6 DEF WatchCb, WatchTimerCb, Live
    <3>2. CASE ent' = Noticed(ent, e)
      <4>1. \A x \in Ents : Alike(ent'[x], ent[x])
        BY <3>1, <3>2, NoticedEnt
      <4>. QED
        BY <2>1, <3>1, <4>1 DEF Alike
    <3>3. CASE ent' = Reopen(ent, e)
      <4>1. (\A x \in Ents \ {e} : ent'[x] = ent[x]) /\ ent'[e].dir = ent[e].dir
        BY <1>1, <3>1, <3>3, ReopenFacts
      <4>. QED
        BY <2>1, <3>1, <4>1
    <3>. QED
      BY <3>1, <3>2, <3>3
  <2>. QED
    BY <1>4, <2>2, <2>3, <2>4, <2>5, <2>6 DEF Callback
<1>5. ASSUME UNCHANGED rows, \A d \in Dirs : cache'[d] # 0 => cache[d] # 0,
             \A d : Com(evq, d) # {} => Com(evq', d) # {},
             \A x : Sig(evq', x) # {} => Sig(evq, x) # {},
             \A x \in Ents : ent'[x].st = "live" => ent[x].st = "live" /\ ent'[x].dir = ent[x].dir
      PROVE  /\ \A d \in Dirs : cache'[d] # 0 => Comes(rows', evq', d)
             /\ \A x \in Ents : Signals(ent', evq', x) => Comes(rows', evq', ent'[x].dir)
  BY <1>2, <1>3, <1>5 DEF Signals
<1>6. ASSUME NEW f \in Fss, StatReadCb(f)
      PROVE  /\ \A d \in Dirs : cache'[d] # 0 => Comes(rows', evq', d)
             /\ \A x \in Ents : Signals(ent', evq', x) => Comes(rows', evq', ent'[x].dir)
  <2>1. \A d : Com(evq', d) = Com(evq, d) /\ Sig(evq', d) = Sig(evq, d)
    BY <1>6, StatReadCbCore
  <2>2. UNCHANGED <<rows, cache, ent>>
    BY <1>6 DEF StatReadCb, Fails
  <2>. QED
    BY <1>5, <2>1, <2>2
<1>7. CASE Commit
  <2>1. /\ evq # <<>> /\ Head(evq).kind = "commit" /\ evq' = Tail(evq)
        /\ rows' = [rows EXCEPT ![Head(evq).dir] = Head(evq).time]
        /\ UNCHANGED <<ent, cache>>
    BY <1>7 DEF Commit, Pop
  <2>2. Head(evq).time # 0
    BY <2>1, PoppedEvent
  <2>3. /\ \A d : d # Head(evq).dir /\ Com(evq, d) # {} => Com(evq', d) # {}
        /\ \A x : Sig(evq', x) # {} => Sig(evq, x) # {}
    BY <2>1, PoppedQueue
  <2>4. ASSUME NEW d \in Dirs, Comes(rows, evq, d) PROVE Comes(rows', evq', d)
    BY <1>1, <2>1, <2>2, <2>3, <2>4 DEF Comes
  <2>. QED
    BY <1>2, <2>1, <2>3, <2>4 DEF Signals
<1>8. CASE FsSignalHandle
  <2>1. /\ SignalData(Head(evq).of) /\ Head(evq).of \in Ents
        /\ \E S : SignalFrame(Head(evq).of, S)
    BY <1>8, SignalDatas
  <2>2. UNCHANGED <<rows, cache>> /\ ent[Head(evq).of].st # "freed"
    BY <1>1, <2>1 DEF SignalData
  <2>3. evq # <<>> /\ Head(evq).kind # "commit" /\ evq' = Tail(evq)
    BY <1>8 DEF FsSignalHandle, Pop
  <2>4. /\ \A d : Com(evq, d) # {} => Com(evq', d) # {}
        /\ \A x : Sig(evq', x) # {} => Sig(evq, x) # {}
    BY <2>3, PoppedQueue
  <2>5. \A x \in Ents : ent'[x].st = "live" => ent[x].st = "live" /\ ent'[x].dir = ent[x].dir
    BY <2>1, <2>2, SignalEnts
  <2>. QED
    BY <1>5, <2>2, <2>4, <2>5
<1>9. CASE ChDir
  <2>1. evq # <<>> /\ Head(evq).kind # "commit" /\ evq' = Tail(evq) /\ UNCHANGED <<rows, cache>>
    BY <1>9 DEF ChDir, Pop
  <2>2. \A d : Com(evq, d) # {} => Com(evq', d) # {}
    BY <2>1, PoppedQueue
  <2>3. \A x \in Ents : Signals(ent', evq', x) => Signals(ent, evq, x) /\ ent'[x].dir = ent[x].dir
    BY <1>9, ChDirSignals
  <2>. QED
    BY <1>2, <1>3, <2>1, <2>2, <2>3
<1>10. CASE StatCleanup
  <2>1. evq # <<>> /\ Head(evq).kind # "commit" /\ evq' = Tail(evq) /\ UNCHANGED <<rows, cache, ent>>
    BY <1>10 DEF StatCleanup, Pop
  <2>2. /\ \A d : Com(evq, d) # {} => Com(evq', d) # {}
        /\ \A x : Sig(evq', x) # {} => Sig(evq, x) # {}
    BY <2>1, PoppedQueue
  <2>. QED
    BY <1>5, <2>1, <2>2
<1>11. ASSUME NEW k \in Dirs, Reload(k) \/ Change(k)
       PROVE  /\ \A d \in Dirs : cache'[d] # 0 => Comes(rows', evq', d)
              /\ \A x \in Ents : Signals(ent', evq', x) => Comes(rows', evq', ent'[x].dir)
  <2>1. \A x \in Ents : Alike(ent'[x], ent[x])
    BY <1>11, ReloadEnt, ChangeEnt DEF Slight
  <2>2. /\ UNCHANGED <<rows, evq>> /\ \A d \in Dirs : cache'[d] # 0 => cache[d] # 0
    BY <1>1, <1>11 DEF Reload, Change
  <2>. QED
    BY <1>5, <2>1, <2>2 DEF Alike
<1>12. ASSUME NEW f \in Fss, NEW d \in Dirs, FsRead(f, d) PROVE UNCHANGED <<rows, cache, evq, ent>>
  BY <1>12 DEF FsRead
<1>13. ASSUME NEW f \in Fss, FsCancel(f) PROVE FALSE
  BY <1>13 DEF FsCancel
<1>14. ASSUME NEW f \in Fss, FmDelete(f)
       PROVE  /\ \A d \in Dirs : cache'[d] # 0 => Comes(rows', evq', d)
              /\ \A x \in Ents : Signals(ent', evq', x) => Comes(rows', evq', ent'[x].dir)
  <2>1. Leaves(ent', f)
    BY <1>14, FmDeleteLeaves
  <2>2. UNCHANGED <<rows, evq, cache>>
    BY <1>14 DEF FmDelete
  <2>. QED
    BY <1>5, <2>1, <2>2 DEF Leaves
<1>15. CASE UNCHANGED <<rows, cache, evq, ent>>
  BY <1>5, <1>15
<1>. QED
  BY <1>4, <1>6, <1>7, <1>8, <1>9, <1>10, <1>11, <1>12, <1>13, <1>14, <1>15
     DEF Next, Handle, User, Tick

(* So no window is left empty.                                             *)
LEMMA NotEmptyStep ==
  ASSUME Good, Next, fault' = "none", \A x \in Ents : Known(ent[x]),
         \A x \in Ents : Signals(ent, evq, x) => Comes(rows, evq, ent[x].dir),
         NEW f \in Fms, ~fs'[f].freed, ~fs[f].freed => view[f].lines # "empty"
  PROVE  view'[f].lines # "empty"
<1>1. /\ f \in Fss /\ fs \in [Fss -> FsType] /\ view \in [Fss -> ViewType]
      /\ rows \in [Dirs -> Times] /\ evq \in Seq(EventType)
  BY GoodTypes, GoodData DEF Fms, Data
<1>2. ~fs[f].freed
  BY <1>1 DEF Next, Callback, Handle, User, ThreadPool, StatCb, ScanCb, DelEnt, WatchCb,
       WatchTimerCb, StatReadCb, Commit, FsSignalHandle, ChDir, StatCleanup, Pop, Reload, FsRead,
       FsCancel, FmDelete, Tick, Change, Fails, FsType
<1>3. view[f].lines # "empty"
  BY <1>2
<1>4. ASSUME NEW e \in Ents, ScanCb(e) PROVE view'[f].lines # "empty"
  <2>1. view' = Flushed(e, ent[e].dir)
    BY <1>4, ScanCbEnt
  <2>. QED
    BY <1>1, <1>3, <2>1, FlushedTyped
<1>5. CASE FsSignalHandle
  <2>. DEFINE e == Head(evq).of
  <2>1. SignalData(e) /\ e \in Ents /\ \E S : SignalFrame(e, S)
    BY <1>5, SignalDatas
  <2>2. evq # <<>> /\ Head(evq).kind = "fs_signal_handle"
    BY <1>5 DEF FsSignalHandle, Pop
  <2>3. Sig(evq, e) # {}
    BY <1>1, <2>2, SigTail
  <2>. HIDE DEF e
  <2>4. UNCHANGED rows /\ view' = Recv(view, rows, e) /\ ent[e].st # "freed"
    BY <2>1 DEF SignalData, Known
  <2>5. \/ ent[e].st = "closing"
        \/ ent[e].st = "live" /\ Com(evq, ent[e].dir) = {}
    BY <2>1, <2>4, SignalState
  <2>6. ent[e].st = "closing" => ent[e].lis = {}
    BY <2>1, GoodTypes, RestingFacts
  <2>7. ent[e].st = "live" => rows[ent[e].dir] # 0
    BY <2>1, <2>3, <2>5 DEF Signals, Comes
  <2>8. \/ view'[f] = view[f]
        \/ /\ f \in ent[e].lis \ Menus
           /\ (view'[f].lines = "empty" /\ rows[ent[e].dir] = 0) \/ view'[f].lines = "listing"
    BY <1>1, <2>1, <2>4, RecvTyped
  <2>. QED
    BY <1>3, <2>5, <2>6, <2>7, <2>8
<1>6. CASE ChDir
  BY <1>1, <1>3, <1>6 DEF ChDir
<1>7. CASE UNCHANGED view
  BY <1>3, <1>7
<1>. QED
  BY <1>4, <1>5, <1>6, <1>7 DEF Next, Callback, Handle, User, ThreadPool, StatCb, DelEnt, WatchCb,
       WatchTimerCb, StatReadCb, Commit, StatCleanup, Reload, FsRead, FsCancel, FmDelete, Tick,
       Change, Fails
LEMMA RowsInit == Init => RowsMatch
<1>1. NoEnt.st = "none" /\ ~NoEnt.cancel /\ NoEnt.req = "none"
  BY DEF NoEnt
<1>. QED
  BY <1>1 DEF Init, RowsMatch, Live, Fms

LEMMA RowsStep == Agreed /\ WatchMatch /\ RowsMatch /\ [Next]_vars => RowsMatch'
<1>. SUFFICES ASSUME Agreed, WatchMatch, RowsMatch, [Next]_vars, ~MayVanish, ~MayCancel
              PROVE  RowsMatch'
  BY DEF RowsMatch
<1>1. CASE UNCHANGED vars
  BY <1>1 DEF vars, RowsMatch, Live, Running, Coming, Commits, Signalled
<1>2. CASE Next
  <2>1. fault = "none" /\ Good
    BY <1>2, Stopped DEF Agreed
  <2>2. /\ \A d \in Dirs : disk[d] # 0
        /\ \A x \in Ents : Known(ent[x])
        /\ \A f \in Fms : ~fs[f].freed => view[f].lines # "empty"
    BY DEF WatchMatch, RowsMatch, Known
  <2>3. /\ \A d \in Dirs : cache[d] # 0 => Comes(rows, evq, d)
        /\ \A x \in Ents : Signals(ent, evq, x) => Comes(rows, evq, ent[x].dir)
    BY <2>1 DEF RowsMatch, Running, Coming, Commits, Comes, Com, Live, Signals, Signalled, Sig
  <2>4. CASE fault' = "none"
    <3>1. \A x \in Ents : Known(ent'[x])
      BY <1>2, <2>1, <2>2, <2>4, KnownStep
    <3>2. /\ \A d \in Dirs : cache'[d] # 0 => Comes(rows', evq', d)
          /\ \A x \in Ents : Signals(ent', evq', x) => Comes(rows', evq', ent'[x].dir)
      BY <1>2, <2>1, <2>2, <2>3, <2>4, ComesStep
    <3>3. \A f \in Fms : ~fs'[f].freed => view'[f].lines # "empty"
      BY <1>2, <2>1, <2>2, <2>3, <2>4, NotEmptyStep
    <3>. QED
      BY <3>1, <3>2, <3>3
         DEF RowsMatch, Known, Coming, Commits, Comes, Com, Live, Signals, Signalled, Sig
  <2>5. CASE fault' # "none"
    <3>1. UNCHANGED <<ent, fs, view>>
      BY <1>2, <2>1, <2>5, FaultStep
    <3>. QED
      BY <2>5, <3>1 DEF RowsMatch, Running
  <2>. QED
    BY <2>4, <2>5
<1>. QED
  BY <1>1, <1>2

-----------------------------------------------------------------------------
(* The invariant of the proofs; it implies IInv.                           *)
Strong == Agreed /\ ViewsMatch /\ WatchMatch /\ RowsMatch

(* What holds of every state that fs.c and the models of its windows reach:*)
(* the four properties below and what they rest on.                        *)
THEOREM InvariantCorrect == Spec => []IInv
<1>1. Init => Strong
  BY AgreedInit, ViewsInit, WatchInit, RowsInit DEF Strong
<1>2. Strong /\ [Next]_vars => Strong'
  BY AgreedStep, ViewsStep, WatchMatchStep, RowsStep DEF Strong
<1>3. Strong => IInv
  BY AgreedFacts DEF Strong, IInv
<1>. QED
  BY <1>1, <1>2, <1>3, PTL DEF Spec

(* Whatever the order of callbacks, events and commands, entries, nv_fs    *)
(* objects, rows, models and events stay of their kinds, and an entry that *)
(* is closed or not yet made waits for nothing.                            *)
THEOREM TypeCorrect == Spec => []TypeOK
<1>1. IInv => TypeOK
  BY DEF IInv
<1>. QED
  BY <1>1, InvariantCorrect, PTL

(* fs_open, fs_reopen, the timer and fs_signal_handle never let two        *)
(* requests share an entry's uv_fs_t, nor a scan delete rows that an       *)
(* earlier one is still committing.                                        *)
THEOREM RunningCorrect == Spec => []RunningMatches
<1>1. IInv => RunningMatches
  BY DEF IInv
<1>. QED
  BY <1>1, InvariantCorrect, PTL

(* fs_mux and fs_demux keep ent_tbl, the listeners and fs->ent in          *)
(* agreement through every open, move, close and delete.                   *)
THEOREM ListenersCorrect == Spec => []ListenersMatch
<1>1. IInv => ListenersMatch
  BY DEF IInv
<1>. QED
  BY <1>1, InvariantCorrect, PTL

(* The queue of commits and signals, model_flush and model_recv show a     *)
(* window the rows the table has, whole, however scans and moves of        *)
(* several windows interleave.                                             *)
THEOREM ListingsCorrect == Spec => []ListingsMatch
<1>1. ViewsMatch /\ RowsMatch => ListingsMatch
  <2>1. MayCancel \in BOOLEAN /\ MayVanish \in BOOLEAN
    BY FsAssumption
  <2>. QED
    BY <2>1 DEF ViewsMatch, RowsMatch, ListingsMatch
<1>2. IInv => ListingsMatch
  BY <1>1 DEF IInv
<1>. QED
  BY <1>2, InvariantCorrect, PTL

(* watch_cb, the timer and fs_reopen hand the watch of a directory on      *)
(* without a gap in which a change could be missed.                        *)
THEOREM NeverBlindCorrect == Spec => []NeverBlind
<1>1. IInv => NeverBlind
  BY DEF IInv, WatchMatch, NeverBlind
<1>. QED
  BY <1>1, InvariantCorrect, PTL

=============================================================================

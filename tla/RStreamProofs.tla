---------------------------- MODULE RStreamProofs ----------------------------
(***************************************************************************)
(* Proofs about RStream for every Capacity: IInv is an inductive           *)
(* invariant, so that the ring, the queued chunks, backpressure, the free  *)
(* and the order of what is handed on are right.                           *)
(***************************************************************************)
EXTENDS RStream, TLAPS, WellFoundedInduction

-----------------------------------------------------------------------------
(* Sequences and numbers.                                                  *)

(* What Append does, event by event.                                       *)
LEMMA AppendFacts ==
  ASSUME NEW S, NEW s \in Seq(S), NEW e \in S
  PROVE  /\ Append(s, e) \in Seq(S)
         /\ Len(Append(s, e)) = Len(s) + 1 /\ Len(s) \in Nat
         /\ \A i \in 1..Len(s) : Append(s, e)[i] = s[i] /\ s[i] \in S
         /\ Append(s, e)[Len(s) + 1] = e
OBVIOUS

(* What Head and Tail do, event by event.                                  *)
LEMMA TailFacts ==
  ASSUME NEW S, NEW s \in Seq(S), s # <<>>
  PROVE  /\ Head(s) = s[1] /\ Tail(s) \in Seq(S)
         /\ Len(Tail(s)) = Len(s) - 1 /\ Len(s) \in Nat /\ Len(s) > 0
         /\ \A i \in 1..Len(s) : s[i] \in S
         /\ \A i \in 1..Len(Tail(s)) : Tail(s)[i] = s[i + 1] /\ i + 1 \in 1..Len(s)
OBVIOUS

(* A nonempty set of numbers has a least one (the end of a chunk's text).  *)
LEMMA LeastExists ==
  ASSUME NEW T, T \subseteq Nat, T # {}
  PROVE  \E m \in T : \A x \in T : m <= x
<1>1. PICK m \in T : \A x \in T : ~(<<x, m>> \in OpToRel(<, Nat))
  BY NatLessThanWellFounded, WFMin, Zenon
<1>2. ASSUME NEW x \in T PROVE m <= x
  <2>1. ~(x < m)
    BY <1>1 DEF OpToRel
  <2> QED BY <2>1
<1> QED BY <1>2

-----------------------------------------------------------------------------
(* The steps of the ring.                                                  *)

(* A pointer that moves on by no more than the capacity stays in the ring. *)
LEMMA MovedType ==
  ASSUME NEW p \in Places, NEW n \in 0..Capacity
  PROVE  Moved(p, n) \in Places
BY CapacityAssumption DEF Places, Moved

(* A pointer that does not move on stays where it is.                      *)
LEMMA MovedZero ==
  ASSUME NEW p \in Places
  PROVE  Moved(p, 0) = p
BY CapacityAssumption DEF Places, Moved

(* A pointer that moves on twice moves on by the sum.                      *)
LEMMA MovedTwice ==
  ASSUME NEW p \in Places, NEW n \in 0..Capacity, NEW k \in 0..(Capacity - n)
  PROVE  Moved(Moved(p, n), k) = Moved(p, n + k)
BY CapacityAssumption DEF Places, Moved

(* What is read in fits behind what is there, in one piece.                *)
LEMMA SpaceFits ==
  ASSUME TypeOK, writePos = Moved(readPos, size)
  PROVE  /\ SpaceAtOnce \in 0..(Capacity - size)
         /\ writePos + SpaceAtOnce <= Capacity
<1>1. /\ Capacity \in Nat /\ size \in 0..Capacity
      /\ readPos \in 0..(Capacity - 1) /\ writePos \in 0..(Capacity - 1)
      /\ \/ readPos + size >= Capacity /\ writePos = readPos + size - Capacity
         \/ readPos + size < Capacity /\ writePos = readPos + size
  BY CapacityAssumption DEF TypeOK, Places, Moved
<1>2. CASE size = Capacity
  <2>1. SpaceAtOnce = 0
    BY <1>1, <1>2 DEF SpaceAtOnce
  <2> QED BY <1>1, <1>2, <2>1
<1>3. CASE size < Capacity /\ writePos >= readPos
  <2>1. SpaceAtOnce = Capacity - writePos
    BY <1>1, <1>3 DEF SpaceAtOnce
  <2> QED BY <1>1, <1>3, <2>1
<1>4. CASE size < Capacity /\ writePos < readPos
  <2>1. SpaceAtOnce = readPos - writePos
    BY <1>1, <1>4 DEF SpaceAtOnce
  <2> QED BY <1>1, <1>4, <2>1
<1> QED BY <1>1, <1>2, <1>3, <1>4

(* A ring with something in it offers something.                           *)
LEMMA DataOffered ==
  ASSUME TypeOK, size > 0
  PROVE  DataAtOnce # 0
<1>1. /\ Capacity \in Nat /\ size \in 0..Capacity
      /\ readPos \in 0..(Capacity - 1) /\ writePos \in 0..(Capacity - 1)
  BY CapacityAssumption DEF TypeOK, Places
<1>2. CASE readPos < writePos
  <2>1. DataAtOnce = writePos - readPos
    BY <1>1, <1>2 DEF DataAtOnce
  <2> QED BY <1>1, <1>2, <2>1
<1>3. CASE ~(readPos < writePos)
  <2>1. DataAtOnce = Capacity - readPos
    BY <1>1, <1>3 DEF DataAtOnce
  <2> QED BY <1>1, <1>3, <2>1
<1> QED BY <1>2, <1>3

-----------------------------------------------------------------------------
(* The queue of events.                                                    *)

(* An event without a chunk, queued behind the others.                     *)
LEMMA QueueOther ==
  ASSUME TypeOK, ChunksMatchRing, UNCHANGED <<readPos, writePos, size, produced, consumed>>,
         NEW kind \in {"read_eof", "process_close_handles", "stream_cleanup_cb"},
         evq' = Append(evq, Event(kind, 0))
  PROVE  /\ evq' \in Seq(Events) /\ Len(evq') = Len(evq) + 1 /\ Len(evq) \in Nat
         /\ \A i \in 1..Len(evq) : evq'[i] = evq[i]
         /\ evq'[Len(evq) + 1] = Event(kind, 0)
         /\ ChunksMatchRing'
<1> DEFINE ev == Event(kind, 0)
<1>1. /\ ev \in Events /\ ev.kind = kind /\ ev.count = 0 /\ ev.pos = writePos
      /\ ev.at = produced
  BY DEF TypeOK, Event, Events, Places
<1> HIDE DEF ev
<1>2. /\ evq' \in Seq(Events) /\ Len(evq') = Len(evq) + 1 /\ Len(evq) \in Nat
      /\ \A i \in 1..Len(evq) : evq'[i] = evq[i] /\ evq[i] \in Events
      /\ evq'[Len(evq) + 1] = ev
  BY <1>1, AppendFacts DEF TypeOK, ev
<1>3. evq' # <<>>
  BY <1>2
<1>4. Capacity \in Nat /\ writePos \in 0..(Capacity - 1) /\ readPos \in 0..(Capacity - 1)
      /\ produced \in Nat /\ consumed \in Nat /\ size \in Nat
  BY CapacityAssumption DEF TypeOK, Places
<1>5. ASSUME NEW i \in 1..Len(evq')
      PROVE  LET e == evq'[i] IN
               /\ Chunk(i)' <=> e.count > 0
               /\ e.pos < Capacity /\ e.pos + e.count <= Capacity
               /\ e.at + e.count <= produced
               /\ i = 1 => e.at = consumed /\ e.pos = readPos
               /\ i < Len(evq') => /\ evq'[i+1].at = e.at + e.count
                                  /\ evq'[i+1].pos = Moved(e.pos, e.count)
               /\ i = Len(evq') => /\ produced = e.at + e.count
                                  /\ writePos = Moved(e.pos, e.count)
  <2>1. CASE i = Len(evq) + 1
    <3>1. CASE Len(evq) = 0
      <4>1. evq = <<>>
        BY <3>1 DEF TypeOK
      <4>2. size = 0 /\ produced = consumed /\ writePos = readPos
        BY <4>1, <1>4, MovedZero DEF ChunksMatchRing, TypeOK
      <4> QED BY <1>1, <1>2, <1>4, <2>1, <3>1, <4>2, MovedZero DEF Chunk, TypeOK
    <3>2. CASE Len(evq) # 0
      BY <1>1, <1>2, <1>4, <2>1, <3>2, MovedZero DEF Chunk, TypeOK
    <3> QED BY <3>1, <3>2
  <2>2. CASE i \in 1..Len(evq) /\ i # Len(evq)
    <3>1. i + 1 \in 1..Len(evq)
      BY <1>2, <2>2
    <3> QED BY <1>2, <2>2, <3>1 DEF ChunksMatchRing, Chunk
  <2>3. CASE i \in 1..Len(evq) /\ i = Len(evq)
    BY <1>1, <1>2, <2>3 DEF ChunksMatchRing, Chunk
  <2> QED BY <1>2, <2>1, <2>2, <2>3
<1> QED BY <1>2, <1>3, <1>5 DEF ev, ChunksMatchRing

(* An event is popped whose chunk, if any, is consumed.                    *)
LEMMA PopAny ==
  ASSUME TypeOK, ChunksMatchRing, evq # <<>>, evq' = Tail(evq),
         UNCHANGED <<produced, writePos>>,
         consumed' = consumed + evq[1].count,
         readPos' = Moved(readPos, evq[1].count),
         size' = size - evq[1].count
  PROVE  /\ evq' \in Seq(Events) /\ Len(evq') = Len(evq) - 1 /\ Len(evq) \in Nat \ {0}
         /\ \A i \in 1..Len(evq') : evq'[i] = evq[i + 1] /\ i + 1 \in 1..Len(evq)
         /\ Head(evq) = evq[1] /\ evq[1] \in Events
         /\ evq[1].count \in 0..size /\ readPos + evq[1].count <= Capacity
         /\ readPos' \in Places
         /\ ChunksMatchRing'
<1>1. /\ evq' \in Seq(Events) /\ Len(evq') = Len(evq) - 1 /\ Len(evq) \in Nat \ {0}
      /\ Head(evq) = evq[1] /\ 1 \in 1..Len(evq)
      /\ \A i \in 1..Len(evq) : evq[i] \in Events
      /\ \A i \in 1..Len(evq') : evq'[i] = evq[i + 1] /\ i + 1 \in 1..Len(evq)
  BY TailFacts DEF TypeOK
<1> DEFINE n == evq[1].count
<1>2. n \in Nat /\ evq[1] \in Events
  BY <1>1 DEF Events
<1>3. /\ Capacity \in Nat /\ writePos \in 0..(Capacity - 1) /\ readPos \in 0..(Capacity - 1)
      /\ produced \in Nat /\ consumed \in Nat /\ size \in 0..Capacity
  BY CapacityAssumption DEF TypeOK, Places
<1>4. /\ evq[1].at = consumed /\ evq[1].pos = readPos /\ readPos + n <= Capacity
      /\ consumed + n <= produced /\ size = produced - consumed
  BY <1>1, <1>3 DEF ChunksMatchRing
<1>5. n \in 0..size /\ n \in 0..Capacity
  BY <1>2, <1>3, <1>4
<1>6. readPos' \in Places
  BY <1>5, MovedType DEF TypeOK
<1> HIDE DEF n
<1>7. size' = produced' - consumed'
  BY <1>2, <1>3, <1>4 DEF n
<1>8. writePos' = Moved(readPos', size')
  <2>1. Moved(Moved(readPos, n), size - n) = Moved(readPos, n + (size - n))
    BY <1>3, <1>5, MovedTwice DEF Places
  <2>2. n + (size - n) = size
    BY <1>2, <1>3
  <2> QED BY <2>1, <2>2 DEF ChunksMatchRing, n
<1>9. evq' = <<>> => size' = 0
  <2>1. ASSUME evq' = <<>> PROVE Len(evq) = 1
    <3>1. Len(<<>>) = 0
      OBVIOUS
    <3>2. Len(evq') = 0
      BY <2>1, <3>1, Zenon
    <3> QED BY <1>1, <3>2
  <2>2. ASSUME Len(evq) = 1 PROVE produced = consumed + n
    BY <1>1, <1>4, <2>2 DEF ChunksMatchRing, n
  <2> QED BY <1>2, <1>3, <1>7, <2>1, <2>2 DEF n
<1>10. ASSUME NEW i \in 1..Len(evq')
      PROVE  LET e == evq'[i] IN
               /\ Chunk(i)' <=> e.count > 0
               /\ e.pos < Capacity /\ e.pos + e.count <= Capacity
               /\ e.at + e.count <= produced
               /\ i = 1 => e.at = consumed' /\ e.pos = readPos'
               /\ i < Len(evq') => /\ evq'[i+1].at = e.at + e.count
                                  /\ evq'[i+1].pos = Moved(e.pos, e.count)
               /\ i = Len(evq') => /\ produced = e.at + e.count
                                  /\ writePos = Moved(e.pos, e.count)
  <2>1. evq'[i] = evq[i + 1] /\ i + 1 \in 1..Len(evq)
    BY <1>1
  <2>2. i < Len(evq') => evq'[i + 1] = evq[(i + 1) + 1] /\ i + 1 < Len(evq)
    BY <1>1
  <2>3. i = Len(evq') => i + 1 = Len(evq)
    BY <1>1
  <2>4. i = 1 => evq[i + 1].at = consumed' /\ evq[i + 1].pos = readPos'
    <3>1. i = 1 => 1 < Len(evq)
      BY <1>1
    <3>2. i = 1 => evq[1 + 1].at = evq[1].at + n /\ evq[1 + 1].pos = Moved(evq[1].pos, n)
      BY <1>1, <3>1 DEF ChunksMatchRing, n
    <3> QED BY <1>4, <3>2 DEF n
  <2> QED BY <2>1, <2>2, <2>3, <2>4 DEF ChunksMatchRing, Chunk
<1> QED BY <1>1, <1>2, <1>4, <1>5, <1>6, <1>7, <1>8, <1>9, <1>10 DEF ChunksMatchRing, n

-----------------------------------------------------------------------------
(* Every step preserves the invariant.                                     *)

(* rstream_init and rstream_start establish the invariant.                 *)
LEMMA InitIInv == Init => IInv
<1> SUFFICES ASSUME Init PROVE IInv
  OBVIOUS
<1>1. TypeOK
  <2>1. 0 \in Places /\ 0 \in 0..Capacity
    BY CapacityAssumption DEF Places
  <2>2. <<>> \in Seq(Events) /\ <<>> \in Seq(Nat)
    OBVIOUS
  <2>3. [i \in Places |-> NUL] \in [Places -> Nat]
    BY DEF NUL
  <2> QED BY <2>1, <2>2, <2>3 DEF Init, TypeOK
<1>2. ChunksMatchRing
  BY CapacityAssumption DEF Init, ChunksMatchRing, Moved
<1>3. ReadingMatches /\ NoReadAfterFree /\ HandleMatches /\ InOrder
  BY CapacityAssumption DEF Init, ReadingMatches, NoReadAfterFree, HandleMatches, InOrder
<1>4. MemMatches
  BY DEF Init, MemMatches
<1> QED BY <1>1, <1>2, <1>3, <1>4 DEF IInv

(* The child writes n bytes into the pipe.                                 *)
LEMMA WriteIInv ==
  ASSUME IInv, NEW n \in 1..MaxBytes, Write(n)
  PROVE  IInv'
<1> USE DEF IInv, Write, ringVars, histVars
<1>1. TypeOK'
  BY MaxBytesAssumption DEF TypeOK
<1>2. ChunksMatchRing'
  BY DEF ChunksMatchRing, Chunk
<1>3. ReadingMatches'
  BY DEF ReadingMatches
<1>4. NoReadAfterFree' /\ HandleMatches' /\ MemMatches' /\ InOrder'
  BY DEF NoReadAfterFree, HandleMatches, MemMatches, InOrder, Chunk
<1> QED BY <1>1, <1>2, <1>3, <1>4

(* The child ends.                                                         *)
LEMMA DieIInv ==
  ASSUME IInv, Die
  PROVE  IInv'
<1> USE DEF IInv, Die, ringVars, histVars
<1>1. TypeOK'
  BY DEF TypeOK
<1>2. ChunksMatchRing'
  BY DEF ChunksMatchRing, Chunk
<1>3. ReadingMatches'
  BY DEF ReadingMatches
<1>4. NoReadAfterFree' /\ HandleMatches' /\ MemMatches' /\ InOrder'
  BY DEF NoReadAfterFree, HandleMatches, MemMatches, InOrder, Chunk
<1> QED BY <1>1, <1>2, <1>3, <1>4

(* The loop goes on to its next phase.                                     *)
LEMMA NextPhaseIInv ==
  ASSUME IInv, NextPhase
  PROVE  IInv'
<1> USE DEF IInv, NextPhase, ringVars, histVars
<1>1. TypeOK'
  BY DEF TypeOK
<1>2. ChunksMatchRing'
  BY DEF ChunksMatchRing, Chunk
<1>3. ReadingMatches'
  BY DEF ReadingMatches, Available
<1>4. NoReadAfterFree' /\ HandleMatches' /\ MemMatches' /\ InOrder'
  BY DEF NoReadAfterFree, HandleMatches, MemMatches, InOrder, Chunk
<1> QED BY <1>1, <1>2, <1>3, <1>4

(* The end of the data queues read_eof and stops the reading.              *)
LEMMA ReadEofIInv ==
  ASSUME IInv, ReadEof
  PROVE  IInv'
<1> USE DEF IInv, ReadEof, ringVars, histVars
<1>1. /\ evq' \in Seq(Events) /\ Len(evq') = Len(evq) + 1 /\ Len(evq) \in Nat
      /\ \A i \in 1..Len(evq) : evq'[i] = evq[i]
      /\ evq'[Len(evq) + 1].kind = "read_eof" /\ ChunksMatchRing'
  BY QueueOther DEF Event
<1>2. TypeOK'
  BY <1>1 DEF TypeOK
<1>3. handle = "open" /\ size < Capacity
  BY DEF HandleMatches, ReadingMatches
<1>4. ReadingMatches' /\ NoReadAfterFree'
  BY <1>3 DEF ReadingMatches, NoReadAfterFree, Available
<1>5. HandleMatches'
  BY <1>1, <1>3 DEF HandleMatches, Chunk
<1>6. MemMatches' /\ InOrder'
  BY DEF MemMatches, InOrder
<1> QED BY <1>1, <1>2, <1>4, <1>5, <1>6

(* The exit of the child queues process_close_handles.                     *)
LEMMA ExitCbIInv ==
  ASSUME IInv, ExitCb
  PROVE  IInv'
<1> USE DEF IInv, ExitCb, ringVars, histVars
<1>1. /\ evq' \in Seq(Events) /\ Len(evq') = Len(evq) + 1 /\ Len(evq) \in Nat
      /\ \A i \in 1..Len(evq) : evq'[i] = evq[i]
      /\ evq'[Len(evq) + 1].kind = "process_close_handles" /\ ChunksMatchRing'
  BY QueueOther DEF Event
<1>2. TypeOK'
  BY <1>1 DEF TypeOK
<1>3. handle = "open"
  BY DEF HandleMatches
<1>4. ReadingMatches' /\ NoReadAfterFree'
  BY <1>3 DEF ReadingMatches, NoReadAfterFree, Available
<1>5. HandleMatches'
  BY <1>1, <1>3 DEF HandleMatches, Chunk
<1>6. MemMatches' /\ InOrder'
  BY DEF MemMatches, InOrder
<1> QED BY <1>1, <1>2, <1>4, <1>5, <1>6

(* The close callback queues stream_cleanup_cb.                            *)
LEMMA CloseCbIInv ==
  ASSUME IInv, CloseCb
  PROVE  IInv'
<1> USE DEF IInv, CloseCb, ringVars, histVars
<1>1. /\ evq' \in Seq(Events) /\ Len(evq') = Len(evq) + 1 /\ Len(evq) \in Nat
      /\ \A i \in 1..Len(evq) : evq'[i] = evq[i]
      /\ evq'[Len(evq) + 1].kind = "stream_cleanup_cb"
      /\ evq'[Len(evq) + 1].at = produced /\ ChunksMatchRing'
  BY QueueOther DEF Event
<1>2. TypeOK'
  BY <1>1 DEF TypeOK
<1>3. ReadingMatches' /\ NoReadAfterFree'
  BY DEF ReadingMatches, NoReadAfterFree
<1>4. HandleMatches'
  BY <1>1 DEF HandleMatches, Chunk
<1>5. MemMatches' /\ InOrder'
  BY DEF MemMatches, InOrder
<1> QED BY <1>1, <1>2, <1>3, <1>4, <1>5

(* An event without a chunk is popped: the ring is left alone.             *)
LEMMA PopOther ==
  ASSUME IInv, NEW kind, kind # "read_event", Pop(kind),
         UNCHANGED <<readPos, writePos, size, produced, consumed>>
  PROVE  /\ evq' \in Seq(Events) /\ Len(evq') = Len(evq) - 1 /\ Len(evq) \in Nat \ {0}
         /\ \A i \in 1..Len(evq') : evq'[i] = evq[i + 1] /\ i + 1 \in 1..Len(evq)
         /\ evq[1].kind = kind /\ evq[1].at = consumed /\ 1 \in 1..Len(evq)
         /\ ChunksMatchRing'
<1>1. evq # <<>> /\ Head(evq) = evq[1] /\ 1 \in 1..Len(evq) /\ evq[1] \in Events
  BY TailFacts DEF IInv, TypeOK, Pop
<1>2. evq[1].kind = kind /\ evq[1].count = 0 /\ evq[1].at = consumed
  BY <1>1 DEF Pop, IInv, ChunksMatchRing, Chunk, Events
<1>3. /\ consumed' = consumed + evq[1].count
      /\ readPos' = Moved(readPos, evq[1].count)
      /\ size' = size - evq[1].count
  BY <1>2, MovedZero DEF IInv, TypeOK
<1> QED BY <1>1, <1>2, <1>3, PopAny DEF IInv, Pop

(* The end of the data is handled: nothing changes but the queue.          *)
LEMMA DeliverEofIInv ==
  ASSUME IInv, DeliverEof
  PROVE  IInv'
<1> USE DEF IInv, DeliverEof, ringVars, histVars
<1>1. /\ evq' \in Seq(Events) /\ Len(evq') = Len(evq) - 1 /\ Len(evq) \in Nat \ {0}
      /\ \A i \in 1..Len(evq') : evq'[i] = evq[i + 1] /\ i + 1 \in 1..Len(evq)
      /\ ChunksMatchRing'
  BY PopOther
<1>2. TypeOK'
  BY <1>1 DEF TypeOK
<1>3. ReadingMatches' /\ NoReadAfterFree'
  BY <1>1 DEF ReadingMatches, NoReadAfterFree, Available, Chunk
<1>4. HandleMatches'
  <2>1. ASSUME NEW i \in 1..Len(evq'), NEW j \in 1..Len(evq'),
               evq'[i].kind \in {"process_close_handles", "stream_cleanup_cb"}
        PROVE  /\ evq'[j].kind = evq'[i].kind => j = i
               /\ evq'[i].kind = "stream_cleanup_cb" /\ j > i => ~Chunk(j)'
    <3>1. /\ i + 1 \in 1..Len(evq) /\ j + 1 \in 1..Len(evq)
          /\ evq'[i] = evq[i + 1] /\ evq'[j] = evq[j + 1]
      BY <1>1
    <3>2. evq[j + 1].kind = evq[i + 1].kind => j + 1 = i + 1
      BY <2>1, <3>1 DEF HandleMatches
    <3>3. evq[i + 1].kind = "stream_cleanup_cb" /\ j + 1 > i + 1 => ~Chunk(j + 1)
      BY <3>1 DEF HandleMatches
    <3> QED BY <3>1, <3>2, <3>3 DEF Chunk
  <2>2. ASSUME NEW i \in 1..Len(evq')
        PROVE  /\ evq'[i].kind = "process_close_handles" => child = "reaped" /\ handle = "open"
               /\ evq'[i].kind = "stream_cleanup_cb" => handle = "closed" /\ evq'[i].at = produced
    BY <1>1 DEF HandleMatches
  <2>3. \A i \in 1..Len(evq') : \A j \in (i + 1)..Len(evq') : j \in 1..Len(evq') /\ j > i
    BY <1>1
  <2> QED BY <2>1, <2>2, <2>3 DEF HandleMatches
<1>5. MemMatches' /\ InOrder'
  BY DEF MemMatches, InOrder
<1> QED BY <1>1, <1>2, <1>3, <1>4, <1>5

(* The pipe is closed, and no second such event is behind this one.        *)
LEMMA ProcessCloseHandlesIInv ==
  ASSUME IInv, ProcessCloseHandles
  PROVE  IInv'
<1> USE DEF IInv, ProcessCloseHandles, ringVars, histVars
<1>1. /\ evq' \in Seq(Events) /\ Len(evq') = Len(evq) - 1 /\ Len(evq) \in Nat \ {0}
      /\ \A i \in 1..Len(evq') : evq'[i] = evq[i + 1] /\ i + 1 \in 1..Len(evq)
      /\ evq[1].kind = "process_close_handles" /\ 1 \in 1..Len(evq)
      /\ ChunksMatchRing'
  BY PopOther
<1>2. TypeOK'
  BY <1>1 DEF TypeOK
<1>3. ReadingMatches' /\ NoReadAfterFree'
  BY DEF ReadingMatches, NoReadAfterFree
<1>4. HandleMatches'
  <2>1. child = "reaped" /\ handle = "open"
    BY <1>1 DEF HandleMatches
  <2>2. ASSUME NEW i \in 1..Len(evq')
        PROVE  evq'[i].kind \notin {"process_close_handles", "stream_cleanup_cb"}
    BY <1>1, <2>1 DEF HandleMatches
  <2> QED BY <2>1, <2>2 DEF HandleMatches
<1>5. MemMatches' /\ InOrder'
  BY DEF MemMatches, InOrder
<1> QED BY <1>1, <1>2, <1>3, <1>4, <1>5

(* The ring is freed, and no chunk is behind this event.                   *)
LEMMA StreamCleanupIInv ==
  ASSUME IInv, StreamCleanup
  PROVE  IInv'
<1> USE DEF IInv, StreamCleanup, ringVars, histVars
<1>1. /\ evq' \in Seq(Events) /\ Len(evq') = Len(evq) - 1 /\ Len(evq) \in Nat \ {0}
      /\ \A i \in 1..Len(evq') : evq'[i] = evq[i + 1] /\ i + 1 \in 1..Len(evq)
      /\ evq[1].kind = "stream_cleanup_cb" /\ evq[1].at = consumed /\ 1 \in 1..Len(evq)
      /\ ChunksMatchRing'
  BY PopOther
<1>2. TypeOK'
  BY <1>1 DEF TypeOK
<1>3. /\ handle = "closed" /\ produced = consumed
      /\ \A j \in 2..Len(evq) : ~Chunk(j)
  BY <1>1 DEF HandleMatches
<1>4. size = 0
  BY <1>3 DEF ChunksMatchRing, TypeOK
<1>5. ReadingMatches' /\ NoReadAfterFree'
  BY <1>1, <1>3, <1>4 DEF ReadingMatches, NoReadAfterFree, Chunk
<1>6. HandleMatches'
  <2>1. ASSUME NEW i \in 1..Len(evq')
        PROVE  evq'[i].kind \notin {"process_close_handles", "stream_cleanup_cb"}
    BY <1>1, <1>3 DEF HandleMatches
  <2> QED BY <1>3, <2>1 DEF HandleMatches
<1>7. MemMatches' /\ InOrder'
  BY DEF MemMatches, InOrder
<1> QED BY <1>1, <1>2, <1>5, <1>6, <1>7

(* Reading n bytes in behind place w fills the places from there on with   *)
(* the numbers from p + 1 on, and no other.                                *)
LEMMA FilledType ==
  ASSUME NEW m \in [Places -> Nat], NEW w \in Nat, NEW n \in Nat, NEW p \in Nat
  PROVE  [i \in Places |-> IF w <= i /\ i < w + n THEN p + 1 + i - w ELSE m[i]]
           \in [Places -> Nat]
<1>1. ASSUME NEW i \in Places
      PROVE  (IF w <= i /\ i < w + n THEN p + 1 + i - w ELSE m[i]) \in Nat
  <2>1. i \in Nat /\ m[i] \in Nat
    BY CapacityAssumption DEF Places
  <2> QED BY <2>1
<1> QED BY <1>1

(* The place of a byte already there is not among those n places.          *)
LEMMA OldPlace ==
  ASSUME NEW r \in Places, NEW s \in 0..Capacity, NEW n \in 0..(Capacity - s),
         NEW k \in 0..(s - 1), Moved(r, s) + n <= Capacity
  PROVE  ~(Moved(r, s) <= Moved(r, k) /\ Moved(r, k) < Moved(r, s) + n)
BY CapacityAssumption DEF Places, Moved

(* The place of a new byte is, one behind the other.                       *)
LEMMA NewPlace ==
  ASSUME NEW r \in Places, NEW s \in 0..Capacity, NEW n \in 0..(Capacity - s),
         NEW k \in s..(s + n - 1), Moved(r, s) + n <= Capacity
  PROVE  Moved(r, k) = Moved(r, s) + (k - s) /\ k - s \in 0..(n - 1)
BY CapacityAssumption DEF Places, Moved

(* A bound that grows remains one.                                         *)
LEMMA SumGrows ==
  ASSUME NEW a \in Nat, NEW c \in Nat, NEW p \in Nat, NEW n \in Nat, a + c <= p
  PROVE  a + c <= p + n
OBVIOUS

(* A chunk is read behind the others and lies in free space.               *)
LEMMA ReadCbIInv ==
  ASSUME IInv, ReadCb
  PROVE  IInv'
<1> DEFINE n == Least(Available, SpaceAtOnce)
           ev == Event("read_event", n)
<1>1. /\ Capacity \in Nat /\ writePos \in 0..(Capacity - 1) /\ readPos \in 0..(Capacity - 1)
      /\ produced \in Nat /\ consumed \in Nat /\ size \in 0..Capacity /\ written \in Nat
      /\ writePos = Moved(readPos, size) /\ size = produced - consumed
  BY CapacityAssumption DEF IInv, TypeOK, Places, ChunksMatchRing
<1>2. n > 0 /\ writePos' = Moved(writePos, n) /\ size' = size + n /\ produced' = produced + n
  BY DEF ReadCb
<1>m. mem' = [i \in Places |->
               IF writePos <= i /\ i < writePos + n THEN produced + 1 + i - writePos
                                                    ELSE mem[i]]
  BY DEF ReadCb
<1>q. evq' = Append(evq, ev)
  BY DEF ReadCb
<1>r. reading /\ reading' = ~StopsWhenFull(n)
  BY DEF ReadCb
<1>u. UNCHANGED <<phase, child, written, readPos, overrun, handle, consumed, delivered>>
  BY DEF ReadCb
<1>3. /\ n \in Nat /\ n > 0 /\ n + size <= Capacity
      /\ n \in 0..Capacity /\ writePos + n <= Capacity
  <2>1. /\ SpaceAtOnce \in 0..(Capacity - size)
        /\ writePos + SpaceAtOnce <= Capacity
    BY <1>1, SpaceFits DEF IInv
  <2>2. Available \in Int
    BY <1>1 DEF Available
  <2> QED BY <1>1, <1>2, <2>1, <2>2 DEF Least
<1> HIDE DEF n
<1>p. produced \in Nat /\ n \in Nat /\ produced' = produced + n
  BY <1>1, <1>2, <1>3
<1>4. ev \in Events /\ ev.kind = "read_event" /\ ev.count = n /\ ev.pos = writePos
      /\ ev.at = produced
  BY <1>1, <1>3 DEF Event, Events
<1>5. /\ evq' \in Seq(Events) /\ Len(evq') = Len(evq) + 1 /\ Len(evq) \in Nat
      /\ \A i \in 1..Len(evq) : evq'[i] = evq[i] /\ evq[i] \in Events
      /\ evq'[Len(evq) + 1] = ev
  BY <1>4, <1>q, AppendFacts DEF IInv, TypeOK
<1>6. handle = "open" /\ handle' = "open"
  BY <1>r, <1>u DEF IInv, HandleMatches
<1> HIDE DEF ev
<1>s. /\ readPos \in Places /\ size \in 0..Capacity /\ n \in 0..(Capacity - size)
      /\ writePos = Moved(readPos, size) /\ Moved(readPos, size) + n <= Capacity
  BY <1>1, <1>3 DEF Places
<1>7. writePos' \in Places
  <2>1. writePos \in Places
    BY <1>1 DEF Places
  <2> QED BY <1>2, <1>3, <2>1, MovedType
<1>8. TypeOK'
  <2>1. mem' \in [Places -> Nat]
    <3>1. mem \in [Places -> Nat] /\ writePos \in Nat
      BY <1>1 DEF IInv, TypeOK
    <3> QED BY <1>m, <1>1, <1>3, <3>1, FilledType
  <2>2. size' \in 0..Capacity /\ produced' \in Nat /\ reading' \in BOOLEAN
    BY <1>1, <1>2, <1>3, <1>r
  <2> QED BY <1>5, <1>u, <1>7, <2>1, <2>2 DEF IInv, TypeOK
<1>9. ChunksMatchRing'
  <2>1. writePos' = Moved(readPos', size')
    <3>1. readPos \in Places /\ size \in 0..Capacity /\ n \in 0..(Capacity - size)
      BY <1>1, <1>3 DEF Places
    <3> QED BY <1>1, <1>2, <1>u, <3>1, MovedTwice
  <2>2. size' = produced' - consumed' /\ evq' # <<>>
    BY <1>1, <1>2, <1>3, <1>5, <1>u
  <2>3. ASSUME NEW i \in 1..Len(evq')
        PROVE  LET e == evq'[i] IN
                 /\ Chunk(i)' <=> e.count > 0
                 /\ e.pos < Capacity /\ e.pos + e.count <= Capacity
                 /\ e.at + e.count <= produced'
                 /\ i = 1 => e.at = consumed /\ e.pos = readPos
                 /\ i < Len(evq') => /\ evq'[i+1].at = e.at + e.count
                                    /\ evq'[i+1].pos = Moved(e.pos, e.count)
                 /\ i = Len(evq') => /\ produced' = e.at + e.count
                                    /\ writePos' = Moved(e.pos, e.count)
    <3>1. CASE i = Len(evq) + 1
      <4>1. i = 1 => produced = consumed /\ writePos = readPos
        <5>1. i = 1 => evq = <<>>
          BY <1>5, <3>1 DEF IInv, TypeOK
        <5> QED BY <1>1, <5>1, MovedZero DEF IInv, ChunksMatchRing, Places
      <4>2. /\ Chunk(i)' <=> ev.count > 0
            /\ ev.pos < Capacity /\ ev.pos + ev.count <= Capacity
            /\ ev.at + ev.count = produced' /\ writePos' = Moved(ev.pos, ev.count)
            /\ evq'[i] = ev /\ ~(i < Len(evq'))
        <5>1. evq'[i] = ev /\ ~(i < Len(evq'))
          BY <1>5, <3>1
        <5>2. Chunk(i)' <=> ev.count > 0
          BY <1>3, <1>4, <5>1 DEF Chunk
        <5>3. ev.pos < Capacity /\ ev.pos + ev.count <= Capacity
          BY <1>1, <1>3, <1>4
        <5> QED BY <1>2, <1>4, <5>1, <5>2, <5>3
      <4>3. produced' <= produced'
        BY <1>1, <1>2, <1>3
      <4>4. i = 1 => ev.at = consumed /\ ev.pos = readPos
        BY <1>4, <4>1
      <4> QED BY <4>2, <4>3, <4>4
    <3>2. CASE i \in 1..Len(evq) /\ i # Len(evq)
      <4>1. i + 1 \in 1..Len(evq)
        BY <1>5, <3>2
      <4>2. evq[i].at + evq[i].count <= produced /\ evq[i] \in Events
        BY <1>5, <3>2 DEF IInv, ChunksMatchRing
      <4>3. evq[i].at + evq[i].count <= produced'
        <5>1. evq[i].at \in Nat /\ evq[i].count \in Nat
          BY <4>2 DEF Events
        <5> QED BY <1>p, <4>2, <5>1, SumGrows
      <4> QED BY <1>5, <3>2, <4>1, <4>3 DEF IInv, ChunksMatchRing, Chunk
    <3>3. CASE i \in 1..Len(evq) /\ i = Len(evq)
      <4>1. evq[i].at + evq[i].count <= produced /\ evq[i] \in Events
        BY <1>5, <3>3 DEF IInv, ChunksMatchRing
      <4>2. evq[i].at + evq[i].count <= produced'
        <5>1. evq[i].at \in Nat /\ evq[i].count \in Nat
          BY <4>1 DEF Events
        <5> QED BY <1>p, <4>1, <5>1, SumGrows
      <4> QED BY <1>4, <1>5, <3>3, <4>2 DEF IInv, ChunksMatchRing, Chunk
    <3> QED BY <1>5, <3>1, <3>2, <3>3
  <2> QED BY <1>u, <2>1, <2>2, <2>3 DEF ChunksMatchRing
<1>10. ReadingMatches'
  <2>1. size' \in 0..Capacity /\ (reading' <=> size' # Capacity)
    <3>1. reading' \in BOOLEAN /\ (reading' <=> size + n # Capacity)
      BY <1>r DEF StopsWhenFull
    <3> QED BY <1>1, <1>2, <1>3, <3>1
  <2>2. reading' <=> size' < Capacity
    BY <1>1, <2>1
  <2> QED BY <2>2 DEF ReadingMatches
<1>11. NoReadAfterFree'
  BY <1>6 DEF NoReadAfterFree
<1>12. HandleMatches'
  BY <1>4, <1>5, <1>6, <1>u DEF IInv, HandleMatches, Chunk
<1>13. MemMatches'
  <2>1. ASSUME NEW k \in 0..(size' - 1)
        PROVE  mem'[Moved(readPos, k)] \in {NUL, consumed + 1 + k}
    <3>0. k \in 0..Capacity /\ readPos \in Places
      BY <1>1, <1>2, <1>3 DEF Places
    <3>1. Moved(readPos, k) \in Places
      BY <3>0, MovedType
    <3>2. CASE k < size
      <4>1. k \in 0..(size - 1)
        BY <1>1, <3>2
      <4>2. ~(writePos <= Moved(readPos, k) /\ Moved(readPos, k) < writePos + n)
        BY <1>s, <4>1, OldPlace
      <4>3. mem'[Moved(readPos, k)] = mem[Moved(readPos, k)]
        BY <1>m, <3>1, <4>2, Zenon
      <4> QED BY <4>1, <4>3 DEF IInv, MemMatches
    <3>3. CASE ~(k < size)
      <4>0. k \in size..(size + n - 1)
        BY <1>1, <1>2, <1>3, <3>3
      <4>1. /\ Moved(readPos, k) = writePos + (k - size)
            /\ k - size \in 0..(n - 1)
        BY <1>s, <4>0, NewPlace
      <4>2. writePos <= writePos + (k - size) /\ writePos + (k - size) < writePos + n
        BY <1>1, <1>3, <4>1
      <4>3. mem'[Moved(readPos, k)] = produced + 1 + Moved(readPos, k) - writePos
        BY <1>m, <3>1, <4>1, <4>2, Zenon
      <4>4. produced + 1 + (writePos + (k - size)) - writePos = consumed + 1 + k
        BY <1>1, <3>0
      <4> QED BY <4>1, <4>3, <4>4
    <3> QED BY <3>2, <3>3
  <2> QED BY <1>u, <2>1 DEF IInv, MemMatches
<1>14. InOrder'
  BY <1>u DEF IInv, InOrder
<1> QED BY <1>8, <1>9, <1>10, <1>11, <1>12, <1>13, <1>14 DEF IInv

(* The text of the first chunk: what the child wrote there, as far as it   *)
(* is still there.                                                         *)
LEMMA TextFacts ==
  ASSUME IInv, NEW n \in 0..size, readPos + n <= Capacity
  PROVE  /\ Text(readPos, n) \in Seq(Nat) /\ Len(Text(readPos, n)) \in 0..n
         /\ \A k \in 1..Len(Text(readPos, n)) : Text(readPos, n)[k] = consumed + k
<1> DEFINE ends == {k \in 0..n : k = n \/ mem[readPos + k] = NUL}
           len  == CHOOSE k \in ends : \A j \in ends : k <= j
<1>1. /\ Capacity \in Nat /\ readPos \in 0..(Capacity - 1)
      /\ consumed \in Nat /\ size \in 0..Capacity /\ n \in Nat
  BY CapacityAssumption DEF IInv, TypeOK, Places
<1>2. \E k \in ends : \A j \in ends : k <= j
  <2>1. ends \subseteq Nat /\ n \in ends
    BY <1>1
  <2> QED BY <2>1, LeastExists, Zenon
<1>3. len \in ends /\ \A j \in ends : len <= j
  BY <1>2, Zenon
<1> HIDE DEF len
<1>4. len \in 0..n
  BY <1>3
<1>5. ASSUME NEW k \in 1..len
      PROVE  mem[readPos + k - 1] = consumed + k
  <2>1. k - 1 \in 0..n /\ k - 1 < len /\ k - 1 \in 0..(size - 1) /\ k - 1 # n
    BY <1>1, <1>4
  <2>2. readPos + (k - 1) = readPos + k - 1
    BY <1>1
  <2>3. mem[readPos + k - 1] # NUL
    <3>1. k - 1 \notin ends
      <4>1. k - 1 \in ends => len <= k - 1
        BY <1>3
      <4> QED BY <1>4, <2>1, <4>1
    <3> QED BY <2>1, <2>2, <3>1
  <2>4. Moved(readPos, k - 1) = readPos + k - 1
    BY <1>1, <2>1 DEF Moved
  <2>5. mem[readPos + k - 1] \in {NUL, consumed + 1 + (k - 1)}
    BY <2>1, <2>4 DEF IInv, MemMatches
  <2> QED BY <1>1, <2>3, <2>5
<1>6. Text(readPos, n) = [k \in 1..len |-> mem[readPos + k - 1]]
  BY DEF Text, len
<1> HIDE DEF ends
<1>7. Text(readPos, n) = [k \in 1..len |-> consumed + k]
  BY <1>5, <1>6
<1> QED BY <1>1, <1>4, <1>7

(* What a concatenation is, byte by byte.                                  *)
LEMMA ConcatFacts ==
  ASSUME NEW s \in Seq(Nat), NEW t \in Seq(Nat)
  PROVE  /\ s \o t \in Seq(Nat) /\ Len(s \o t) = Len(s) + Len(t)
         /\ Len(s) \in Nat /\ Len(t) \in Nat
         /\ \A i \in 1..Len(s) : (s \o t)[i] = s[i] /\ s[i] \in Nat
         /\ \A i \in 1..Len(t) : (s \o t)[Len(s) + i] = t[i]
OBVIOUS

(* The first chunk is handed on and its space freed.                       *)
LEMMA DeliverChunkIInv ==
  ASSUME IInv, DeliverChunk
  PROVE  IInv'
<1> DEFINE n == evq[1].count
           text == Text(readPos, n)
<1>1. /\ evq # <<>> /\ evq' = Tail(evq) /\ Head(evq) = evq[1] /\ 1 \in 1..Len(evq)
      /\ evq[1].kind = "read_event" /\ evq[1] \in Events
  BY TailFacts DEF IInv, TypeOK, DeliverChunk, Pop
<1>2. n \in Nat /\ n > 0
  BY <1>1 DEF IInv, ChunksMatchRing, Chunk, Events
<1>3. /\ Capacity \in Nat /\ size \in 0..Capacity /\ readPos \in Places
      /\ consumed \in Nat /\ produced \in Nat
  BY CapacityAssumption DEF IInv, TypeOK
<1>4. size > 0
  <2>1. evq[1].at = consumed /\ evq[1].at + n <= produced /\ size = produced - consumed
    BY <1>1 DEF IInv, ChunksMatchRing
  <2> QED BY <1>2, <1>3, <2>1
<1>5. DataAtOnce # 0
  BY <1>4, DataOffered DEF IInv
<1>6. /\ overrun' = (overrun \/ readPos + n >= Capacity)
      /\ mem' = [i \in Places |-> IF i = readPos + n THEN NUL ELSE mem[i]]
      /\ delivered' = delivered \o text
      /\ readPos' = Moved(readPos, n)
      /\ size' = size - n
      /\ consumed' = consumed + n
      /\ reading' = (reading \/ Resumes)
      /\ UNCHANGED <<writePos, phase, child, written, handle, produced>>
  BY <1>1, <1>5 DEF DeliverChunk
<1>7. /\ evq' \in Seq(Events) /\ Len(evq') = Len(evq) - 1 /\ Len(evq) \in Nat \ {0}
      /\ \A i \in 1..Len(evq') : evq'[i] = evq[i + 1] /\ i + 1 \in 1..Len(evq)
      /\ n \in 0..size /\ readPos + n <= Capacity
      /\ readPos' \in Places /\ ChunksMatchRing'
  BY <1>1, <1>6, PopAny DEF IInv
<1>8. /\ text \in Seq(Nat) /\ Len(text) \in 0..n
      /\ \A k \in 1..Len(text) : text[k] = consumed + k
  BY <1>7, TextFacts
<1> HIDE DEF n, text
<1>9. /\ delivered' \in Seq(Nat) /\ Len(delivered') = Len(delivered) + Len(text)
      /\ Len(delivered) \in Nat /\ Len(text) \in Nat
      /\ \A i \in 1..Len(delivered) : delivered'[i] = delivered[i] /\ delivered[i] \in Nat
      /\ \A i \in 1..Len(text) : delivered'[Len(delivered) + i] = text[i]
  BY <1>6, <1>8, ConcatFacts DEF IInv, TypeOK
<1>10. size' \in 0..Capacity /\ size' < Capacity /\ consumed' \in Nat
  BY <1>2, <1>3, <1>6, <1>7
<1>11. reading' \in BOOLEAN /\ (reading' <=> reading \/ (size = Capacity /\ handle = "open"))
  BY <1>6, Zenon DEF Resumes, IInv, TypeOK
<1>12. TypeOK'
  <2>1. mem' \in [Places -> Nat]
    <3>1. ASSUME NEW i \in Places
          PROVE  (IF i = readPos + n THEN NUL ELSE mem[i]) \in Nat
      <4>1. mem[i] \in Nat
        BY DEF IInv, TypeOK
      <4> QED BY <4>1 DEF NUL
    <3> QED BY <1>6, <3>1
  <2>2. overrun' \in BOOLEAN
    BY <1>6 DEF IInv, TypeOK
  <2> QED BY <1>6, <1>7, <1>9, <1>10, <1>11, <2>1, <2>2 DEF IInv, TypeOK
<1>13. ReadingMatches'
  <2>1. \/ handle' # "open"
        \/ reading /\ size < Capacity
        \/ ~reading /\ size = Capacity
        \/ ~reading /\ child # "alive" /\ Available = 0 /\ size < Capacity
    BY <1>3, <1>6 DEF IInv, ReadingMatches
  <2>2. Available' = Available
    BY <1>6 DEF Available
  <2> QED BY <1>3, <1>6, <1>10, <1>11, <2>1, <2>2 DEF ReadingMatches
<1>14. handle # "freed"
  BY <1>1 DEF IInv, NoReadAfterFree, Chunk
<1>15. NoReadAfterFree'
  BY <1>6, <1>14 DEF NoReadAfterFree
<1>16. HandleMatches'
  <2>1. (reading' => handle = "open") /\ (child # "reaped" => handle = "open")
    BY <1>11 DEF IInv, HandleMatches
  <2>2. ASSUME NEW i \in 1..Len(evq'), NEW j \in 1..Len(evq'),
               evq'[i].kind \in {"process_close_handles", "stream_cleanup_cb"}
        PROVE  /\ evq'[j].kind = evq'[i].kind => j = i
               /\ evq'[i].kind = "stream_cleanup_cb" /\ j > i => ~Chunk(j)'
    <3>1. /\ i + 1 \in 1..Len(evq) /\ j + 1 \in 1..Len(evq)
          /\ evq'[i] = evq[i + 1] /\ evq'[j] = evq[j + 1]
      BY <1>7
    <3>2. evq[j + 1].kind = evq[i + 1].kind => j + 1 = i + 1
      BY <2>2, <3>1 DEF IInv, HandleMatches
    <3>3. evq[i + 1].kind = "stream_cleanup_cb" /\ j + 1 > i + 1 => ~Chunk(j + 1)
      BY <3>1 DEF IInv, HandleMatches
    <3> QED BY <3>1, <3>2, <3>3 DEF Chunk
  <2>3. ASSUME NEW i \in 1..Len(evq')
        PROVE  /\ evq'[i].kind = "process_close_handles" => child = "reaped" /\ handle = "open"
               /\ evq'[i].kind = "stream_cleanup_cb" => handle = "closed" /\ evq'[i].at = produced
    BY <1>7 DEF IInv, HandleMatches
  <2>4. \A i \in 1..Len(evq') : \A j \in (i + 1)..Len(evq') : j \in 1..Len(evq') /\ j > i
    BY <1>7
  <2> QED BY <1>6, <2>1, <2>2, <2>3, <2>4 DEF HandleMatches
<1>17. MemMatches'
  <2>1. ASSUME NEW k \in 0..(size' - 1)
        PROVE  mem'[Moved(readPos', k)] \in {NUL, consumed' + 1 + k}
    <3>1. /\ n \in 0..Capacity /\ k \in 0..(Capacity - n) /\ n + k \in 0..(size - 1)
          /\ n + k \in 0..Capacity
      BY <1>2, <1>3, <1>6, <1>7
    <3>2. Moved(readPos', k) = Moved(readPos, n + k)
      BY <1>3, <1>6, <3>1, MovedTwice
    <3>3. Moved(readPos, n + k) \in Places
      BY <1>3, <3>1, MovedType
    <3>4. mem[Moved(readPos, n + k)] \in {NUL, consumed + 1 + (n + k)}
      BY <3>1 DEF IInv, MemMatches
    <3>5. mem'[Moved(readPos, n + k)] \in {NUL, mem[Moved(readPos, n + k)]}
      BY <1>6, <3>3
    <3>6. consumed + 1 + (n + k) = consumed' + 1 + k
      BY <1>2, <1>3, <1>6
    <3> QED BY <3>2, <3>4, <3>5, <3>6
  <2>2. ASSUME NEW i \in 1..Len(delivered')
        PROVE  delivered'[i] <= consumed'
    <3>1. CASE i <= Len(delivered)
      <4>1. i \in 1..Len(delivered)
        BY <1>9, <3>1
      <4>2. delivered[i] \in Nat /\ delivered[i] <= consumed
        BY <1>9, <4>1 DEF IInv, MemMatches
      <4> QED BY <1>2, <1>3, <1>6, <1>9, <4>1, <4>2
    <3>2. CASE ~(i <= Len(delivered))
      <4>1. /\ i - Len(delivered) \in 1..Len(text)
            /\ i = Len(delivered) + (i - Len(delivered))
        BY <1>9, <3>2
      <4>2. delivered'[i] = consumed + (i - Len(delivered))
        BY <1>8, <1>9, <4>1
      <4> QED BY <1>2, <1>3, <1>6, <1>8, <4>1, <4>2
    <3> QED BY <3>1, <3>2
  <2> QED BY <2>1, <2>2 DEF MemMatches
<1>18. InOrder'
  <2> SUFFICES ASSUME NEW i \in 1..Len(delivered'), NEW j \in 1..(i - 1)
               PROVE  delivered'[j] < delivered'[i]
    BY DEF InOrder
  <2>1. CASE i <= Len(delivered)
    <3>1. i \in 1..Len(delivered) /\ j \in 1..Len(delivered)
      BY <1>9, <2>1
    <3> QED BY <1>9, <3>1 DEF IInv, InOrder
  <2>2. CASE ~(i <= Len(delivered))
    <3>1. /\ i - Len(delivered) \in 1..Len(text)
          /\ i = Len(delivered) + (i - Len(delivered))
      BY <1>9, <2>2
    <3>2. delivered'[i] = consumed + (i - Len(delivered))
      BY <1>8, <1>9, <3>1
    <3>3. CASE j <= Len(delivered)
      <4>1. j \in 1..Len(delivered)
        BY <1>9, <3>3
      <4>2. delivered'[j] = delivered[j] /\ delivered[j] \in Nat /\ delivered[j] <= consumed
        BY <1>9, <4>1 DEF IInv, MemMatches
      <4> QED BY <1>3, <1>9, <3>1, <3>2, <4>2
    <3>4. CASE ~(j <= Len(delivered))
      <4>1. /\ j - Len(delivered) \in 1..Len(text)
            /\ j = Len(delivered) + (j - Len(delivered))
        BY <1>9, <3>1, <3>4
      <4>2. delivered'[j] = consumed + (j - Len(delivered))
        BY <1>8, <1>9, <4>1
      <4> QED BY <1>3, <1>9, <3>1, <3>2, <4>1, <4>2
    <3> QED BY <3>3, <3>4
  <2> QED BY <2>1, <2>2
<1> QED BY <1>7, <1>12, <1>13, <1>15, <1>16, <1>17, <1>18 DEF IInv

(* A step that changes nothing.                                            *)
LEMMA StutterIInv ==
  ASSUME IInv, UNCHANGED vars
  PROVE  IInv'
<1> USE DEF IInv, vars, ringVars, histVars
<1>1. TypeOK'
  BY DEF TypeOK
<1>2. ChunksMatchRing'
  BY DEF ChunksMatchRing, Chunk
<1>3. ReadingMatches'
  BY DEF ReadingMatches, Available
<1>4. NoReadAfterFree' /\ HandleMatches' /\ MemMatches' /\ InOrder'
  BY DEF NoReadAfterFree, HandleMatches, MemMatches, InOrder, Chunk
<1> QED BY <1>1, <1>2, <1>3, <1>4

-----------------------------------------------------------------------------
(* The theorems.                                                           *)

(* IInv holds at the start and every step of child, loop and handlers      *)
(* keeps it.                                                               *)
THEOREM Invariance == Spec => []IInv
<1>1. IInv /\ [Next]_vars => IInv'
  <2> SUFFICES ASSUME IInv, [Next]_vars PROVE IInv'
    OBVIOUS
  <2>1. ASSUME NEW n \in 1..MaxBytes, Write(n) PROVE IInv'
    BY <2>1, WriteIInv
  <2>2. CASE Die
    BY <2>2, DieIInv
  <2>3. CASE ReadCb
    BY <2>3, ReadCbIInv
  <2>4. CASE ReadEof
    BY <2>4, ReadEofIInv
  <2>5. CASE ExitCb
    BY <2>5, ExitCbIInv
  <2>6. CASE CloseCb
    BY <2>6, CloseCbIInv
  <2>7. CASE NextPhase
    BY <2>7, NextPhaseIInv
  <2>8. CASE DeliverChunk
    BY <2>8, DeliverChunkIInv
  <2>9. CASE DeliverEof
    BY <2>9, DeliverEofIInv
  <2>10. CASE ProcessCloseHandles
    BY <2>10, ProcessCloseHandlesIInv
  <2>11. CASE StreamCleanup
    BY <2>11, StreamCleanupIInv
  <2>12. CASE UNCHANGED vars
    BY <2>12, StutterIInv
  <2> QED BY <2>1, <2>2, <2>3, <2>4, <2>5, <2>6, <2>7, <2>8, <2>9, <2>10, <2>11, <2>12
          DEF Next, Handle
<1> QED BY <1>1, InitIInv, PTL DEF Spec

(* Every variable of the stream keeps its type: the three callbacks and    *)
(* the four handlers leave no pointer of the ring outside of its memory.   *)
THEOREM TypeCorrect == Spec => []TypeOK
<1>1. IInv => TypeOK
  BY DEF IInv
<1> QED BY <1>1, Invariance, PTL

(* What is queued for out_data_cb is what is in the ring, for a ring of    *)
(* any capacity and a child that writes any number of bytes.               *)
THEOREM ChunksCorrect == Spec => []ChunksMatchRing
<1>1. IInv => ChunksMatchRing
  BY DEF IInv
<1> QED BY <1>1, Invariance, PTL

(* full_cb and nonfull_cb stop and resume the reading exactly as the ring  *)
(* is full and is not.                                                     *)
THEOREM ReadingCorrect == Spec => []ReadingMatches
<1>1. IInv => ReadingMatches
  BY DEF IInv
<1> QED BY <1>1, Invariance, PTL

(* No read_event is left when stream_cleanup_cb frees the ring.            *)
THEOREM FreeCorrect == Spec => []NoReadAfterFree
<1>1. IInv => NoReadAfterFree
  BY DEF IInv
<1> QED BY <1>1, Invariance, PTL

(* What is handed on is in the order in which the child wrote it.          *)
THEOREM OrderCorrect == Spec => []InOrder
<1>1. IInv => InOrder
  BY DEF IInv
<1> QED BY <1>1, Invariance, PTL
-----------------------------------------------------------------------------
(* The channel.                                                            *)

(* What is read in leaves the bytes that are there, and is there itself.   *)
LEMMA ReadCbBytes ==
  ASSUME IInv, ReadCb, produced <= written
  PROVE  /\ size' > size /\ produced' <= written /\ readPos \in Places
         /\ \A k \in 0..(size - 1) : mem'[Moved(readPos, k)] = mem[Moved(readPos, k)]
         /\ \A k \in size..(size' - 1) : mem'[Moved(readPos, k)] # NUL
<1> DEFINE n == Least(Available, SpaceAtOnce)
<1>1. /\ Capacity \in Nat /\ writePos \in 0..(Capacity - 1) /\ readPos \in Places
      /\ produced \in Nat /\ size \in 0..Capacity /\ written \in Nat
      /\ writePos = Moved(readPos, size)
  BY CapacityAssumption DEF IInv, TypeOK, Places, ChunksMatchRing
<1>2. n > 0 /\ size' = size + n /\ produced' = produced + n
  BY DEF ReadCb
<1>3. mem' = [i \in Places |->
               IF writePos <= i /\ i < writePos + n THEN produced + 1 + i - writePos
                                                    ELSE mem[i]]
  BY DEF ReadCb
<1>4. n \in 0..(Capacity - size) /\ writePos + n <= Capacity /\ n <= written - produced
  <2>1. /\ SpaceAtOnce \in 0..(Capacity - size)
        /\ writePos + SpaceAtOnce <= Capacity
    BY <1>1, SpaceFits DEF IInv
  <2>2. Available = written - produced
    BY DEF Available
  <2> QED BY <1>1, <1>2, <2>1, <2>2 DEF Least
<1> HIDE DEF n
<1>5. ASSUME NEW k \in 0..(size - 1) PROVE mem'[Moved(readPos, k)] = mem[Moved(readPos, k)]
  <2>1. k \in 0..Capacity
    BY <1>1
  <2>2. Moved(readPos, k) \in Places
    BY <1>1, <2>1, MovedType
  <2>3. ~(writePos <= Moved(readPos, k) /\ Moved(readPos, k) < writePos + n)
    BY <1>1, <1>4, OldPlace
  <2> QED BY <1>3, <2>2, <2>3, Zenon
<1>6. ASSUME NEW k \in size..(size' - 1) PROVE mem'[Moved(readPos, k)] # NUL
  <2>1. k \in 0..Capacity /\ k \in size..(size + n - 1)
    BY <1>1, <1>2, <1>4
  <2>2. Moved(readPos, k) \in Places
    BY <1>1, <2>1, MovedType
  <2>3. Moved(readPos, k) = writePos + (k - size) /\ k - size \in 0..(n - 1)
    BY <1>1, <1>4, <2>1, NewPlace
  <2>4. writePos <= Moved(readPos, k) /\ Moved(readPos, k) < writePos + n
    BY <1>1, <1>4, <2>3
  <2>5. mem'[Moved(readPos, k)] = produced + 1 + Moved(readPos, k) - writePos
    BY <1>3, <2>2, <2>4, Zenon
  <2> QED BY <1>1, <2>1, <2>3, <2>5 DEF NUL
<1> QED BY <1>1, <1>2, <1>4, <1>5, <1>6

(* A read_event that is handled has its chunk in front of the ring.        *)
LEMMA DeliverChunkStep ==
  ASSUME IInv, DeliverChunk, NEW n, n = evq[1].count
  PROVE  /\ n \in 1..size /\ readPos + n <= Capacity /\ readPos \in Places
         /\ mem' = [i \in Places |-> IF i = readPos + n THEN NUL ELSE mem[i]]
         /\ delivered' = delivered \o Text(readPos, n)
         /\ readPos' = Moved(readPos, n) /\ size' = size - n /\ consumed' = consumed + n
         /\ UNCHANGED <<written, produced>>
<1>1. /\ evq # <<>> /\ evq' = Tail(evq) /\ Head(evq) = evq[1] /\ 1 \in 1..Len(evq)
      /\ evq[1].kind = "read_event" /\ evq[1] \in Events
  BY TailFacts DEF IInv, TypeOK, DeliverChunk, Pop
<1>2. n \in Nat /\ n > 0
  BY <1>1 DEF IInv, ChunksMatchRing, Chunk, Events
<1>3. /\ size \in 0..Capacity /\ readPos \in Places /\ consumed \in Nat /\ produced \in Nat
      /\ Capacity \in Nat
  BY CapacityAssumption DEF IInv, TypeOK
<1>4. /\ evq[1].at = consumed /\ evq[1].at + n <= produced /\ size = produced - consumed
      /\ evq[1].pos = readPos /\ evq[1].pos + n <= Capacity
  BY <1>1 DEF IInv, ChunksMatchRing
<1>5. n \in 1..size
  BY <1>2, <1>3, <1>4
<1>6. DataAtOnce # 0
  BY <1>3, <1>5, DataOffered DEF IInv
<1> QED BY <1>1, <1>3, <1>4, <1>5, <1>6 DEF DeliverChunk

(* Reading fills the ring behind what is in it, and a terminator takes the *)
(* first place of what remains.                                            *)
LEMMA RestKept ==
  ASSUME IInv, RestWhole, [Next]_vars
  PROVE  RestWhole'
<1>1. CASE ReadCb
  <2>1. /\ size' > size /\ produced' <= written
        /\ \A k \in 0..(size - 1) : mem'[Moved(readPos, k)] = mem[Moved(readPos, k)]
        /\ \A k \in size..(size' - 1) : mem'[Moved(readPos, k)] # NUL
    BY <1>1, ReadCbBytes DEF RestWhole
  <2>2. size \in Int /\ size' \in Int
    <3>1. size \in Nat /\ size' = size + Least(Available, SpaceAtOnce)
      BY <1>1, CapacityAssumption DEF ReadCb, IInv, TypeOK
    <3>2. Least(Available, SpaceAtOnce) \in Int
      <4>1. SpaceAtOnce \in 0..(Capacity - size) /\ Available \in Int
        BY SpaceFits DEF IInv, ChunksMatchRing, TypeOK, Available
      <4> QED BY <4>1 DEF Least
    <3> QED BY <3>1, <3>2
  <2>3. ASSUME NEW k \in 1..(size' - 1) PROVE mem'[Moved(readPos, k)] # NUL
    <3>1. CASE k < size
      <4>1. k \in 0..(size - 1) /\ k \in 1..(size - 1)
        BY <2>2, <3>1
      <4> QED BY <2>1, <4>1 DEF RestWhole
    <3>2. CASE ~(k < size)
      <4>1. \A a, b \in Int : \A i \in 1..(b - 1) : ~(i < a) => i \in a..(b - 1)
        OBVIOUS
      <4>2. k \in size..(size' - 1)
        BY <2>2, <3>2, <4>1
      <4> QED BY <2>1, <4>2
    <3> QED BY <3>1, <3>2
  <2>4. UNCHANGED <<written, readPos>>
    BY <1>1 DEF ReadCb
  <2> QED BY <2>1, <2>3, <2>4 DEF RestWhole, Moved
<1>2. CASE DeliverChunk
  <2> DEFINE n == evq[1].count
  <2>1. /\ n \in 1..size /\ readPos + n <= Capacity /\ readPos \in Places
        /\ mem' = [i \in Places |-> IF i = readPos + n THEN NUL ELSE mem[i]]
        /\ readPos' = Moved(readPos, n) /\ size' = size - n
        /\ UNCHANGED <<written, produced>>
    BY <1>2, DeliverChunkStep
  <2>2. Capacity \in Nat /\ size \in 0..Capacity
    BY CapacityAssumption DEF IInv, TypeOK
  <2> HIDE DEF n
  <2>3. ASSUME NEW k \in 1..(size' - 1) PROVE mem'[Moved(readPos', k)] # NUL
    <3>1. /\ n \in 0..Capacity /\ k \in 0..(Capacity - n) /\ n + k \in 1..(size - 1)
          /\ n + k \in 0..Capacity
      BY <2>1, <2>2
    <3>2. Moved(readPos', k) = Moved(readPos, n + k) /\ Moved(readPos, n + k) \in Places
      BY <2>1, <3>1, MovedTwice, MovedType
    <3>3. Moved(readPos, n + k) # readPos + n
      BY <2>1, <2>2, <3>1 DEF Moved, Places
    <3>4. mem[Moved(readPos, n + k)] # NUL
      BY <3>1 DEF RestWhole
    <3> QED BY <2>1, <3>2, <3>3, <3>4
  <2> QED BY <2>1, <2>3 DEF RestWhole, Moved
<1>3. CASE \E n \in 1..MaxBytes : Write(n)
  <2>1. PICK n \in 1..MaxBytes : Write(n)
    BY <1>3
  <2>2. n \in Nat /\ written' = written + n /\ written \in Nat /\ produced \in Nat
        /\ UNCHANGED <<ringVars, produced>>
    BY <2>1, MaxBytesAssumption DEF Write, IInv, TypeOK, histVars
  <2> QED BY <2>2 DEF RestWhole, Moved, ringVars
<1>4. CASE \/ Die \/ ReadEof \/ ExitCb \/ CloseCb \/ NextPhase \/ UNCHANGED vars
           \/ DeliverEof \/ ProcessCloseHandles \/ StreamCleanup
  <2>1. UNCHANGED <<written, produced, size, mem, readPos>>
    BY <1>4 DEF Die, ReadEof, ExitCb, CloseCb, NextPhase, vars, DeliverEof, ProcessCloseHandles,
                StreamCleanup, ringVars, histVars
  <2> QED BY <2>1 DEF RestWhole, Moved
<1> QED BY <1>1, <1>2, <1>3, <1>4 DEF Next, Handle

(* The text of the first chunk is all of it, or nothing.                   *)
LEMMA TextWhole ==
  ASSUME IInv, RestWhole, NEW n \in 1..size, readPos + n <= Capacity
  PROVE  Text(readPos, n) = IF Torn THEN <<>> ELSE [i \in 1..n |-> consumed + i]
<1> DEFINE ends == {k \in 0..n : k = n \/ mem[readPos + k] = NUL}
           len  == CHOOSE k \in ends : \A j \in ends : k <= j
<1>1. /\ Capacity \in Nat /\ readPos \in 0..(Capacity - 1) /\ size \in 0..Capacity
      /\ n \in Nat /\ n > 0 /\ n \in 0..size
  BY CapacityAssumption DEF IInv, TypeOK, Places
<1>2. Text(readPos, n) = [k \in 1..len |-> mem[readPos + k - 1]]
  BY DEF Text
<1>3. len \in ends /\ \A j \in ends : len <= j
  <2>1. ends \subseteq Nat /\ n \in ends
    BY <1>1
  <2>2. \E k \in ends : \A j \in ends : k <= j
    BY <2>1, LeastExists, Zenon
  <2> QED BY <2>2, Zenon
<1>4. /\ Text(readPos, n) \in Seq(Nat)
      /\ \A k \in 1..Len(Text(readPos, n)) : Text(readPos, n)[k] = consumed + k
  BY <1>1, TextFacts
<1> HIDE DEF len
<1>5. CASE Torn
  <2>1. readPos + 0 = readPos /\ mem[readPos] = NUL
    BY <1>1, <1>5 DEF Torn
  <2>2. 0 \in ends
    BY <1>1, <2>1
  <2>3. len = 0
    BY <1>1, <1>3, <2>2
  <2> QED BY <1>2, <1>5, <2>3
<1>6. CASE ~Torn
  <2>1. ASSUME NEW k \in 0..(n - 1) PROVE mem[readPos + k] # NUL
    <3>1. CASE k = 0
      <4>1. readPos + k = readPos /\ size > 0
        BY <1>1, <3>1
      <4> QED BY <1>6, <4>1 DEF Torn
    <3>2. CASE k # 0
      <4>1. k \in 1..(size - 1) /\ Moved(readPos, k) = readPos + k
        BY <1>1, <3>2 DEF Moved
      <4> QED BY <4>1 DEF RestWhole
    <3> QED BY <3>1, <3>2
  <2>2. len = n
    <3>1. len \in 0..n /\ (len = n \/ mem[readPos + len] = NUL)
      BY <1>3
    <3> QED BY <1>1, <2>1, <3>1
  <2>3. Len(Text(readPos, n)) = n /\ DOMAIN Text(readPos, n) = 1..n
    BY <1>1, <1>2, <2>2
  <2>4. Text(readPos, n) = [i \in 1..n |-> Text(readPos, n)[i]]
    BY <1>2, <2>2
  <2>5. \A i \in 1..n : Text(readPos, n)[i] = consumed + i
    BY <1>4, <2>3
  <2>6. Text(readPos, n) = [i \in 1..n |-> consumed + i]
    BY <2>4, <2>5
  <2> QED BY <1>6, <2>6
<1> QED BY <1>5, <1>6

(* Each step is one of the channel, or none.                               *)
LEMMA ChannelStep ==
  ASSUME IInv, RestWhole, [Next]_vars
  PROVE  Abstract!Next \/ UNCHANGED Abstract!vars
<1>1. CASE ReadCb
  <2>1. /\ size' > size /\ readPos \in Places
        /\ \A k \in 0..(size - 1) : mem'[Moved(readPos, k)] = mem[Moved(readPos, k)]
        /\ \A k \in size..(size' - 1) : mem'[Moved(readPos, k)] # NUL
    BY <1>1, ReadCbBytes DEF RestWhole
  <2>2. Moved(readPos, 0) = readPos
    BY <2>1, MovedZero
  <2>3. /\ UNCHANGED <<written, readPos, consumed, delivered>>
        /\ size \in Nat /\ size' = size + Least(Available, SpaceAtOnce)
        /\ Least(Available, SpaceAtOnce) \in Int
    <3>1. SpaceAtOnce \in 0..(Capacity - size) /\ Available \in Int
      BY SpaceFits DEF IInv, ChunksMatchRing, TypeOK, Available
    <3> QED BY <1>1, <3>1, CapacityAssumption DEF ReadCb, IInv, TypeOK, Least
  <2>4. CASE size = 0
    <3>1. 0 \in size..(size' - 1)
      BY <2>1, <2>3, <2>4
    <3>2. mem'[readPos] # NUL
      BY <2>1, <2>2, <3>1
    <3> QED BY <2>3, <2>4, <3>2 DEF Torn, Abstract!vars
  <2>5. CASE size # 0
    <3>1. 0 \in 0..(size - 1) /\ size > 0 /\ size' > 0
      BY <2>1, <2>3, <2>5
    <3>2. mem'[readPos] = mem[readPos]
      BY <2>1, <2>2, <3>1
    <3> QED BY <2>3, <3>1, <3>2 DEF Torn, Abstract!vars
  <2> QED BY <2>4, <2>5
<1>2. CASE DeliverChunk
  <2> DEFINE n == evq[1].count
  <2>1. /\ n \in 1..size /\ readPos + n <= Capacity
        /\ delivered' = delivered \o Text(readPos, n)
        /\ size' = size - n /\ consumed' = consumed + n
        /\ UNCHANGED <<written, produced>>
    BY <1>2, DeliverChunkStep
  <2> HIDE DEF n
  <2>2. /\ size = produced - consumed /\ produced <= written /\ delivered \in Seq(Nat)
        /\ consumed \in Nat /\ produced \in Nat /\ written \in Nat /\ size \in Int
    BY CapacityAssumption DEF IInv, TypeOK, ChunksMatchRing, RestWhole
  <2>3. consumed' \in (consumed + 1)..written /\ consumed' - consumed = n
    BY <2>1, <2>2
  <2>4. delivered' = IF Torn THEN delivered
                     ELSE delivered \o [i \in 1..(consumed' - consumed) |-> consumed + i]
    <3>1. Text(readPos, n) = IF Torn THEN <<>> ELSE [i \in 1..n |-> consumed + i]
      BY <2>1, TextWhole
    <3>2. delivered \o <<>> = delivered
      BY <2>2
    <3> QED BY <2>1, <2>3, <3>1, <3>2
  <2>5. Torn' \in {FALSE, consumed' < written}
    <3>1. size' > 0 => consumed' < written
      BY <2>1, <2>2
    <3> QED BY <3>1 DEF Torn
  <2>6. Abstract!Take
    BY <2>1, <2>3, <2>4, <2>5 DEF Abstract!Take
  <2> QED BY <2>6 DEF Abstract!Next
<1>3. CASE \E n \in 1..MaxBytes : Write(n)
  <2>1. PICK n \in 1..MaxBytes : Write(n)
    BY <1>3
  <2>2. written' \in Nat /\ written' > written
    BY <2>1, MaxBytesAssumption DEF Write, IInv, TypeOK
  <2>3. Abstract!Send
    BY <2>1, <2>2 DEF Abstract!Send, Write, Torn, ringVars, histVars
  <2> QED BY <2>3 DEF Abstract!Next
<1>4. CASE \/ Die \/ ReadEof \/ ExitCb \/ CloseCb \/ NextPhase \/ UNCHANGED vars
           \/ DeliverEof \/ ProcessCloseHandles \/ StreamCleanup
  BY <1>4 DEF Abstract!vars, Torn, Die, ReadEof, ExitCb, CloseCb, NextPhase, vars, DeliverEof,
              ProcessCloseHandles, StreamCleanup, ringVars, histVars
<1> QED BY <1>1, <1>2, <1>3, <1>4 DEF Next, Handle

(* For any capacity and any child: what is handed on is what was written,  *)
(* in order, chunk by chunk, each of them whole or lost, and lost only     *)
(* behind one that was handed on when its first byte had been written.     *)
THEOREM RefinesChannel == Spec => ImplementsChannel
<1>1. Init => RestWhole /\ Abstract!Init
  BY DEF Init, RestWhole, Abstract!Init, Torn
<1>2. IInv /\ RestWhole /\ [Next]_vars => RestWhole'
  BY RestKept
<1>3. IInv /\ RestWhole /\ [Next]_vars => [Abstract!Next]_(Abstract!vars)
  BY ChannelStep
<1> QED BY <1>1, <1>2, <1>3, Invariance, PTL DEF Spec, ImplementsChannel, Abstract!Spec
=============================================================================

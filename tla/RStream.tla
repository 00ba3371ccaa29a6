------------------------------- MODULE RStream -------------------------------
(***************************************************************************)
(* What a child writes, on its way to nav: event/rstream.c reads the pipe  *)
(* into the ring buffer of rbuffer.c, one queued read_event for a chunk,   *)
(* and shell.c's out_data_cb hands the chunk on and frees its space.  A    *)
(* full ring stops the reading.  When the child has ended, events close    *)
(* the pipe and free the ring (module ProcessLife).                        *)
(*                                                                         *)
(* Bytes are numbered from 1 in the order in which the child writes them.  *)
(***************************************************************************)
EXTENDS Integers, Sequences

CONSTANTS
  Capacity,   \* rbuffer_capacity
  MaxBytes    \* bound: bytes the child writes

ASSUME CapacityAssumption == Capacity \in Nat \ {0}
ASSUME MaxBytesAssumption == MaxBytes \in Nat

VARIABLES
  phase,      \* what the loop is at: the event queue, the poll, its signals
  child,      \* the child as the kernel sees it
  written,    \* bytes the child has written
  mem,        \* the ring's memory: the number of the byte in each place, or NUL
  readPos, writePos, size,   \* RBuffer's read_ptr, write_ptr and size
  overrun,    \* a byte behind the ring's memory was written
  reading,    \* uv_read_start is in force
  handle,     \* the libuv handle of the stream
  evq,        \* Loop.eventq, the events about the stream
  produced,   \* bytes put in the ring (history)
  consumed,   \* bytes taken from it (history)
  delivered   \* bytes handed on (history)

ringVars == <<mem, readPos, writePos, size, overrun>>
histVars == <<produced, consumed, delivered>>
vars == <<phase, child, written, ringVars, reading, handle, evq, histVars>>

-----------------------------------------------------------------------------
NUL    == 0
Places == 0..(Capacity - 1)

(* An event; where its chunk lies and what was put in before is history.   *)
Event(kind, n) == [kind |-> kind, count |-> n, pos |-> writePos, at |-> produced]
Events == [kind : {"read_event", "read_eof", "process_close_handles", "stream_cleanup_cb"},
           count : Nat, pos : Nat, at : Nat]

(* rstream_init, rstream_start: an empty ring, reading.                    *)
Init ==
  /\ phase = "events"
  /\ child = "alive"
  /\ written = 0
  /\ mem = [i \in Places |-> NUL]
  /\ readPos = 0 /\ writePos = 0 /\ size = 0
  /\ overrun = FALSE
  /\ reading = TRUE
  /\ handle = "open"
  /\ evq = <<>>
  /\ produced = 0 /\ consumed = 0
  /\ delivered = <<>>

-----------------------------------------------------------------------------
(* The child.                                                              *)
Write(n) ==
  /\ child = "alive"
  /\ written + n <= MaxBytes
  /\ written' = written + n
  /\ UNCHANGED <<phase, child, ringVars, reading, handle, evq, histVars>>

Die ==
  /\ child = "alive"
  /\ child' = "dead"
  /\ UNCHANGED <<phase, written, ringVars, reading, handle, evq, histVars>>

-----------------------------------------------------------------------------
(* The ring: rbuffer_write_ptr's count, rbuffer_read_ptr's count, and a    *)
(* pointer moved on by rbuffer_produced and rbuffer_consumed.              *)
SpaceAtOnceToEnd == Capacity - writePos  \* mutant: the reader is not looked at
SpaceAtOnce ==
  CASE size = Capacity -> 0
    [] size < Capacity /\ writePos >= readPos -> Capacity - writePos
    [] OTHER -> readPos - writePos

DataAtOnce ==
  CASE size = 0 -> 0
    [] size # 0 /\ readPos < writePos -> writePos - readPos
    [] OTHER -> Capacity - readPos

Moved(pos, n) == IF pos + n >= Capacity THEN pos + n - Capacity ELSE pos + n

Least(a, b) == IF a <= b THEN a ELSE b
Available   == written - produced

(* read_cb with data: libuv has put as much as there is and fits in the    *)
(* place alloc_cb gave it; a full ring stops the reading.                  *)
StopsWhenFull(n) == size + n = Capacity

ReadCb ==
  LET n == Least(Available, SpaceAtOnce) IN
  /\ phase = "poll" /\ reading /\ n > 0
  /\ mem' = [i \in Places |->
              IF writePos <= i /\ i < writePos + n THEN produced + 1 + i - writePos
                                                   ELSE mem[i]]
  /\ writePos' = Moved(writePos, n)
  /\ size' = size + n
  /\ produced' = produced + n
  /\ reading' = ~StopsWhenFull(n)
  /\ evq' = Append(evq, Event("read_event", n))
  /\ UNCHANGED <<phase, child, written, readPos, overrun, handle, consumed, delivered>>

(* read_cb at the end of the data: uv_read_stop.                           *)
ReadEof ==
  /\ phase = "poll" /\ reading
  /\ child # "alive" /\ Available = 0
  /\ reading' = FALSE
  /\ evq' = Append(evq, Event("read_eof", 0))
  /\ UNCHANGED <<phase, child, written, ringVars, handle, histVars>>

(* exit_cb, on_process_exit: libuv runs it behind the reads of a poll.     *)
ExitCb ==
  /\ phase = "signals" /\ child = "dead"
  /\ child' = "reaped"
  /\ evq' = Append(evq, Event("process_close_handles", 0))
  /\ UNCHANGED <<phase, written, ringVars, reading, handle, histVars>>

(* close_cb of the pipe.                                                   *)
CloseCbFrees ==                \* mutant: the ring is freed at once
  /\ phase = "signals" /\ handle = "closing"
  /\ handle' = "freed"
  /\ UNCHANGED <<phase, child, written, ringVars, reading, evq, histVars>>

CloseCb ==
  /\ phase = "signals" /\ handle = "closing"
  /\ handle' = "closed"
  /\ evq' = Append(evq, Event("stream_cleanup_cb", 0))
  /\ UNCHANGED <<phase, child, written, ringVars, reading, histVars>>

(* A poll reads all there is to read; the drain of the event queue may     *)
(* leave events behind when its time is up (module EventLoop).             *)
NextPhase ==
  /\ \/ phase = "events" /\ phase' = "poll"
     \/ /\ phase = "poll" /\ phase' = "signals"
        /\ ~(reading /\ (Available > 0 \/ child # "alive"))
     \/ /\ phase = "signals" /\ phase' = "events"
        /\ child # "dead" /\ handle # "closing"
  /\ UNCHANGED <<child, written, ringVars, reading, handle, evq, histVars>>

-----------------------------------------------------------------------------
(* The events, popped in order.                                            *)
Pop(kind) ==
  /\ phase = "events" /\ evq # <<>>
  /\ Head(evq).kind = kind
  /\ evq' = Tail(evq)

(* The text of n bytes from place p: it ends where a NUL is.               *)
Text(p, n) ==
  LET ends == {k \in 0..n : k = n \/ mem[p + k] = NUL}
      len  == CHOOSE k \in ends : \A j \in ends : k <= j
  IN  [k \in 1..len |-> mem[p + k - 1]]

(* rstream_start by nonfull_cb; libuv refuses it on a closing handle.      *)
ResumesNever == FALSE          \* mutant: no nonfull_cb
Resumes == size = Capacity /\ handle = "open"

(* read_event, out_data_cb: terminate the chunk, hand it on, consume it.   *)
DeliverChunk ==
  LET n == Head(evq).count IN
  /\ Pop("read_event")
  /\ IF DataAtOnce = 0
     THEN UNCHANGED <<ringVars, reading, consumed, delivered>>
     ELSE /\ overrun' = (overrun \/ readPos + n >= Capacity)
          /\ mem' = [i \in Places |-> IF i = readPos + n THEN NUL ELSE mem[i]]
          /\ delivered' = delivered \o Text(readPos, n)
          /\ readPos' = Moved(readPos, n)
          /\ size' = size - n
          /\ consumed' = consumed + n
          /\ reading' = (reading \/ Resumes)
          /\ UNCHANGED writePos
  /\ UNCHANGED <<phase, child, written, handle, produced>>

DeliverEof ==
  /\ Pop("read_eof")
  /\ UNCHANGED <<phase, child, written, ringVars, reading, handle, histVars>>

(* process_close_handles: uv_close ends the reading.                       *)
ProcessCloseHandles ==
  /\ Pop("process_close_handles")
  /\ handle' = "closing"
  /\ reading' = FALSE
  /\ UNCHANGED <<phase, child, written, ringVars, histVars>>

(* stream_cleanup_cb: the ring is freed.                                   *)
StreamCleanup ==
  /\ Pop("stream_cleanup_cb")
  /\ handle' = "freed"
  /\ UNCHANGED <<phase, child, written, ringVars, reading, histVars>>

Handle == DeliverChunk \/ DeliverEof \/ ProcessCloseHandles \/ StreamCleanup

-----------------------------------------------------------------------------
Next ==
  \/ \E n \in 1..MaxBytes : Write(n)
  \/ Die \/ ReadCb \/ ReadEof \/ ExitCb \/ CloseCb \/ NextPhase \/ Handle

Spec == Init /\ [][Next]_vars

(* The loop goes round and events are handled (module EventLoop).          *)
FairSpec ==
  Spec /\ WF_vars(ReadCb \/ ReadEof \/ ExitCb \/ CloseCb \/ NextPhase) /\ SF_vars(Handle)

-----------------------------------------------------------------------------
(* The pointers of the ring stay within its memory, and no more is in it   *)
(* than it holds.                                                          *)
TypeOK ==
  /\ phase \in {"events", "poll", "signals"}
  /\ child \in {"alive", "dead", "reaped"}
  /\ written \in Nat
  /\ mem \in [Places -> Nat]
  /\ readPos \in Places /\ writePos \in Places /\ size \in 0..Capacity
  /\ overrun \in BOOLEAN
  /\ reading \in BOOLEAN
  /\ handle \in {"open", "closing", "closed", "freed"}
  /\ evq \in Seq(Events)
  /\ produced \in Nat /\ consumed \in Nat
  /\ delivered \in Seq(Nat)

Chunk(i) == evq[i].kind = "read_event"

(* The queued read_events and the ring agree: the first chunk starts where *)
(* the reader stands, each lies in one piece and the next one behind it,   *)
(* and together they are all that is in the ring.  out_data_cb, which      *)
(* trusts the count of the event, thus never reads past what was put in.   *)
ChunksMatchRing ==
  /\ size = produced - consumed
  /\ writePos = Moved(readPos, size)
  /\ evq = <<>> => size = 0
  /\ \A i \in 1..Len(evq) : LET e == evq[i] IN
       /\ Chunk(i) <=> e.count > 0
       /\ e.pos < Capacity /\ e.pos + e.count <= Capacity
       /\ e.at + e.count <= produced
       /\ i = 1 => e.at = consumed /\ e.pos = readPos
       /\ i < Len(evq) => /\ evq[i+1].at = e.at + e.count
                         /\ evq[i+1].pos = Moved(e.pos, e.count)
       /\ i = Len(evq) => /\ produced = e.at + e.count
                         /\ writePos = Moved(e.pos, e.count)

(* Backpressure neither sticks nor leaks: until the end of the data, the   *)
(* stream is read exactly as long as the ring has room.                    *)
ReadingMatches ==
  handle = "open" =>
    \/ reading <=> size < Capacity
    \/ ~reading /\ child # "alive" /\ Available = 0 /\ size < Capacity

(* The ring is freed behind the last event that looks into it.             *)
NoReadAfterFree ==
  handle = "freed" => size = 0 /\ \A i \in 1..Len(evq) : ~Chunk(i)

(* What is handed on is in the order written, nothing twice.               *)
InOrder == \A i \in 1..Len(delivered) : \A j \in 1..(i-1) : delivered[j] < delivered[i]

(* The inductive invariant: besides the above, the pipe is closed once, by *)
(* an event, when it is no longer read; its ring is freed by the last      *)
(* event, with nothing left in it;                                         *)
HandleMatches ==
  /\ reading => handle = "open"
  /\ child # "reaped" => handle = "open"
  /\ \A i \in 1..Len(evq) :
       /\ evq[i].kind = "process_close_handles" =>
            /\ child = "reaped" /\ handle = "open"
            /\ \A j \in 1..Len(evq) : evq[j].kind = evq[i].kind => j = i
       /\ evq[i].kind = "stream_cleanup_cb" =>
            /\ handle = "closed" /\ evq[i].at = produced
            /\ \A j \in 1..Len(evq) : evq[j].kind = evq[i].kind => j = i
            /\ \A j \in (i+1)..Len(evq) : ~Chunk(j)

(* a byte in the ring is the one written there, unless a terminator has    *)
(* overwritten it, and what was handed on came before it.                  *)
MemMatches ==
  /\ \A k \in 0..(size - 1) : mem[Moved(readPos, k)] \in {NUL, consumed + 1 + k}
  /\ \A i \in 1..Len(delivered) : delivered[i] <= consumed

IInv == /\ TypeOK /\ ChunksMatchRing /\ ReadingMatches /\ NoReadAfterFree
        /\ HandleMatches /\ MemMatches /\ InOrder

(* Only the first byte in the ring can have been overwritten: a terminator *)
(* takes the place behind the chunk that is taken from it.                 *)
Torn == size > 0 /\ mem[readPos] = NUL

RestWhole ==
  /\ produced <= written
  /\ \A k \in 1..(size - 1) : mem[Moved(readPos, k)] # NUL

(* Ring, events and terminators together are a channel that hands on or    *)
(* loses whole chunks: out_data_cb terminates one chunk in the next, and   *)
(* out_recv, which ends at the first NUL, then sees nothing of that one.   *)
Abstract == INSTANCE Channel WITH
  sent <- written, taken <- consumed, handed <- delivered, torn <- Torn

ImplementsChannel == Abstract!Spec

(* As long as the child runs, all it writes is taken from the ring.        *)
AllConsumed ==
  \A n \in 1..MaxBytes : written >= n ~> consumed >= n \/ child # "alive"

=============================================================================

------------------------------- MODULE FileOps -------------------------------
(***************************************************************************)
(* Copying, moving and removing: event/ftw.c walks a tree into a group of  *)
(* items, event/file.c works through the groups, item by item, with one    *)
(* global job.                                                             *)
(*                                                                         *)
(* The files are the nodes of a forest; what becomes of the node n is in   *)
(* disk[n], by place: << "src", 0 >> is where it lies at first,            *)
(* << "dst", 0 >> the directory it is to go to, and a version v > 0 is     *)
(* the name with v suffixes.  Copies are made in the places of their       *)
(* parents' copies.                                                        *)
(***************************************************************************)
EXTENDS Naturals, Sequences, FiniteSets, SequencesExt

CONSTANTS
  Nodes, NoNode,
  Parent,      \* the forest: a node or NoNode for each node
  Dirs, Links, \* directories and symbolic links; the others are files
  CrossDev,    \* the nodes whose rename or link fails with EXDEV
  Taken,       \* top nodes whose name exists in the destination
  Kinds,       \* what the user asks for: "copy", "move", "remove"
  MaxGroups,   \* bound: groups asked for in a behaviour, and so versions of a name
  Chunks,      \* sendfile calls a file takes
  MaxOthers,   \* bound: changes made by other programs
  MayFail,     \* whether writes fail
  DuringWalk   \* whether the user acts during a walk

VARIABLES
  disk,        \* the file system
  others,      \* nodes other programs removed, and how many changes they made
  groups,      \* the file groups, done ones too
  ftw,         \* ftw.c's state
  fq,          \* file.p, the queue of groups
  job,         \* the rest of file.c's state
  starts       \* file_start events in Loop.eventq

vars == <<disk, others, groups, ftw, fq, job, starts>>

-----------------------------------------------------------------------------
Places == {"src", "dst"} \X (0..MaxGroups + 1)
Origin == << "src", 0 >>
NoDest == << "none", 0 >>

(* What lies above a node, itself included: what every set with it has     *)
(* that has the parents of its nodes.                                      *)
Upward == {S \in SUBSET Nodes : \A n \in S : Parent[n] # NoNode => Parent[n] \in S}
Above  == [n \in Nodes |-> {m \in Nodes : \A S \in Upward : n \in S => m \in S}]
Below(n)    == {m \in Nodes : n \in Above[m]}
Children(n) == {m \in Nodes : Parent[m] = n}
Tops        == {n \in Nodes : Parent[n] = NoNode}
Files       == Nodes \ (Dirs \cup Links)

ASSUME FileAssumption ==
  /\ IsFiniteSet(Nodes) /\ NoNode \notin Nodes /\ Parent \in [Nodes -> Nodes \cup {NoNode}]
  /\ \A n \in Nodes : Parent[n] # NoNode => n \notin Above[Parent[n]]
  /\ Dirs \cap Links = {} /\ \A n \in Nodes : Children(n) # {} => n \in Dirs
  /\ Taken \subseteq Tops /\ Kinds \subseteq {"copy", "move", "remove"}
  /\ MaxGroups \in Nat /\ Chunks \in Nat \ {0} /\ MaxOthers \in Nat
  /\ MayFail \in BOOLEAN /\ DuringWalk \in BOOLEAN

NoJob == [running |-> FALSE, g |-> 0, cur |-> NoNode, pc |-> "idle",
          opening |-> {}, opencnt |-> 0, offset |-> 0]
JobOf(g, n) == [running |-> TRUE, g |-> g, cur |-> n, pc |-> "stat_src",
                opening |-> {}, opencnt |-> 0, offset |-> 0]
NoWalk(q) == [running |-> FALSE, cancel |-> FALSE, g |-> 0, queue |-> q, stack |-> <<>>]

Init ==
  /\ disk = [n \in Nodes |-> [p \in Places |->
               IF p = Origin THEN "whole"
               ELSE IF p = << "dst", 0 >> /\ n \in Taken THEN "other" ELSE "none"]]
  /\ others = [removed |-> {}, count |-> 0]
  /\ groups = <<>>
  /\ ftw = NoWalk(<<>>)
  /\ fq = <<>>
  /\ job = NoJob
  /\ starts = 0

Has(D, n, p)  == D[n][p] # "none"
Put(D, n, p, what) == [D EXCEPT ![n][p] = what]

(* Code that runs without returning to the loop: nothing else of nav runs. *)
Chained == job.pc \in {"stat_src", "stat_dst", "mk_dest", "do_copy"}
           \/ (ftw.running /\ ftw.stack = <<>>)

-----------------------------------------------------------------------------
(* fg_new, ftw_new: a group with the item of its top node.                 *)
Group(n, flags, dest) ==
  [flags |-> flags, top |-> n, todo |-> << n >>, items |-> {n},
   refs |-> [m \in Nodes |-> 0], dest |-> [m \in Nodes |-> IF m = n THEN dest ELSE NoDest]]

(* file_start                                                              *)
Started(G, q, j) ==
  IF j.running \/ q = <<>> THEN j
  ELSE JobOf(Head(q), Head(G[Head(q)].todo))

(* ftw_start: the walk of the first group begins.                          *)
WalkOf(G, q, D) ==
  LET n == G[Head(q)].top IN
  [running |-> TRUE, cancel |-> FALSE, g |-> Head(q), queue |-> q,
   stack |-> IF n \in Dirs /\ Has(D, n, Origin)
             THEN << [dir |-> n, rest |-> Children(n)] >> ELSE <<>>]

Walking(G, q, D) == IF ftw.running THEN [ftw EXCEPT !.queue = q] ELSE WalkOf(G, q, D)

(* ftw_add, by file_copy, file_move, file_move_str and file_remove.        *)
FtwAdd(kind, n) ==
  LET g == Len(groups) + 1
      G == Append(groups, CASE kind = "move"   -> Group(n, {"MOVE"}, << "dst", 0 >>)
                            [] kind = "copy"   -> Group(n, {"COPY"}, << "dst", 0 >>)
                            [] kind = "remove" -> Group(n, {"UNLINK"}, NoDest))
  IN
  /\ ~Chained /\ g <= MaxGroups /\ (ftw.running => DuringWalk)
  /\ groups' = G
  /\ \/ /\ kind = "move"
        /\ fq' = Append(fq, g)
        /\ job' = Started(G, fq', job)
        /\ UNCHANGED ftw
     \/ /\ kind # "move"
        /\ ftw' = Walking(G, Append(ftw.queue, g), disk)
        /\ UNCHANGED <<fq, job>>
  /\ UNCHANGED <<disk, others, starts>>

FtwCancel ==
  /\ ~Chained /\ ftw.running /\ DuringWalk /\ ~ftw.cancel
  /\ ftw' = [ftw EXCEPT !.cancel = TRUE]
  /\ UNCHANGED <<disk, others, groups, fq, job, starts>>

-----------------------------------------------------------------------------
(* add_ent, of the entry n of the directory the walk is in.                *)
AddAtHead(todo, n) == << n >> \o todo     \* mutant: TAILQ_INSERT_HEAD
AddItem(todo, n) == Append(todo, n)
NoRefs(refs, n) == refs                   \* mutant: the parent is not counted
AddRef(refs, n) == [refs EXCEPT ![Parent[n]] = @ + 1]

AddEnt(fg, n) ==
  [fg EXCEPT !.todo = AddItem(@, n), !.items = @ \cup {n}, !.refs = AddRef(@, n)]

(* do_ftw: the next entry of the innermost directory, or its end.  After   *)
(* any entry event_cycle_once may run other handlers.                      *)
Walk ==
  LET top  == ftw.stack[Len(ftw.stack)]
      back == SubSeq(ftw.stack, 1, Len(ftw.stack) - 1)
  IN
  /\ ~Chained /\ ftw.running
  /\ \/ /\ ~ftw.cancel
        /\ \E n \in top.rest :
             LET here == Append(back, [top EXCEPT !.rest = @ \ {n}]) IN
             IF Has(disk, n, Origin)
             THEN /\ groups' = [groups EXCEPT ![ftw.g] = AddEnt(@, n)]
                  /\ ftw' = [ftw EXCEPT !.stack =
                       IF n \in Dirs THEN Append(here, [dir |-> n, rest |-> Children(n)])
                       ELSE here]
             ELSE ftw' = [ftw EXCEPT !.stack = here] /\ UNCHANGED groups
     \/ /\ top.rest = {} \/ ftw.cancel
        /\ ftw' = [ftw EXCEPT !.stack = back]
        /\ UNCHANGED groups
  /\ UNCHANGED <<disk, others, fq, job, starts>>

(* The end of ftw_start, and file_push.                                    *)
WalkEnd ==
  /\ ftw.running /\ ftw.stack = <<>>
  /\ \E i \in DOMAIN ftw.queue :
       /\ ftw.queue[i] = ftw.g
       /\ ftw' = NoWalk(RemoveAt(ftw.queue, i))
  /\ fq' = Append(fq, ftw.g)
  /\ job' = Started(groups, fq', job)
  /\ UNCHANGED <<disk, others, groups, starts>>

-----------------------------------------------------------------------------
(* clear_fileitem: the items freed when the last reference to n is gone,   *)
(* and what do_unlink makes of the disk; rmdir needs an empty directory.   *)
Freed(refs, n) ==
  IF refs[n] # 0 THEN {}
  ELSE {a \in Above[n] : \A b \in Above[n] \ {n} : a \in Above[b] => refs[b] = 1}

Deref(refs, freed) ==
  [m \in Nodes |-> IF m \in freed THEN 0
                   ELSE IF \E c \in freed : Parent[c] = m THEN refs[m] - 1 ELSE refs[m]]

Cleaned(fg, freed) ==
  [fg EXCEPT !.todo = Tail(@), !.items = @ \ freed, !.refs = Deref(@, freed)]

UnlinksOnError(fg) == "UNLINK" \in fg.flags   \* mutant: F_ERROR is not looked at
Unlinks(fg) == "UNLINK" \in fg.flags /\ "ERROR" \notin fg.flags

Unlinked(D, fg, freed) ==
  LET gone == {a \in freed : \A m \in Below(a) \ freed : ~Has(D, m, Origin)}
  IN  IF ~Unlinks(fg) THEN D
      ELSE [n \in Nodes |-> IF n \in gone THEN [D[n] EXCEPT ![Origin] = "none"] ELSE D[n]]

ForgetsToStart(k) == k                     \* mutant: no file_start event
StartQueued(k) == k + 1

(* file_stop: the current item is done, with the groups G and the disk D.  *)
Stop(G, D) ==
  LET fg    == G[job.g]
      freed == Freed(fg.refs, job.cur)
      fg1   == Cleaned(fg, freed)
  IN
  /\ groups' = [G EXCEPT ![job.g] = fg1]
  /\ disk' = Unlinked(D, fg, freed)
  /\ fq' = IF fg1.todo = <<>> THEN Tail(fq) ELSE fq
  /\ job' = NoJob
  /\ starts' = StartQueued(starts)

FileStopped == Stop(groups, disk) /\ UNCHANGED <<others, ftw>>

Goto(pc) == job' = [job EXCEPT !.pc = pc]

(* file_start, by its event.                                               *)
FileStart ==
  /\ ~Chained /\ starts > 0
  /\ starts' = starts - 1
  /\ job' = Started(groups, fq, job)
  /\ UNCHANGED <<disk, others, groups, ftw, fq>>

-----------------------------------------------------------------------------
Fg == groups[job.g]
Dest == Fg.dest[job.cur]
RemovesItem == "UNLINK" \in Fg.flags /\ Dest = NoDest

(* get_cur_dest_name                                                       *)
CurDest ==
  IF "MOVE" \in Fg.flags \/ Parent[job.cur] \notin Fg.items THEN Dest
  ELSE Fg.dest[Parent[job.cur]]

(* do_stat of the source.  Nothing follows when it is not there: the job   *)
(* stays as it is for good.                                                *)
StatSrc ==
  /\ job.pc = "stat_src"
  /\ \/ RemovesItem /\ FileStopped
     \/ /\ ~RemovesItem /\ Has(disk, job.cur, Origin)
        /\ groups' = [groups EXCEPT ![job.g].dest[job.cur] = CurDest]
        /\ Goto("stat_dst")
        /\ UNCHANGED <<disk, others, ftw, fq, starts>>
     \/ /\ ~RemovesItem /\ ~Has(disk, job.cur, Origin)
        /\ Goto("stuck")
        /\ UNCHANGED <<disk, others, groups, ftw, fq, starts>>

(* do_stat of the destination.                                             *)
StatDst ==
  /\ job.pc = "stat_dst"
  /\ Goto(IF Has(disk, job.cur, Dest) THEN "scan"
          ELSE IF "MOVE" \in Fg.flags THEN "mk_dest" ELSE "do_copy")
  /\ UNCHANGED <<disk, others, groups, ftw, fq, starts>>

(* find_dest_name and scan_cb, which makes the new name from the directory *)
(* of the source.                                                          *)
VersionName(p) == << "src", p[2] + 1 >>

ScanCb ==
  /\ ~Chained /\ job.pc = "scan" /\ Dest[2] <= MaxGroups
  /\ groups' = [groups EXCEPT ![job.g].dest[job.cur] = VersionName(@)]
  /\ Goto("stat_dst")
  /\ UNCHANGED <<disk, others, ftw, fq, starts>>

(* mk_dest.  rename takes what is below n along.                           *)
Moved(D, n, p) ==
  [m \in Nodes |-> IF m \in Below(n)
                   THEN [D[m] EXCEPT ![p] = D[m][Origin], ![Origin] = "none"] ELSE D[m]]

Failed == groups' = [groups EXCEPT ![job.g].flags = @ \cup {"ERROR"}]

MkDest ==
  LET n == job.cur IN
  /\ job.pc = "mk_dest" /\ ~(n \in CrossDev /\ Dest[1] = "dst")
  /\ \/ /\ Has(disk, n, Origin) /\ ~Has(disk, n, Dest)
        /\ Stop([groups EXCEPT ![job.g].flags = @ \cup {"UNLINK"}], Moved(disk, n, Dest))
        /\ UNCHANGED <<others, ftw>>
     \/ /\ ~Has(disk, n, Origin) \/ Has(disk, n, Dest)
        /\ Failed /\ Goto("stuck")
        /\ UNCHANGED <<disk, others, ftw, fq, starts>>

(* file_retry_as_copy, ftw_add_again and ftw_retry.                        *)
RetryAsCopy ==
  LET g == Len(groups) + 1
      G == Append(groups, Group(job.cur, {"UNLINK", "COPY"}, << Dest[1], 0 >>))
  IN
  /\ job.pc = "mk_dest" /\ job.cur \in CrossDev /\ Dest[1] = "dst"
  /\ Stop(G, disk)
  /\ ftw' = Walking(G, << g >> \o ftw.queue, disk)
  /\ UNCHANGED others

-----------------------------------------------------------------------------
(* do_copy.  Nobody looks whether mkdir or symlink succeed.                *)
Room(n) ==
  /\ ~Has(disk, n, Dest)
  /\ Parent[n] # NoNode => Has(disk, Parent[n], Dest)

DoCopy ==
  LET n == job.cur IN
  /\ job.pc = "do_copy"
  /\ \/ /\ n \notin Files
        /\ Stop(groups, IF Room(n) THEN Put(disk, n, Dest, "whole") ELSE disk)
        /\ UNCHANGED <<others, ftw>>
     \/ /\ n \in Files
        /\ job' = [job EXCEPT !.pc = "open", !.opening = {"f1", "f2"}]
        /\ UNCHANGED <<disk, others, groups, ftw, fq, starts>>

(* open_cb.  An open that fails leaves the job as it is for good.          *)
OpenCb(f) ==
  LET n    == job.cur
      ok   == IF f = "f1" THEN Has(disk, n, Origin) ELSE Room(n)
      left == job.opening \ {f}
      cnt  == IF ok THEN job.opencnt + 1 ELSE job.opencnt
  IN
  /\ ~Chained /\ job.pc = "open" /\ f \in job.opening
  /\ job' = [job EXCEPT !.opening = left, !.opencnt = cnt,
                        !.pc = IF cnt = 2 THEN "send" ELSE IF left = {} THEN "stuck" ELSE @]
  /\ disk' = IF f = "f2" /\ ok THEN Put(disk, n, Dest, "part") ELSE disk
  /\ UNCHANGED <<others, groups, ftw, fq, starts>>

(* write_cb, and file_close.                                               *)
WriteCb ==
  LET last == job.offset + 1 = Chunks IN
  /\ ~Chained /\ job.pc = "send"
  /\ \/ /\ job' = [job EXCEPT !.offset = @ + 1, !.pc = IF last THEN "close" ELSE @]
        /\ disk' = IF last THEN Put(disk, job.cur, Dest, "whole") ELSE disk
        /\ UNCHANGED groups
     \/ /\ MayFail
        /\ Failed /\ Goto("close")
        /\ UNCHANGED disk
  /\ UNCHANGED <<others, ftw, fq, starts>>

(* close_cb                                                                *)
CloseCb ==
  /\ ~Chained /\ job.pc = "close"
  /\ \/ job.opencnt = 1 /\ FileStopped
     \/ /\ job.opencnt > 1
        /\ job' = [job EXCEPT !.opencnt = @ - 1]
        /\ UNCHANGED <<disk, others, groups, ftw, fq, starts>>

(* Another program removes a file or takes a name in the destination.      *)
Other ==
  /\ others.count < MaxOthers
  /\ \E n \in Nodes :
       \/ /\ n \in Files /\ disk[n][Origin] = "whole"
          /\ disk' = Put(disk, n, Origin, "none")
          /\ others' = [removed |-> others.removed \cup {n}, count |-> others.count + 1]
       \/ /\ n \in Tops /\ ~Has(disk, n, << "dst", 0 >>)
          /\ disk' = Put(disk, n, << "dst", 0 >>, "other")
          /\ others' = [others EXCEPT !.count = @ + 1]
  /\ UNCHANGED <<groups, ftw, fq, job, starts>>

-----------------------------------------------------------------------------
Job ==
  \/ FileStart \/ StatSrc \/ StatDst \/ ScanCb \/ MkDest \/ RetryAsCopy \/ DoCopy
  \/ \E f \in {"f1", "f2"} : OpenCb(f)
  \/ WriteCb \/ CloseCb

Next ==
  \/ \E kind \in Kinds, n \in Tops : FtwAdd(kind, n)
  \/ FtwCancel \/ Walk \/ WalkEnd
  \/ Job
  \/ Other

Spec == Init /\ [][Next]_vars

(* The walk is a loop; events are popped and the thread pool answers.      *)
FairSpec == Spec /\ WF_vars(Walk) /\ WF_vars(WalkEnd) /\ WF_vars(Job)

-----------------------------------------------------------------------------
Gs == DOMAIN groups
Done(g) == groups[g].todo = <<>>
AskedGone(n) == \E g \in Gs : groups[g].dest[groups[g].top] = NoDest /\ n \in Below(groups[g].top)
Whole(n) == \E p \in Places : disk[n][p] = "whole"

(* Types: the reference counts of items never fall below zero, and the     *)
(* queues and job refer to groups that exist.                              *)
GroupType == [flags : SUBSET {"MOVE", "COPY", "UNLINK", "ERROR"}, top : Tops, todo : Seq(Nodes),
              items : SUBSET Nodes, refs : [Nodes -> Nat], dest : [Nodes -> Places \cup {NoDest}]]
JobType == [running : BOOLEAN, g : Nat, cur : Nodes \cup {NoNode},
            pc : {"idle", "stat_src", "stat_dst", "scan", "mk_dest", "do_copy", "open",
                  "send", "close", "stuck"},
            opening : SUBSET {"f1", "f2"}, opencnt : 0..2, offset : 0..Chunks]

TypeOK ==
  /\ disk \in [Nodes -> [Places -> {"none", "part", "whole", "other"}]]
  /\ others \in [removed : SUBSET Nodes, count : 0..MaxOthers]
  /\ groups \in Seq(GroupType)
  /\ ftw \in [running : BOOLEAN, cancel : BOOLEAN, g : Nat, queue : Seq(Gs),
              stack : Seq([dir : Dirs, rest : SUBSET Nodes])]
  /\ fq \in Seq(Gs)
  /\ job \in JobType
  /\ starts \in Nat

(* A FileItem is freed when neither the queue nor the job nor a child      *)
(* needs it: `parent' pointers, which get_cur_dest_name and clear_fileitem *)
(* follow, point to live items, and refs counts the children.              *)
InUse(g) == ToSet(groups[g].todo)

RefsMatch ==
  \A g \in Gs :
    /\ InUse(g) \subseteq groups[g].items
    /\ \A n \in groups[g].items :
         /\ n # groups[g].top => Parent[n] \in groups[g].items
         /\ groups[g].refs[n] = Cardinality({c \in groups[g].items : Parent[c] = n})
         /\ groups[g].refs[n] > 0 \/ n \in InUse(g)

(* A directory is there before what is in it is copied: its item is always *)
(* ahead of theirs.                                                        *)
DirsFirst ==
  \A g \in Gs : \A i, j \in DOMAIN groups[g].todo :
    Parent[groups[g].todo[j]] = groups[g].todo[i] => i < j

(* What nobody asked to remove exists, whole, wherever errors strike.      *)
NoLoss ==
  \A n \in Files : ~AskedGone(n) /\ n \notin others.removed => Whole(n)

(* All that is asked for is done in the end, unless a system call whose    *)
(* failure nothing handles stops the job (a source that is not there, a    *)
(* destination that another program was faster to take), or a walk ended   *)
(* with groups behind it: ftw_start looks only when it is called again.    *)
Idle == fq = <<>> /\ ~job.running /\ ~ftw.running /\ ftw.queue = <<>>
LeftBehind == fq = <<>> /\ ~job.running /\ ~ftw.running /\ ftw.queue # <<>>
AllDone == []<>(Idle \/ job.pc = "stuck" \/ LeftBehind)

-----------------------------------------------------------------------------
(* The inductive invariant.  The items of a group are a tree, counted by   *)
(* their children, with some of its lower parts in the queue, each         *)
(* directory before what is in it;                                         *)
ItemsMatch(fg) ==
  /\ ToSet(fg.todo) \subseteq fg.items
  /\ \A n \in fg.items :
       /\ n = fg.top \/ Parent[n] \in fg.items
       /\ Parent[n] \in ToSet(fg.todo) => n \in ToSet(fg.todo)
       /\ fg.refs[n] > 0 \/ n \in ToSet(fg.todo)
  /\ \A n \in Nodes : fg.refs[n] = Cardinality({c \in fg.items : Parent[c] = n})
  /\ IsInjective(fg.todo)
  /\ \A i, j \in DOMAIN fg.todo : Parent[fg.todo[j]] = fg.todo[i] => i < j
  /\ "MOVE" \in fg.flags => fg.items \subseteq {fg.top}

Untouched(fg) == fg.todo = << fg.top >> /\ fg.items = {fg.top}

(* a group is in one queue, and once; the walk has begun with one group    *)
(* only, and the job is given none that it has finished;                   *)
QueuesMatch ==
  /\ IsInjective(ftw.queue) /\ IsInjective(fq) /\ ToSet(ftw.queue) \cap ToSet(fq) = {}
  /\ \A g \in ToSet(ftw.queue) :
       /\ "MOVE" \notin groups[g].flags
       /\ Untouched(groups[g]) \/ (ftw.running /\ g = ftw.g)
  /\ \A g \in ToSet(fq) : groups[g].todo # <<>>

(* the walk is in directories that have items, and what it has still to    *)
(* look at has none;                                                       *)
WalkMatches ==
  ftw.running => LET fg == groups[ftw.g] IN
    /\ ftw.g \in ToSet(ftw.queue) /\ fg.items = ToSet(fg.todo) /\ fg.todo # <<>>
    /\ \A i \in DOMAIN ftw.stack : LET fr == ftw.stack[i] IN
         /\ fr.dir \in fg.items /\ fr.rest \subseteq Children(fr.dir) \ fg.items
         /\ \A j \in DOMAIN ftw.stack : ftw.stack[j].dir = fr.dir => i = j

(* the job is at the head of its queue, and counts what it has open.       *)
JobMatches ==
  /\ job.running <=> job.pc # "idle"
  /\ job.running => /\ fq # <<>> /\ job.g = Head(fq)
                    /\ job.cur = Head(groups[job.g].todo)
  /\ job.pc = "mk_dest" => "MOVE" \in Fg.flags
  /\ job.pc \in {"stat_src", "stat_dst", "scan", "mk_dest", "do_copy"} => job.opencnt = 0
  /\ job.pc = "open" => job.opencnt = 0 \/ (job.opencnt = 1 /\ job.opening # {"f1", "f2"})
  /\ job.pc = "send" => job.opencnt = 2 /\ job.offset < Chunks
  /\ job.pc \notin {"send", "close"} => job.offset = 0

IInv == /\ TypeOK /\ QueuesMatch /\ WalkMatches /\ JobMatches
        /\ \A g \in Gs : ItemsMatch(groups[g])

(* What NoLoss rests on, where no directory is moved to another device:    *)
(* the sources that go are of a removal, which makes nothing, of a rename, *)
(* whose item is done with it, or of one file or link that is copied;      *)
FlagsMatch(fg) ==
  /\ fg.items \subseteq Below(fg.top) /\ \A n \in Nodes : fg.dest[n] # Origin
  /\ \/ /\ fg.flags \cap {"MOVE", "COPY", "UNLINK"} = {"UNLINK"}
        /\ \A n \in Nodes : fg.dest[n] = NoDest
     \/ /\ fg.flags \cap {"MOVE", "COPY"} = {"MOVE"} /\ fg.dest[fg.top] # NoDest
        /\ "UNLINK" \in fg.flags => fg.todo = <<>>
     \/ /\ fg.flags \cap {"MOVE", "COPY"} = {"COPY"} /\ fg.dest[fg.top] # NoDest
        /\ \A n \in fg.items \ ToSet(fg.todo) : fg.dest[n] # NoDest
        /\ "UNLINK" \in fg.flags => fg.top \notin Dirs /\ fg.items \subseteq {fg.top}

(* the job has a destination, and has written what it does not call an     *)
(* error;                                                                  *)
WritesMatch ==
  /\ job.pc \notin {"idle", "stat_src", "stuck"} => Dest # NoDest
  /\ job.pc \in {"open", "send", "close"} => job.cur \in Files
  /\ job.pc = "open" /\ job.opencnt = 1 /\ "f2" \notin job.opening => Has(disk, job.cur, Dest)
  /\ job.pc = "send" => Has(disk, job.cur, Dest)
  /\ job.pc = "close" /\ "ERROR" \notin Fg.flags => disk[job.cur][Dest] = "whole"

(* and what is in a directory is in a directory that is there.             *)
TreeMatches ==
  \A n \in Nodes, p \in Places :
    Has(disk, n, p) /\ Parent[n] # NoNode => Has(disk, Parent[n], p)

LossInv == /\ IInv /\ WritesMatch /\ TreeMatches /\ NoLoss
           /\ \A g \in Gs : FlagsMatch(groups[g])
=============================================================================

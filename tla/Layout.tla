-------------------------------- MODULE Layout --------------------------------
(***************************************************************************)
(* The tiling of windows (tui/layout.c): a tree of containers, whose       *)
(* leaves hold the buffers.  A container that is split stays in place as   *)
(* the parent of its parts, and keeps its buffer pointer.  Sizes and       *)
(* positions are given out anew from the root after every change.          *)
(***************************************************************************)
EXTENDS Integers, FiniteSets, Sequences, SequencesExt

CONSTANTS Bufs, NoBuf,
          Containers,   \* names of containers: numbers, 0 is the root
          Screens       \* sizes of the terminal, [lnum, col]

VARIABLES tree,    \* the containers, by name
          rects,   \* their ofs and size
          focus,   \* layout->focus
          focused, \* the buffers that are drawn as focused
          size,    \* root->size
          fault    \* "none", or what went wrong

vars == <<tree, rects, focus, focused, size, fault>>

Root == 0
None == -1
Dirs  == {"horiz", "vert"}
Moves == {"up", "down", "left", "right"}

(* create_container.                                                       *)
DirOf(move) == IF move \in {"up", "down"} THEN "horiz" ELSE "vert"
Container(move, b, parent) ==
  [buf |-> b, dir |-> DirOf(move), parent |-> parent, count |-> 0, p |-> <<>>]

Init ==
  /\ tree = [c \in {Root} |-> Container("up", NoBuf, Root)]
  /\ focus = Root
  /\ focused = {}
  /\ size \in Screens
  /\ rects = [c \in {Root} |-> [lnum |-> 0, col |-> 0, h |-> size.lnum, w |-> size.col]]
  /\ fault = "none"

With(T, c, rec) == [x \in DOMAIN T \cup {c} |-> IF x = c THEN rec ELSE T[x]]
Without(T, S)   == [x \in DOMAIN T \ S |-> T[x]]
Leaves(T) == {c \in DOMAIN T : T[c].p = <<>>}
Holding(T, b) == {c \in Leaves(T) : T[c].buf = b}
Open == {tree[c].buf : c \in Leaves(tree)} \ {NoBuf}
Index(s, x) == CHOOSE k \in DOMAIN s : s[k] = x
NewContainer(T) == CHOOSE c \in Containers \ DOMAIN T : \A x \in Containers \ DOMAIN T : c <= x

-----------------------------------------------------------------------------
(* layout_update: the size and position of a container from its parent's.  *)
(* The last of `count' children takes the remainder.                       *)
AtLeast1(n) == IF n < 1 THEN 1 ELSE n
Part(n, count) == n \div AtLeast1(count)

EveryRest(n, count, i) ==    \* mutant: every child takes the remainder
  IF Part(n, count) > 0 THEN n % Part(n, count) ELSE 0

Rest(n, count, i) == IF i = count /\ Part(n, count) > 0 THEN n % Part(n, count) ELSE 0

Rects(T, sz) ==
  LET Rect[c \in DOMAIN T] ==
        IF c = Root THEN [lnum |-> 0, col |-> 0, h |-> sz.lnum, w |-> sz.col]
        ELSE LET hc == T[c].parent
                 r == Rect[hc]
                 i == Index(T[hc].p, c)
                 n == T[hc].count
             IN  IF T[c].dir = "horiz"
                 THEN [lnum |-> r.lnum + Part(r.h, n) * (i - 1), col |-> r.col,
                       h |-> Part(r.h, n) + Rest(r.h, n, i), w |-> r.w]
                 ELSE [lnum |-> r.lnum, col |-> r.col + Part(r.w, n) * (i - 1),
                       h |-> r.h, w |-> Part(r.w, n) + Rest(r.w, n, i)]
  IN  [c \in DOMAIN T |-> Rect[c]]

(* A remainder is taken of both divisions, also of the one that is not     *)
(* used: by zero, if there are more children than lines or columns.        *)
Divides(T, R) ==
  \A c \in (DOMAIN T \ Leaves(T)) \cup {Root} :
    Part(R[c].h, T[c].count) > 0 /\ Part(R[c].w, T[c].count) > 0

(* swap_focus: to no container, to the root.                               *)
Focused(T, old, c) ==
  IF c = None THEN focused
  ELSE (IF old = None THEN focused ELSE focused \ {T[old].buf}) \cup ({T[c].buf} \ {NoBuf})

(* Every change ends in swap_focus and layout_update.  Addresses mean      *)
(* nothing: the containers are named anew, in the order of the tree.       *)
Order(T) ==
  LET Of[c \in DOMAIN T] == FlattenSeq([k \in DOMAIN T[c].p |-> Of[T[c].p[k]]]) \o << c >>
  IN  Of[Root]

Name(T) ==
  LET order == Order(T) IN [c \in DOMAIN T |-> Len(order) - Index(order, c)]

Renamed(T) ==
  LET name == Name(T) IN
  [x \in {name[c] : c \in DOMAIN T} |->
     LET c == CHOOSE y \in DOMAIN T : name[y] = x IN
     [T[c] EXCEPT !.parent = name[@], !.p = [k \in DOMAIN @ |-> name[@[k]]]]]

Change(T, old, new, sz) ==
  /\ tree' = Renamed(T)
  /\ focus' = Name(T)[IF new = None THEN Root ELSE new]
  /\ focused' = Focused(T, old, new)
  /\ size' = sz
  /\ rects' = Rects(tree', sz)
  /\ fault' = IF Divides(tree', rects') THEN fault ELSE "division"

(* The place of the new container: before the focus.                       *)
Place(p, f) == Index(p, f)

(* layout_add_buffer.                                                      *)
LayoutAddBuffer(b, move) ==
  LET dir == IF focus = Root THEN "up" ELSE move
      split == DirOf(dir) # tree[focus].dir
      sub == NewContainer(tree)
      T1 == IF split
            THEN With([tree EXCEPT ![focus].count = @ + 1, ![focus].p = Append(@, sub)],
                      sub, Container(dir, tree[focus].buf, focus))
            ELSE tree
      hc == IF split THEN focus ELSE tree[focus].parent
      f  == IF split THEN sub ELSE focus
      c  == NewContainer(T1)
      T2 == With(T1, c, Container(dir, b, hc))
      T3 == [T2 EXCEPT ![hc].count = @ + 1,
                       ![hc].p = IF @ = <<>> THEN << c >> ELSE InsertAt(@, Place(@, f), c)]
  IN  /\ fault = "none" /\ b \notin Open
      /\ Cardinality(Containers \ DOMAIN tree) >= 2
      /\ Change(T3, focus, c, size)

-----------------------------------------------------------------------------
(* find_container: children before their container, whose stale buffer     *)
(* pointer is looked at too.  The first in that order.                     *)
FindContainer(T, b) ==
  LET found == SelectSeq(Order(T), LAMBDA c : c # Root /\ T[c].buf = b)
  IN  IF found = <<>> THEN None ELSE Head(found)

(* The container hc took over the contents of its only child.              *)
Collapse(T, hc, next) ==
  LET T1 == [T EXCEPT ![hc].buf = T[next].buf, ![hc].count = T[next].count, ![hc].p = T[next].p]
  IN  Without([x \in DOMAIN T1 |-> IF T1[x].parent = next THEN [T1[x] EXCEPT !.parent = hc] ELSE T1[x]],
              {next})

RECURSIVE First(_, _)
First(T, c) == IF T[c].p = <<>> THEN c ELSE First(T, Head(T[c].p))

NextOrPrev(p, i) == IF i < Len(p) THEN p[i + 1] ELSE IF i > 1 THEN p[i - 1] ELSE None

NeverLone(T, hc) == FALSE    \* mutant: no collapse
IsLone(T, hc) == T[hc].count = 1 /\ hc # Root

(* layout_remove_buffer, after buf_delete.                                 *)
LayoutRemoveBuffer(b) ==
  LET c    == FindContainer(tree, b)
      hc   == tree[c].parent
      i    == Index(tree[hc].p, c)
      next == NextOrPrev(tree[hc].p, i)
      gone == focus \in {c, next}
      T1   == Without([tree EXCEPT ![hc].p = RemoveAt(@, i), ![hc].count = @ - 1], {c})
      lone == IsLone(T1, hc)
      T2   == IF lone THEN Collapse(T1, hc, next) ELSE T1
      n    == IF next = None THEN None ELSE First(T2, IF lone THEN hc ELSE next)
  IN  /\ fault = "none" /\ b \in Open
      /\ IF c \in Leaves(tree)
         THEN Change(T2, IF gone THEN None ELSE focus, IF gone THEN n ELSE focus, size)
         ELSE /\ fault' = "wrong container"
              /\ UNCHANGED <<tree, rects, focus, focused, size>>

-----------------------------------------------------------------------------
(* pos_shift: next to the focused container, at the line of its cursor     *)
(* when it moves sideways.                                                 *)
PosShift(r, line, move) ==
  CASE move = "left"  -> [lnum |-> r.lnum + line, col |-> r.col - 1]
    [] move = "right" -> [lnum |-> r.lnum + line, col |-> r.col + r.w + 1]
    [] move = "up"    -> [lnum |-> r.lnum - 1, col |-> r.col + 1]
    [] move = "down"  -> [lnum |-> r.lnum + r.h + 1, col |-> r.col + 1]

Intersects(pos, r) ==
  /\ r.col <= pos.col /\ pos.col <= r.col + r.w
  /\ r.lnum <= pos.lnum /\ pos.lnum <= r.lnum + r.h

(* find_intersect goes down into the first container that fits, and does   *)
(* not come back.                                                          *)
RECURSIVE FindIntersect(_, _, _)
FindIntersect(c, s, pos) ==
  LET hits == SelectSeq(s, LAMBDA x : x # c /\ Intersects(pos, rects[x]))
  IN  IF hits = <<>> THEN None
      ELSE IF tree[Head(hits)].p = <<>> THEN Head(hits)
      ELSE FindIntersect(c, tree[Head(hits)].p, pos)

CursorLines(c) ==
  IF tree[c].buf = NoBuf THEN {rects[c].lnum} ELSE 1..AtLeast1(rects[c].h)

Target(line, move) ==
  FindIntersect(focus, << Root >>, PosShift(rects[focus], line, move))

LayoutMovement(line, move) ==
  LET pp == Target(line, move) IN
  /\ fault = "none" /\ line \in CursorLines(focus) /\ pp # None
  /\ focus' = pp /\ focused' = Focused(tree, focus, pp)
  /\ UNCHANGED <<tree, rects, size, fault>>

(* layout_swap: the buffers change places; so may those of the parents.    *)
LayoutSwap(line, move) ==
  LET c  == focus
      pp == Target(line, move)
      T1 == [tree EXCEPT ![pp].buf = tree[c].buf, ![c].buf = tree[pp].buf]
      Up(T, x) == IF T[x].dir # T[T[x].parent].dir
                  THEN [T EXCEPT ![T[x].parent].buf = T[x].buf] ELSE T
      T2 == Up(Up(T1, c), pp)
  IN  /\ fault = "none" /\ line \in CursorLines(c) /\ pp # None
      /\ Change(T2, c, pp, size)

(* layout_refresh: the terminal or the command line has another size.      *)
LayoutRefresh(sz) ==
  /\ fault = "none" /\ sz # size
  /\ Change(tree, None, focus, sz)

Next ==
  \/ \E b \in Bufs : LayoutRemoveBuffer(b) \/ \E m \in Moves : LayoutAddBuffer(b, m)
  \/ \E m \in Moves, line \in 1..10 : LayoutMovement(line, m) \/ LayoutSwap(line, m)
  \/ \E sz \in Screens : LayoutRefresh(sz)

Spec == Init /\ [][Next]_vars

-----------------------------------------------------------------------------
TypeOK ==
  /\ focus \in DOMAIN tree /\ DOMAIN tree \subseteq Containers
  /\ focused \subseteq Bufs
  /\ \A c \in DOMAIN tree : tree[c].dir \in Dirs /\ tree[c].parent \in DOMAIN tree

(* The windows do not overlap: a cell belongs to at most one leaf, after   *)
(* any splits, closes, swaps and resizes; and to exactly one, unless there *)
(* is a container that loses lines or columns: the remainder is that of    *)
(* the division by the size of a child, not by their number, 0 for 3 lines *)
(* and 2 children (layout_update).                                         *)
Cells(r) == {[lnum |-> y, col |-> x] : y \in r.lnum..(r.lnum + r.h - 1), x \in r.col..(r.col + r.w - 1)}

Loses(n, count) == Part(n, count) * count + Rest(n, count, count) # n

LosesSome(c) ==
  LET r == rects[c]
      n == tree[c].count
      kids == {tree[x].dir : x \in ToSet(tree[c].p)}
  IN  ("horiz" \in kids /\ Loses(r.h, n)) \/ ("vert" \in kids /\ Loses(r.w, n))

OwnersOf(cell) == {c \in Leaves(tree) : cell \in Cells(rects[c])}

Tiles ==
  fault = "none" /\ Open # {} =>
    \A cell \in Cells(rects[Root]) :
      \/ Cardinality(OwnersOf(cell)) = 1
      \/ OwnersOf(cell) = {} /\ \E c \in DOMAIN tree \ Leaves(tree) : LosesSome(c)

(* The tree stays a tree: parents and counts are right, only the root may  *)
(* have less than two children, every open buffer has one leaf, and the    *)
(* focus is on a leaf, whose buffer alone is drawn as focused              *)
(* (layout_add_buffer, layout_remove_buffer, swap_focus).                  *)
TreeMatches ==
  /\ \A c \in DOMAIN tree \ {Root} : c \in ToSet(tree[tree[c].parent].p)
  /\ \A c \in DOMAIN tree : tree[c].count = Len(tree[c].p) /\ IsInjective(tree[c].p)
  /\ \A c \in DOMAIN tree \ (Leaves(tree) \cup {Root}) : Len(tree[c].p) > 1
  /\ \A b \in Open : Cardinality(Holding(tree, b)) = 1
  /\ focus \in Leaves(tree)
  /\ fault = "none" => focused \cap Open = {tree[focus].buf} \ {NoBuf}
=============================================================================

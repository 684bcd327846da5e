------------------------------- MODULE RbTree -------------------------------
(***************************************************************************)
(* The red-black tree that the memory manager of AsmJit keeps over its     *)
(* chunks (MemoryManager.cpp), pointer by pointer: the tree is a heap of   *)
(* MemNode structs with two links and a colour each, ordered by the        *)
(* address of the chunk a struct describes.  Insertion and removal go down *)
(* once from a false root and never come back up, so every step has to     *)
(* leave the tree such that the next one can be taken.                     *)
(*                                                                         *)
(* removeNode does not always drop the struct it is given: it may fill it  *)
(* with the data of its neighbour and drop that one's struct.              *)
(*                                                                         *)
(* The operators work on a record T: the links, the colours and the data   *)
(* of every struct, and the root.  A NULL link that is followed stops TLC. *)
(***************************************************************************)
EXTENDS Integers, FiniteSets

CONSTANTS
  Struct,    \* the MemNode structs that malloc can return
  FalseRoot, \* the false root on the stack of insertNode and removeNode
  NULL

ASSUME StructAssumption == FalseRoot # NULL /\ {FalseRoot, NULL} \cap Struct = {}

Bit(b) == IF b THEN 1 ELSE 0

\* A struct as createNode and `head = {0}' leave it.
Fresh(T, s, data) ==
  [T EXCEPT !.node[s] = [dir \in 0..1 |-> NULL],
            !.red[s] = (s # FalseRoot),
            !.data[s] = data]

NewTree(noData) ==
  [root |-> NULL,
   node |-> [s \in Struct \cup {FalseRoot} |-> [dir \in 0..1 |-> NULL]],
   red  |-> [s \in Struct \cup {FalseRoot} |-> FALSE],
   data |-> [s \in Struct \cup {FalseRoot} |-> noData]]

IsRed(T, s) == s # NULL /\ T.red[s]

Mem(T, s) == T.data[s].mem

(***************************************************************************)
(* A rotation lifts the child of r on the side !dir.  The caller links the *)
(* lifted struct where r was.                                              *)
(***************************************************************************)
Lifted(T, r, dir) == T.node[r][1 - dir]

\* A mutated rotation that leaves the colours as they were.
RotateSingleColors(T, r, dir) ==
  LET save == Lifted(T, r, dir)
  IN  [T EXCEPT !.node[r][1 - dir] = T.node[save][dir], !.node[save][dir] = r]

RotateSingle(T, r, dir) ==
  LET save == Lifted(T, r, dir)
  IN  [T EXCEPT !.node[r][1 - dir] = T.node[save][dir],
                !.node[save][dir] = r,
                !.red[r] = TRUE,
                !.red[save] = FALSE]

InnerRotated(T, r, dir) ==
  LET child == T.node[r][1 - dir]
  IN  [RotateSingle(T, child, 1 - dir)
         EXCEPT !.node[r][1 - dir] = Lifted(T, child, 1 - dir)]

RotateDouble(T, r, dir) == RotateSingle(InnerRotated(T, r, dir), r, dir)

\* The same rotations, with the lifted struct linked below its new parent.
LinkSingle(T, r, dir, parent, side) ==
  [RotateSingle(T, r, dir) EXCEPT !.node[parent][side] = Lifted(T, r, dir)]

LinkDouble(T, r, dir, parent, side) ==
  [RotateDouble(T, r, dir)
     EXCEPT !.node[parent][side] = Lifted(InnerRotated(T, r, dir), r, dir)]

(***************************************************************************)
(* insertNode: down from the root, splitting every pair of red children on *)
(* the way; `last' is the direction before `dir'.                          *)
(***************************************************************************)
BothRed(T, q) == IsRed(T, T.node[q][0]) /\ IsRed(T, T.node[q][1])

ColorFlip(T, q) ==
  [T EXCEPT !.red[q] = TRUE, !.red[T.node[q][0]] = FALSE, !.red[T.node[q][1]] = FALSE]

FixRedViolation(T, t, g, p, q, last) ==
  IF ~(IsRed(T, q) /\ IsRed(T, p)) THEN T
  ELSE LET dir2 == Bit(T.node[t][1] = g)
       IN  IF q = T.node[p][last] THEN LinkSingle(T, g, 1 - last, t, dir2)
                                  ELSE LinkDouble(T, g, 1 - last, t, dir2)

RECURSIVE InsertDown(_, _, _, _, _, _, _, _)
InsertDown(T, new, t, g, p, q, dir, last) ==
  LET met == IF q = NULL THEN new ELSE q
      T1 == CASE q = NULL     -> [T EXCEPT !.node[p][dir] = new]
              [] q # NULL /\ BothRed(T, q) -> ColorFlip(T, q)
              [] OTHER        -> T
      T2 == FixRedViolation(T1, t, g, p, met, last)
      next == Bit(Mem(T2, met) < Mem(T2, new))
  IN  IF met = new THEN T2
      ELSE InsertDown(T2, new, IF g # NULL THEN g ELSE t, p, met,
                      T2.node[met][next], next, dir)

BlackRoot(T, root) ==
  IF root = NULL THEN [T EXCEPT !.root = NULL]
                 ELSE [T EXCEPT !.root = root, !.red[root] = FALSE]

InsertNode(T, new) ==
  IF T.root = NULL THEN BlackRoot(T, new)
  ELSE LET T1 == [Fresh(T, FalseRoot, T.data[FalseRoot]) EXCEPT !.node[FalseRoot][1] = T.root]
           T2 == InsertDown(T1, new, FalseRoot, NULL, NULL, T.root, 0, 0)
       IN  BlackRoot(T2, T2.node[FalseRoot][1])

(***************************************************************************)
(* removeNode: down from the false root to the predecessor of the node,    *)
(* pushing a red struct down so that the last one can be cut off.          *)
(***************************************************************************)
PushFromSibling(T, g, p, q, s, last) ==
  IF ~IsRed(T, T.node[s][1 - last]) /\ ~IsRed(T, T.node[s][last])
  THEN [T EXCEPT !.red[p] = FALSE, !.red[s] = TRUE, !.red[q] = TRUE]
  ELSE LET dir2 == Bit(T.node[g][1] = p)
           T1 == IF IsRed(T, T.node[s][last]) THEN LinkDouble(T, p, last, g, dir2)
                                              ELSE LinkSingle(T, p, last, g, dir2)
           top == T1.node[g][dir2]
       IN  [T1 EXCEPT !.red[q] = TRUE,
                      !.red[top] = TRUE,
                      !.red[T1.node[top][0]] = FALSE,
                      !.red[T1.node[top][1]] = FALSE]

\* What one level of removeNode leaves behind: the tree, and p.
PushRedDown(T, g, p, q, dir, last) ==
  IF IsRed(T, q) \/ IsRed(T, T.node[q][dir]) THEN [tree |-> T, p |-> p]
  ELSE IF IsRed(T, T.node[q][1 - dir])
       THEN [tree |-> LinkSingle(T, q, dir, p, last), p |-> Lifted(T, q, dir)]
       ELSE LET s == T.node[p][1 - last]
            IN  [tree |-> IF s = NULL THEN T ELSE PushFromSibling(T, g, p, q, s, last),
                 p |-> p]

RECURSIVE RemoveDown(_, _, _, _, _, _)
RemoveDown(T, old, p, q, dir, f) ==
  IF T.node[q][dir] = NULL THEN [tree |-> T, p |-> p, q |-> q, f |-> f]
  ELSE LET q1 == T.node[q][dir]
           dir1 == Bit(Mem(T, q1) < Mem(T, old))
           step == PushRedDown(T, p, q, q1, dir1, dir)
       IN  RemoveDown(step.tree, old, step.p, q1, dir1, IF q1 = old THEN q1 ELSE f)

\* A mutated fillData that forgets the address.
FillDataInPlace(T, f, q) == [T EXCEPT !.data[f] = [T.data[q] EXCEPT !.mem = Mem(T, f)]]

\* f takes over the data of q.
FillData(T, f, q) == [T EXCEPT !.data[f] = T.data[q]]

\* The tree without the data of `old', and the struct that went with it.
RemoveNode(T, old) ==
  LET T1 == [Fresh(T, FalseRoot, T.data[FalseRoot]) EXCEPT !.node[FalseRoot][1] = T.root]
      down == RemoveDown(T1, old, NULL, FalseRoot, 1, NULL)
      q == down.q
      T2 == FillData(down.tree, down.f, q)
      side == Bit(T2.node[down.p][1] = q)
      T3 == [T2 EXCEPT !.node[down.p][side] = T2.node[q][Bit(T2.node[q][0] = NULL)]]
  IN  [tree |-> BlackRoot(T3, T3.node[FalseRoot][1]), dropped |-> q]

\* The struct whose chunk holds the address, by the order of the tree.
RECURSIVE FindFrom(_, _, _)
FindFrom(T, cur, mem) ==
  IF cur = NULL THEN NULL
  ELSE IF mem < Mem(T, cur) THEN FindFrom(T, T.node[cur][0], mem)
  ELSE IF mem >= Mem(T, cur) + T.data[cur].size THEN FindFrom(T, T.node[cur][1], mem)
  ELSE cur

FindPtr(T, mem) == FindFrom(T, T.root, mem)

-----------------------------------------------------------------------------
(***************************************************************************)
(* What the tree has to be.                                                *)
(***************************************************************************)
RECURSIVE Below(_, _)
Below(T, s) ==
  IF s = NULL THEN {} ELSE {s} \cup Below(T, T.node[s][0]) \cup Below(T, T.node[s][1])

InTree(T) == Below(T, T.root)

\* Black structs on a path down from s, or 0 when two paths differ.
RECURSIVE BlackHeight(_, _)
BlackHeight(T, s) ==
  IF s = NULL THEN 1
  ELSE LET l == BlackHeight(T, T.node[s][0])
           r == BlackHeight(T, T.node[s][1])
       IN  IF l = 0 \/ r = 0 \/ l # r THEN 0 ELSE IF T.red[s] THEN l ELSE l + 1

\* checkTree and rbAssert, the order for whole subtrees and not only between
\* a struct and its children.
RedBlack(T) ==
  /\ ~IsRed(T, T.root)
  /\ BlackHeight(T, T.root) > 0
  /\ \A s \in InTree(T) :
       /\ T.red[s] => ~IsRed(T, T.node[s][0]) /\ ~IsRed(T, T.node[s][1])
       /\ \A x \in Below(T, T.node[s][0]) : Mem(T, x) < Mem(T, s)
       /\ \A x \in Below(T, T.node[s][1]) : Mem(T, x) > Mem(T, s)
=============================================================================

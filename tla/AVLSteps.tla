------------------------------ MODULE AVLSteps ------------------------------
(***************************************************************************)
(* What the methods of the AVL variants' class AVLTree do at one node: the *)
(* reads, the rotations, how insert() and removal choose among them when   *)
(* they come back up, and the leaves finilize() writes down.  Module       *)
(* AVLTree recurses with it.                                               *)
(*                                                                         *)
(* A node records, next to the key of a child, the leaf the child is kept  *)
(* on; ReadNode must be given that leaf.  What an operation reads stays in *)
(* the client's cache, and the nodes the methods hold are pointers into    *)
(* it.  Each method is an operator from the memory of the operation (m) to *)
(* the memory it leaves and the node it returns.                           *)
(***************************************************************************)
EXTENDS Integers, FiniteSetsExt

CONSTANTS
  Keys,          \* identifiers (Bid), in the order of Bid::operator<
  Values,
  HeightBound,   \* greatest height finilize() gives new leaves to: that of
                 \* the cache, or maxHeightOfAVLTree (mitra), depth + 2 (foram)
  Leaves,        \* leaves of the bucket tree
  T2From         \* where rightRotate() reads T2: "cache" (morion, borion,
                 \* oriel, foram), "server" (AVLTreef of orion and orionsq)

VARIABLE
  nodes          \* nodes[k]: the up-to-date copy of the node with key k, as
                 \* the operation found it

Null == 0        \* the key of no node (leftID, rightID, rootKey)
NoPos == -1      \* the leaf next to Null, which nothing reads
Sides == {"left", "right"}
Other(d) == IF d = "left" THEN "right" ELSE "left"

\* kid: leftID, rightID; kpos: leftPos, rightPos.
Node == [val : Values, kid : [Sides -> Keys \cup {Null}],
         kpos : [Sides -> Leaves \cup {NoPos}], height : Nat, pos : Leaves]

StepsAssumption ==
  /\ Keys \subseteq Nat \ {Null} /\ Leaves \subseteq Nat
  /\ HeightBound \in Nat /\ T2From \in {"cache", "server"}
-----------------------------------------------------------------------------
(***************************************************************************)
(* The memory of an operation: the nodes, those it has read (modified, and *)
(* all in the cache), and whether a read went wrong.                       *)
(***************************************************************************)
Height(m, k) == IF k \in DOMAIN m.n THEN m.n[k].height ELSE 0
Kid(m, k, d) == IF k \in DOMAIN m.n THEN m.n[k].kid[d] ELSE Null
KidPos(m, k, d) == IF k \in DOMAIN m.n THEN m.n[k].kpos[d] ELSE NoPos
Pos(m, k) == IF k \in DOMAIN m.n THEN m.n[k].pos ELSE NoPos
SetKid(m, k, d, c, leaf) == [m EXCEPT !.n[k].kid[d] = c, !.n[k].kpos[d] = leaf]

\* ReadNode(bid, leaf, leaf): the node is in the cache, or on that path.
ReadNode(m, k, leaf) ==
  IF k = Null THEN m
  ELSE IF k \in DOMAIN m.n /\ (k \in m.modified \/ m.n[k].pos = leaf)
       THEN [m EXCEPT !.n[k].pos = leaf, !.modified = @ \cup {k}]
       ELSE [m EXCEPT !.lost = TRUE]

ReadKid(m, k, d) == ReadNode(m, Kid(m, k, d), KidPos(m, k, d))
ReadKids(m, k) == ReadKid(ReadKid(m, k, "left"), k, "right")

\* setupReadN(T2, bid, leaf) looks on the server only, which has the nodes of
\* earlier operations; the loop over the path of a node that is not there
\* (size_t d >= 0) runs past the root.
setupReadKid(m, k, d) ==
  LET c == Kid(m, k, d)
  IN  IF c = Null \/ (c \in DOMAIN nodes /\ nodes[c].pos = KidPos(m, k, d)) THEN m
      ELSE [m EXCEPT !.lost = TRUE]

\* Mutant: the height of the left subtree only.
UpdateHeight_Left(m, k) ==
  LET r == ReadKids(m, k) IN [r EXCEPT !.n[k].height = Height(r, Kid(r, k, "left")) + 1]

\* node->height = max(height(left), height(right)) + 1
UpdateHeight(m, k) ==
  LET r == ReadKids(m, k)
  IN  [r EXCEPT !.n[k].height = Max({Height(r, Kid(r, k, d)) : d \in Sides}) + 1]

\* getBalance(), and its result once the children have been read.
Heavier(m, k, d) == Height(m, Kid(m, k, d)) - Height(m, Kid(m, k, Other(d)))
-----------------------------------------------------------------------------
(***************************************************************************)
(* Rotations: the child of y on side d takes y's place.                    *)
(***************************************************************************)
\* What a method returns: the memory, the node now at the top of the subtree.
Rotated(m, top) == [m |-> m, key |-> top, pos |-> Pos(m, top)]

\* ... which becomes the child of k.
Attach(s, k, d) == SetKid(s.m, k, d, s.key, s.pos)

\* ReadNode() of T2, the child of x that changes sides.
ReadT2(m, x, d) ==
  IF T2From = "server" /\ d = "left" THEN setupReadKid(m, x, "right") ELSE ReadKid(m, x, Other(d))

\* x, the child of y on side d, takes y's place and y takes x's child T2.
Turn(m, y, x, d) ==
  LET T2 == Kid(m, x, Other(d))
  IN  UpdateHeight(UpdateHeight(SetKid(SetKid(m, x, Other(d), y, Pos(m, y)), y, d, T2, Pos(m, T2)), y), x)

TurnOver(m, y, x, d) == Rotated(Turn(ReadT2(m, x, d), y, x, d), x)

\* rightRotate() if d is "left", leftRotate() if it is "right".
Rotate(m, y, d) == LET m1 == ReadKid(m, y, d) IN TurnOver(m1, y, Kid(m1, y, d), d)

\* Left right and right left case: the child on side d is rotated first.
RotateTwice(m, k, d) == Rotate(Attach(Rotate(m, Kid(m, k, d), Other(d)), k, d), k, d)
-----------------------------------------------------------------------------
(***************************************************************************)
(* insert(): what it does with a node when it comes back up.               *)
(***************************************************************************)
Beyond(key, c, d) == IF d = "left" THEN key < c ELSE key > c

\* The four cases after an insertion, chosen by where the new key went.
BalanceInsert(m0, k, key) ==
  LET m == ReadKids(m0, k) IN
  IF \E d \in Sides : Heavier(m, k, d) > 1 /\ key # Kid(m, k, d)
  THEN LET d == CHOOSE d \in Sides : Heavier(m, k, d) > 1
       IN  IF Beyond(key, Kid(m, k, d), d) THEN Rotate(m, k, d) ELSE RotateTwice(m, k, d)
  ELSE Rotated(m, k)

\* s: what the insertion into the child of root on side d returned.
InsertReturns(s, root, d, key) == BalanceInsert(UpdateHeight(Attach(s, root, d), root), root, key)
-----------------------------------------------------------------------------
(***************************************************************************)
(* Removal: the same for the nodes above the one taken out, and for the    *)
(* child that takes its place.                                             *)
(***************************************************************************)
\* Mutant: the double rotation is never chosen.
Rebalance_Single(m0, k) ==
  LET m == ReadKids(m0, k) IN
  IF \E d \in Sides : Heavier(m, k, d) > 1
  THEN LET d == CHOOSE d \in Sides : Heavier(m, k, d) > 1
       IN  Rotate(ReadKids(m, Kid(m, k, d)), k, d)
  ELSE Rotated(m, k)

\* c, the child of k on the heavy side d, is rotated first if it leans away.
RotateHeavy(m, k, c, d) == IF Heavier(m, c, d) >= 0 THEN Rotate(m, k, d) ELSE RotateTwice(m, k, d)

\* The four cases after a removal (balance(), the ends of removeDel() and
\* balanceDel()), chosen by the heavier child's own balance.
Rebalance(m0, k) ==
  LET m == ReadKids(m0, k) IN
  IF \E d \in Sides : Heavier(m, k, d) > 1
  THEN LET d == CHOOSE d \in Sides : Heavier(m, k, d) > 1
           c == Kid(m, k, d)
       IN  RotateHeavy(ReadKids(m, c), k, c, d)
  ELSE Rotated(m, k)

\* m: the memory with the child that a removal returned attached to k.
RemoveReturns(m, k) == Rebalance(UpdateHeight(m, k), k)

\* Mutant: the node returned is the one that was balanced, not the new top.
RereadTop_OldKey(r, k, minPos) == Rotated(ReadNode(r.m, k, minPos), k)

\* The caller passes node->pos by reference and reads the new top with the
\* leaf node had before: after a rotation the two have exchanged leaves.
RereadTop(r, k, minPos) ==
  LET m == IF r.key = k THEN r.m ELSE [r.m EXCEPT !.n[k].pos = r.pos]
  IN  Rotated(ReadNode(m, r.key, minPos), r.key)

\* min, the right child of del and without a left one, takes del's left child.
RaiseChild(m, min, del) ==
  LET lc == Kid(m, del, "left")
  IN  RereadTop(RemoveReturns(SetKid(m, min, "left", lc, Pos(m, lc)), min), min, Pos(m, min))
-----------------------------------------------------------------------------
(***************************************************************************)
(* finilize(): the leaves drawn for the nodes that were read.              *)
(***************************************************************************)
\* finilize() takes the nodes height by height, those of one height in the
\* order of their keys.
RemappedBefore(m, c, k) ==
  Height(m, c) < Height(m, k) \/ (Height(m, c) = Height(m, k) /\ c < k)

\* The leaf finilize() writes next to the child of k on side d.
RecordedPos(m, newPos, k, d) ==
  LET c == Kid(m, k, d) IN
  IF c \in DOMAIN newPos
  THEN IF RemappedBefore(m, c, k) THEN newPos[c] ELSE Pos(m, c)
  ELSE KidPos(m, k, d)

NewRootPos(m, newPos, root) == IF root \in DOMAIN newPos THEN newPos[root] ELSE Pos(m, root)

Remapped(m) == {k \in m.modified \cap DOMAIN m.n : Height(m, k) <= HeightBound}

NodesAfter(m, newPos) ==
  [k \in DOMAIN m.n |->
     IF k \notin DOMAIN newPos THEN m.n[k]
     ELSE [m.n[k] EXCEPT !.pos = newPos[k], !.kpos = [d \in Sides |-> RecordedPos(m, newPos, k, d)]]]
=============================================================================

------------------------------ MODULE AVLTree -------------------------------
(***************************************************************************)
(* The AVL tree of the morion, orion and orionsq variants (classes AVLTree *)
(* and OMAP, AVLTreef and OMAPf), whose nodes live in a Path ORAM.  What   *)
(* an operation reads stays in the client's cache until finilize() draws   *)
(* new leaves for it, in the order of the heights written in the nodes,    *)
(* and writes it back.                                                     *)
(*                                                                         *)
(* The methods recurse with the caller's node in hand; each is an operator *)
(* on the memory of the operation, made of those of AVLSteps, and an       *)
(* operation is one action.  How the paths are fetched and written back is *)
(* module AvlORAM's.                                                       *)
(***************************************************************************)
EXTENDS AVLSteps, Functions

CONSTANTS
  InitDict,      \* the entries setupInsert() is given
  BatchSize,     \* bound on the keys of one batch
  Draws(_)       \* draws of new leaves explored for a set of nodes

VARIABLES        \* besides nodes
  rootKey, rootPos,    \* OMAP's root and the leaf it is kept on
  last,          \* the last call: its keys, the entries given or returned
  lost           \* a node was not where its parent says, or NULL was followed

vars == <<nodes, rootKey, rootPos, last, lost>>

AVLAssumption ==
  /\ StepsAssumption /\ BatchSize \in Nat
  /\ DOMAIN InitDict \subseteq Keys /\ Range(InitDict) \subseteq Values
-----------------------------------------------------------------------------
(***************************************************************************)
(* insert() and search().                                                  *)
(***************************************************************************)
NewNode(key, value, leaf) ==
  [val |-> value, kid |-> [d \in Sides |-> Null], kpos |-> [d \in Sides |-> NoPos],
   height |-> 1, pos |-> leaf]

\* Mutant: the value of a key that is there already is left.
Overwrite_Skipped(m, k, value) == m

Overwrite(m, k, value) == [m EXCEPT !.n[k].val = value]

\* leaf: the one newNode() draws.
RECURSIVE insert(_, _, _, _, _, _)
insert(m, root, pos, key, value, leaf) ==
  IF root = Null
  THEN Rotated([m EXCEPT !.n = [k \in DOMAIN @ \cup {key} |->
                                  IF k = key THEN NewNode(key, value, leaf) ELSE @[k]],
                         !.modified = @ \cup {key}], key)
  ELSE LET r == ReadNode(m, root, pos) IN
       IF key = root THEN Rotated(Overwrite(r, root, value), root)
       ELSE LET d == IF key < root THEN "left" ELSE "right"
                s == insert(r, Kid(r, root, d), KidPos(r, root, d), key, value, leaf)
            IN  InsertReturns(s, root, d, key)

\* The node with the key, Null if there is none.
RECURSIVE search(_, _, _, _)
search(m, head, pos, key) ==
  LET r == ReadNode(m, head, pos)
      d == IF key < head THEN "left" ELSE "right"
  IN  IF head \in {Null, key} THEN [m |-> r, key |-> head]
      ELSE search(r, Kid(r, head, d), KidPos(r, head, d), key)

\* The keys below head go left, those above it right, both from head.
RECURSIVE batchSearch(_, _, _, _)
batchSearch(m, head, pos, keys) ==
  IF head = Null \/ keys = {} THEN [m |-> m, found |-> {}]
  ELSE LET r == ReadNode(m, head, pos)
           L == batchSearch(r, Kid(r, head, "left"), KidPos(r, head, "left"),
                            {k \in keys : k < head})
           R == batchSearch(L.m, Kid(L.m, head, "right"), KidPos(L.m, head, "right"),
                            {k \in keys : k > head})
       IN  [m |-> R.m, found |-> L.found \cup R.found \cup (keys \cap {head})]
-----------------------------------------------------------------------------
(***************************************************************************)
(* remove().  A node with a right child is replaced by the least node of   *)
(* its right subtree (minValueNode); the leaves of two nodes are exchanged *)
(* on the way when balance() rotates.                                      *)
(***************************************************************************)
RECURSIVE minValueNode(_, _, _, _)
minValueNode(m, k, pos, sofar) ==
  IF k = Null THEN [m |-> m, key |-> sofar]
  ELSE LET r == ReadNode(m, k, pos)
       IN  minValueNode(r, Kid(r, k, "left"), KidPos(r, k, "left"), k)

\* The parent of key, searched from the node par whose child on the way is c.
RECURSIVE parentOf(_, _, _, _)
parentOf(m, par, c, key) ==
  IF c \in {Null, key} THEN [m |-> [m EXCEPT !.lost = @ \/ c = Null], key |-> par]
  ELSE LET d == IF key < c THEN "left" ELSE "right"
       IN  parentOf(ReadKid(m, c, d), c, Kid(m, c, d), key)

\* The way from k down to parmin is balanced again, parmin first.
RECURSIVE balanceDel(_, _, _, _)
balanceDel(m, k, pos, parmin) ==
  LET r == ReadNode(m, k, pos)
      d == IF parmin < k THEN "left" ELSE "right"
      s == balanceDel(r, Kid(r, k, d), KidPos(r, k, d), parmin)
      t == IF k \in {Null, parmin} THEN r ELSE Attach(s, k, d)
  IN  RemoveReturns(t, k)

\* DeleteNode(): what the cache holds under the key is no node any more.
DeleteNode(m, k) == [m EXCEPT !.n = Restrict(@, DOMAIN @ \ {k})]

\* min, further down, leaves its right child to its parent par ...
Unhook(m, min, par) ==
  LET rc == Kid(m, min, "right")
  IN  UpdateHeight(SetKid(m, par, "left", rc, Pos(m, rc)), par)

\* ... and takes del's children ...
TakeChildren(m, min, del) ==
  UpdateHeight([m EXCEPT !.n[min].kid = m.n[del].kid, !.n[min].kpos = m.n[del].kpos], min)

\* ... and the way down to par is balanced.
RaiseLeast(m, min, par) == RereadTop(balanceDel(m, min, Pos(m, min), par), min, Pos(m, min))

\* Take the node del out of its subtree (removeRoot, realDelete): the node
\* that stands there afterwards.  top is where parentOf() starts.
Splice(m0, top, del) ==
  LET m    == ReadKid(m0, del, "right")
      b    == Kid(m, del, "right")
      left == ReadKid(m, del, "left")
      mn   == minValueNode(m, b, Pos(m, b), del)
      min  == mn.key
      pm   == parentOf(mn.m, top, top, min)
  IN  IF b = Null THEN Rotated(left, Kid(left, del, "left"))
      ELSE IF pm.key = del THEN RaiseChild(ReadKid(pm.m, del, "left"), min, del)
      ELSE RaiseLeast(TakeChildren(Unhook(ReadKid(pm.m, min, "right"), min, pm.key), min, del), min, pm.key)

removeRoot(m, root, pos) ==
  LET s == Splice(ReadNode(m, root, pos), root, root)
  IN  [s EXCEPT !.m = DeleteNode(@, root)]

SideOf(m, k, c) == IF Kid(m, k, "left") = c THEN "left" ELSE "right"

realDelete(m, paren, del, delPos) ==
  LET d == SideOf(m, paren, del)
      s == Splice(ReadNode(m, del, delPos), paren, del)
  IN  DeleteNode(UpdateHeight(Attach(s, paren, d), paren), del)

\* Down to the parent of the node to remove, and back up balancing.
RECURSIVE removeDel(_, _, _, _, _, _)
removeDel(m, root, pos, del, delPos, paren) ==
  LET r == ReadNode(m, root, pos)
      d == IF paren < root THEN "left" ELSE "right"
      s == removeDel(r, Kid(r, root, d), KidPos(r, root, d), del, delPos, paren)
      t == IF root \in {Null, paren} THEN realDelete(r, paren, del, delPos)
                                     ELSE Attach(s, root, d)
  IN  RemoveReturns(t, root)

removeMain(m, root, pos, del) ==
  IF root = del THEN removeRoot(m, root, pos)
  ELSE LET p == parentOf(ReadNode(m, root, pos), root, root, del)
       IN  removeDel(p.m, root, pos, del, KidPos(p.m, p.key, SideOf(p.m, p.key, del)), p.key)
-----------------------------------------------------------------------------
(***************************************************************************)
(* Operations (class OMAP): startOperation(), the walk, finilize().        *)
(***************************************************************************)
StartOperation == [n |-> nodes, modified |-> {}, lost |-> FALSE]

FinishWith(m, root) ==
  /\ \E newPos \in Draws(Remapped(m)) :
       /\ nodes' = NodesAfter(m, newPos)
       /\ rootPos' = NewRootPos(m, newPos, root)
  /\ rootKey' = root
  /\ lost' = (lost \/ m.lost)

\* r: what the walk returned.
FinishOperation(r) == FinishWith(r.m, r.key)

NoEntry == [k \in {} |-> {}]
Call(S, e) == [keys |-> S, entries |-> e]

Insert(key, value) ==
  \E leaf \in Leaves :
    LET r == insert(StartOperation, rootKey, rootPos, key, value, leaf)
    IN  FinishOperation(r) /\ last' = Call({key}, [k \in {key} |-> value])

\* e: the pairs, inserted in the order of their keys.
RECURSIVE InsertAll(_, _, _)
InsertAll(r, e, keys) ==
  IF keys = {} THEN r
  ELSE LET k == Min(keys)
       IN  InsertAll(insert(r.m, r.key, r.pos, k, e[k].val, e[k].leaf), e, keys \ {k})

BatchInsert(e) ==
  LET r == InsertAll([m |-> StartOperation, key |-> rootKey, pos |-> rootPos], e, DOMAIN e)
  IN  FinishOperation(r) /\ last' = Call(DOMAIN e, [k \in DOMAIN e |-> e[k].val])

\* The caller (Orion) removes keys it has inserted only.
Remove(key) ==
  /\ key \in DOMAIN nodes
  /\ LET r == removeMain(StartOperation, rootKey, rootPos, key)
     IN  FinishOperation(r)
  /\ last' = Call({key}, NoEntry)

Found(m, keys) == [k \in keys \cap DOMAIN m.n |-> m.n[k].val]

Find(key) ==
  LET r == search(StartOperation, rootKey, rootPos, key)
  IN  /\ rootKey # Null
      /\ FinishWith(r.m, rootKey)
      /\ last' = Call({key}, Found(r.m, {r.key}))

FindInEmpty(key) ==
  /\ rootKey = Null /\ last' = Call({key}, NoEntry)
  /\ UNCHANGED <<nodes, rootKey, rootPos, lost>>

BatchSearch(keys) ==
  LET r == batchSearch(StartOperation, rootKey, rootPos, keys)
  IN  FinishWith(r.m, rootKey) /\ last' = Call(keys, Found(r.m, r.found))
-----------------------------------------------------------------------------
(***************************************************************************)
(* setupInsert(): sortedArrayToBST() makes the entries start .. end of the *)
(* sorted list into a tree with the middle one at the top.  p: the leaves  *)
(* drawn.                                                                  *)
(***************************************************************************)
Nth(i) == CHOOSE k \in DOMAIN InitDict : Cardinality({j \in DOMAIN InitDict : j < k}) = i

RECURSIVE sortedArrayToBST(_, _, _)
sortedArrayToBST(p, start, end) ==
  IF start > end THEN [key |-> Null, pos |-> NoPos, height |-> 0, n |-> NoEntry]
  ELSE LET mid == (start + end) \div 2
           k == Nth(mid)
           L == sortedArrayToBST(p, start, mid - 1)
           R == sortedArrayToBST(p, mid + 1, end)
           h == Max({L.height, R.height}) + 1
           node == [val |-> InitDict[k], height |-> h, pos |-> p[k],
                    kid |-> [d \in Sides |-> IF d = "left" THEN L.key ELSE R.key],
                    kpos |-> [d \in Sides |-> IF d = "left" THEN L.pos ELSE R.pos]]
       IN  [key |-> k, pos |-> p[k], height |-> h,
            n |-> [j \in DOMAIN L.n \cup DOMAIN R.n \cup {k} |->
                     IF j = k THEN node ELSE IF j < k THEN L.n[j] ELSE R.n[j]]]

Init ==
  /\ \E p \in [DOMAIN InitDict -> Leaves] :
       LET t == sortedArrayToBST(p, 0, Cardinality(DOMAIN InitDict) - 1)
       IN  nodes = t.n /\ rootKey = t.key /\ rootPos = t.pos
  /\ last = Call({}, NoEntry) /\ lost = FALSE

Batches == {S \in SUBSET Keys : Cardinality(S) \in 2 .. BatchSize}

Next ==
  \/ \E k \in Keys, v \in Values : Insert(k, v)
  \/ \E k \in Keys : Remove(k) \/ Find(k) \/ FindInEmpty(k)
  \/ \E S \in Batches :
       \/ BatchSearch(S)
       \/ \E e \in [S -> [val : Values, leaf : Leaves]] : BatchInsert(e)

Spec == Init /\ [][Next]_vars
-----------------------------------------------------------------------------
(***************************************************************************)
(* Correctness.                                                            *)
(***************************************************************************)
TypeOK ==
  /\ DOMAIN nodes \subseteq Keys
  /\ \A k \in DOMAIN nodes : nodes[k] \in Node
  /\ rootKey \in Keys \cup {Null} /\ rootPos \in Leaves \cup {NoPos}
  /\ last.keys \subseteq Keys /\ DOMAIN last.entries \subseteq last.keys /\ lost \in BOOLEAN

KidOf(k, d) == nodes[k].kid[d]

\* The keys of the subtree of k.
RECURSIVE Below(_)
Below(k) == IF k \notin DOMAIN nodes THEN {} ELSE
            {k} \cup Below(KidOf(k, "left")) \cup Below(KidOf(k, "right"))

\* Every node hangs under the root and the keys are in order from left to
\* right, whatever was rotated, spliced out or moved: a search that compares
\* keys finds every one (insert, removeDel, balanceDel, rotations).
SearchTree ==
  /\ Below(rootKey) = DOMAIN nodes
  /\ \A k \in DOMAIN nodes :
       /\ \A j \in Below(KidOf(k, "left")) : j < k
       /\ \A j \in Below(KidOf(k, "right")) : j > k

\* The height written in a node is its height, and its subtrees differ by
\* one at most (insertions and removals walk 1.44 log n nodes; finilize()
\* pads an operation to a number of paths that relies on it).
Balanced ==
  \A k \in DOMAIN nodes :
    LET h(d) == IF KidOf(k, d) = Null THEN 0 ELSE nodes[KidOf(k, d)].height
    IN  /\ nodes[k].height = Max({h("left"), h("right")}) + 1
        /\ h("left") - h("right") \in -1 .. 1

\* The position map kept in the nodes: the leaf written next to a child is
\* the leaf the child is on.  finilize() relies on the heights for it: a
\* child not lower than its parent would be remapped after it.
PositionMap ==
  /\ rootKey # Null => rootPos = nodes[rootKey].pos
  /\ \A k \in DOMAIN nodes, d \in Sides :
       KidOf(k, d) # Null => nodes[k].kpos[d] = nodes[KidOf(k, d)].pos

\* No operation asks for a node on a leaf it is not on, and none follows a
\* null pointer.
NothingLost == ~lost

\* The tree is a dictionary.
Dict == INSTANCE Dictionary WITH dict <- [k \in DOMAIN nodes |-> nodes[k].val]
DictionarySpec == Dict!Spec
=============================================================================

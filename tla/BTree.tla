------------------------------- MODULE BTree --------------------------------
(***************************************************************************)
(* The B-tree of class BTree: insertion that splits full nodes on the way  *)
(* down, deletion that fills nodes on the way down, and search.  Nodes are *)
(* read and written as if they were in memory (NodeTree; module BRAM shows *)
(* that the Path ORAM behaves so).  Every method is tail recursive, so an  *)
(* operation is a walk: one action is one call of insertNFull, searchkw or *)
(* deletion, with what it does to the node and to its children.            *)
(*                                                                         *)
(* A key's value is moved wherever the key is, so a node keeps its keys    *)
(* only; a file's number is never 0, so keynum() counts them.              *)
(***************************************************************************)
EXTENDS Integers, FiniteSets, SequencesExt

CONSTANTS
  T,             \* Types.hpp: a node has at most 2T - 1 keys
  MaxKey,        \* (keyword, counter) pairs, numbered in the order of Bid::operator<
  MaxBid,        \* bound on the node identifiers handed out
  InitTrees,     \* trees setup may make: their nodes (node 1 is the root), labelled
  None           \* no node

Keys == 1 .. MaxKey
Bids == 1 .. MaxBid
Node == [keys : Seq(Keys), kids : Seq(Bids)]       \* no kids: a leaf

(***************************************************************************)
(* What a B-tree is.  The nodes nd of the tree with root r carry labels L: *)
(* their heights, the keys lo and hi that everything below them is         *)
(* between, their parent and their position in it.                         *)
(***************************************************************************)

\* The keys of a node with its bounds before and after them.
Sep(keys, low, high, j) ==
  IF j = 0 THEN low ELSE IF j = Len(keys) + 1 THEN high ELSE keys[j]
SepOf(nd, L, x, j) == Sep(nd[x].keys, L.lo[x], L.hi[x], j)

IsLabel(L, x) ==
  L.h[x] \in Nat /\ L.lo[x] \in 0 .. MaxKey + 1 /\ L.hi[x] \in 0 .. MaxKey + 1

IsShaped(nd, L, x) ==
  /\ Len(nd[x].kids) = IF L.h[x] = 0 THEN 0 ELSE Len(nd[x].keys) + 1
  /\ \A j, k \in 0 .. Len(nd[x].keys) + 1 : j < k => SepOf(nd, L, x, j) < SepOf(nd, L, x, k)

IsChild(nd, r, L, x, j) ==
  LET c == nd[x].kids[j] IN
  /\ nd[c] # None /\ c # r
  /\ L.h[x] = L.h[c] + 1 /\ L.parent[c] = x /\ L.place[c] = j
  /\ L.lo[c] = SepOf(nd, L, x, j - 1) /\ L.hi[c] = SepOf(nd, L, x, j)

HasParent(nd, L, c) ==
  LET x == L.parent[c]
      j == L.place[c]
  IN  x \in Bids /\ nd[x] # None /\ j \in DOMAIN nd[x].kids /\ nd[x].kids[j] = c

IsTree(nd, r, L) ==
  LET P == {x \in Bids : nd[x] # None} IN
  /\ P # {} => r \in P /\ L.lo[r] = 0 /\ L.hi[r] = MaxKey + 1
  /\ \A x \in P : /\ nd[x] \in Node
                  /\ IsLabel(L, x) /\ IsShaped(nd, L, x)
                  /\ \A j \in DOMAIN nd[x].kids : IsChild(nd, r, L, x, j)
                  /\ x # r => HasParent(nd, L, x)

\* A node but the root is at least half full.
IsFilled(nd, r) ==
  \A x \in Bids : nd[x] # None =>
    /\ Len(nd[x].keys) <= 2 * T - 1
    /\ x # r => Len(nd[x].keys) >= T - 1
    /\ nd[x].kids = <<>> => nd[x].keys # <<>>

NodesOf(t) == [x \in Bids |-> IF x \in DOMAIN t.nodes THEN t.nodes[x] ELSE None]
RootOf(t) == IF t.nodes = <<>> THEN 0 ELSE 1

ASSUME BTreeAssumption ==
  /\ T \in Nat /\ T > 1 /\ MaxKey \in Nat /\ MaxBid \in Nat /\ None \notin Node \cup Bids \cup {0}
  /\ \A t \in InitTrees :
       /\ t.nodes \in Seq(Node) /\ Len(t.nodes) <= MaxBid
       /\ IsTree(NodesOf(t), RootOf(t), t.label) /\ IsFilled(NodesOf(t), RootOf(t))
       /\ t.nodes # <<>> => t.nodes[1].keys # <<>>

VARIABLES
  node,          \* node[x]: node x; None before it is created and when bid is 0
  brootKey,      \* bid of the root, 0 for an empty tree
  nextbid,       \* last bid handed out
  op, kw,        \* operation under way and the key it was called with
  cur, key,      \* node of the current call (0: deletion() has returned), its key
  res,           \* what the last search found
  failed         \* a call threw: its bid was 0

opVars == <<op, kw, cur, key>>
vars == <<node, brootKey, nextbid, opVars, res, failed>>

keynum(x) == Len(node[x].keys)
isleaf(x) == node[x].kids = <<>>

\* findKey(): the number of keys of x up to the first that is not below k
\* (insertNFull and searchkw compute the same number); so the position of k,
\* or of the child to look in, less 1.
findKey(k, x) ==
  CHOOSE j \in 0 .. keynum(x) :
    /\ \A i \in 1 .. j : node[x].keys[i] < k
    /\ j < keynum(x) => ~ (node[x].keys[j + 1] < k)
HasKey(k, x) == findKey(k, x) < keynum(x) /\ node[x].keys[findKey(k, x) + 1] = k
ChildFor(k, x) == node[x].kids[findKey(k, x) + 1]

Init ==
  /\ \E t \in InitTrees : node = NodesOf(t) /\ brootKey = RootOf(t) /\ nextbid = Len(t.nodes)
  /\ op = "idle" /\ kw \in Keys /\ key = kw /\ cur = 0
  /\ res = FALSE /\ failed = FALSE

Kids(x) == IF node[x] = None THEN {} ELSE Range(node[x].kids)
KeysIn(x) == IF node[x] = None THEN {} ELSE Range(node[x].keys)

\* The nodes of the tree, and its keys.
nodesUnder[x \in Bids] == {x} \cup UNION {nodesUnder[c] : c \in Kids(x)}
Reachable == IF brootKey = 0 \/ node[brootKey] = None THEN {} ELSE nodesUnder[brootKey]
keysUnder(x) == UNION {KeysIn(y) : y \in nodesUnder[x]}
keyset == UNION {KeysIn(y) : y \in Reachable}

\* Orion counts a keyword's entries up, so it never inserts a key twice.
Begin(kind, k) ==
  /\ op = "idle" /\ ~failed
  /\ kind = "insert" => k \notin keyset
  /\ op' = kind /\ kw' = k /\ key' = k
  /\ cur' = brootKey
  /\ res' = FALSE
  /\ UNCHANGED <<node, brootKey, nextbid, failed>>

\* searchkw() and ReadBTreeNode() of bid 0 throw; removekw() tests for it.
Throw ==
  /\ op = "search" /\ cur = 0 /\ ~failed
  /\ failed' = TRUE
  /\ UNCHANGED <<node, brootKey, nextbid, opVars, res>>

Return == op' = "idle" /\ UNCHANGED <<kw, cur, key>>
DescendTo(x, k) == cur' = x /\ key' = k /\ UNCHANGED <<op, kw>>
-----------------------------------------------------------------------------
(***************************************************************************)
(* Search.                                                                 *)
(***************************************************************************)
Search ==
  /\ op = "search" /\ cur # 0
  /\ \/ HasKey(key, cur) /\ res' = TRUE /\ Return
     \/ ~HasKey(key, cur) /\ isleaf(cur) /\ UNCHANGED res /\ Return
     \/ /\ ~HasKey(key, cur) /\ ~isleaf(cur)
        /\ DescendTo(ChildFor(key, cur), key)
        /\ UNCHANGED res
  /\ UNCHANGED <<node, brootKey, nextbid, failed>>
-----------------------------------------------------------------------------
(***************************************************************************)
(* Insertion.                                                              *)
(***************************************************************************)
Part(s, m, n) == IF s = <<>> THEN <<>> ELSE SubSeq(s, m, n)

\* Mutant: one child too few goes to z (j < T - 1 for j < T).
SplitChild_LosesKid(nodes, p, i, y, z) ==
  [nodes EXCEPT
     ![p] = [keys |-> InsertAt(@.keys, i, nodes[y].keys[T]),
             kids |-> InsertAt(@.kids, i + 1, z)],
     ![y] = [keys |-> SubSeq(@.keys, 1, T - 1), kids |-> Part(@.kids, 1, T)],
     ![z] = [keys |-> SubSeq(nodes[y].keys, T + 1, 2 * T - 1),
             kids |-> Part(nodes[y].kids, T + 1, 2 * T - 1)]]

\* splitChild(p, i, y, z): the upper half of the full i-th child y of p goes
\* to the new node z, and its middle key up to p.
SplitChild(nodes, p, i, y, z) ==
  [nodes EXCEPT
     ![p] = [keys |-> InsertAt(@.keys, i, nodes[y].keys[T]),
             kids |-> InsertAt(@.kids, i + 1, z)],
     ![y] = [keys |-> SubSeq(@.keys, 1, T - 1), kids |-> Part(@.kids, 1, T)],
     ![z] = [keys |-> SubSeq(nodes[y].keys, T + 1, 2 * T - 1),
             kids |-> Part(nodes[y].kids, T + 1, 2 * T)]]

InsertFirst ==
  /\ op = "insert" /\ cur = 0 /\ nextbid + 1 <= MaxBid
  /\ nextbid' = nextbid + 1
  /\ node' = [node EXCEPT ![nextbid'] = [keys |-> <<key>>, kids |-> <<>>]]
  /\ brootKey' = nextbid'
  /\ Return
  /\ UNCHANGED <<res, failed>>

\* insertkw() of a full root: a new root s, then insertNFull() of s or, when
\* the key is below the key that moved up, of the old root.
SplitRoot ==
  LET r == brootKey
      s == nextbid + 1
      z == nextbid + 2
      empty == [keys |-> <<>>, kids |-> <<r>>]
  IN
  /\ op = "insert" /\ cur = brootKey /\ cur # 0 /\ keynum(cur) = 2 * T - 1
  /\ z <= MaxBid
  /\ node' = SplitChild([node EXCEPT ![s] = empty], s, 1, r, z)
  /\ brootKey' = s /\ nextbid' = z
  /\ DescendTo(IF node'[s].keys[1] < key THEN s ELSE r, key)
  /\ UNCHANGED <<res, failed>>

InsertIntoLeaf ==
  /\ op = "insert" /\ cur # 0 /\ isleaf(cur) /\ keynum(cur) < 2 * T - 1
  /\ node' = [node EXCEPT ![cur].keys = InsertAt(@, findKey(key, cur) + 1, key)]
  /\ Return
  /\ UNCHANGED <<brootKey, nextbid, res, failed>>

\* insertNFull() of an inner node whose next child is full.
InsertSplitting ==
  LET y == ChildFor(key, cur)
      i == findKey(key, cur) + 1
      z == nextbid + 1
  IN
  /\ op = "insert" /\ cur # 0 /\ ~isleaf(cur) /\ keynum(cur) < 2 * T - 1
  /\ keynum(y) = 2 * T - 1 /\ z <= MaxBid
  /\ node' = SplitChild(node, cur, i, y, z)
  /\ nextbid' = z
  /\ DescendTo(IF node'[cur].keys[i] < key THEN z ELSE y, key)
  /\ UNCHANGED <<brootKey, res, failed>>

InsertDescending ==
  LET y == ChildFor(key, cur) IN
  /\ op = "insert" /\ cur # 0 /\ ~isleaf(cur) /\ keynum(cur) < 2 * T - 1
  /\ keynum(y) < 2 * T - 1
  /\ DescendTo(y, key)
  /\ UNCHANGED <<node, brootKey, nextbid, res, failed>>
-----------------------------------------------------------------------------
(***************************************************************************)
(* Deletion.  deletion(k, x) is only called on a node with T keys or more, *)
(* or on the root: the next child is filled first if it has fewer.         *)
(***************************************************************************)

\* Mutant: a node with T - 1 keys may give one away.
CanGive_TooEarly(x) == keynum(x) >= T - 1

CanGive(x) == keynum(x) >= T

Deleting(x) == op = "remove" /\ cur = x /\ x # 0

\* The child at position i of x takes the last key of its left sibling
\* through x, and the sibling's last child.
BorrowFromPrev(nodes, x, i) ==
  LET c == nodes[x].kids[i]
      sib == nodes[x].kids[i - 1]
      kid == IF nodes[c].kids = <<>> THEN <<>> ELSE <<Last(nodes[sib].kids)>>
  IN  [nodes EXCEPT
         ![x].keys[i - 1] = Last(nodes[sib].keys),
         ![c] = [keys |-> <<nodes[x].keys[i - 1]>> \o @.keys, kids |-> kid \o @.kids],
         ![sib] = [keys |-> Front(@.keys), kids |-> IF kid = <<>> THEN <<>> ELSE Front(@.kids)]]

\* Mutant: the child's keys are shifted, as borrowFromPrev() does.
BorrowFromNext_AtFront(nodes, x, i) ==
  LET c == nodes[x].kids[i]
      sib == nodes[x].kids[i + 1]
      kid == IF nodes[c].kids = <<>> THEN <<>> ELSE <<Head(nodes[sib].kids)>>
  IN  [nodes EXCEPT
         ![x].keys[i] = Head(nodes[sib].keys),
         ![c] = [keys |-> <<nodes[x].keys[i]>> \o @.keys, kids |-> @.kids \o kid],
         ![sib] = [keys |-> Tail(@.keys), kids |-> IF kid = <<>> THEN <<>> ELSE Tail(@.kids)]]

\* The child at position i of x takes the first key of its right sibling
\* through x, and the sibling's first child.
BorrowFromNext(nodes, x, i) ==
  LET c == nodes[x].kids[i]
      sib == nodes[x].kids[i + 1]
      kid == IF nodes[c].kids = <<>> THEN <<>> ELSE <<Head(nodes[sib].kids)>>
  IN  [nodes EXCEPT
         ![x].keys[i] = Head(nodes[sib].keys),
         ![c] = [keys |-> Append(@.keys, nodes[x].keys[i]), kids |-> @.kids \o kid],
         ![sib] = [keys |-> Tail(@.keys), kids |-> IF kid = <<>> THEN <<>> ELSE Tail(@.kids)]]

\* Mutant: the separating key is not brought down.
MergeAt_DropsSeparator(nodes, x, i) ==
  LET c == nodes[x].kids[i]
      sib == nodes[x].kids[i + 1]
  IN  [nodes EXCEPT
         ![x] = [keys |-> RemoveAt(@.keys, i), kids |-> RemoveAt(@.kids, i + 1)],
         ![c] = [keys |-> @.keys \o nodes[sib].keys, kids |-> @.kids \o nodes[sib].kids],
         ![sib] = None]

\* Mutant: the sibling's bid is left as it was.
MergeAt_KeepsSibling(nodes, x, i) ==
  LET c == nodes[x].kids[i]
      sib == nodes[x].kids[i + 1]
  IN  [nodes EXCEPT
         ![x] = [keys |-> RemoveAt(@.keys, i), kids |-> RemoveAt(@.kids, i + 1)],
         ![c] = [keys |-> Append(@.keys, nodes[x].keys[i]) \o nodes[sib].keys,
                 kids |-> @.kids \o nodes[sib].kids]]

\* merge(): the child at position i takes the i-th key of x and all of its
\* right sibling, which gets bid 0.
MergeAt(nodes, x, i) ==
  LET c == nodes[x].kids[i]
      sib == nodes[x].kids[i + 1]
  IN  [nodes EXCEPT
         ![x] = [keys |-> RemoveAt(@.keys, i), kids |-> RemoveAt(@.kids, i + 1)],
         ![c] = [keys |-> Append(@.keys, nodes[x].keys[i]) \o nodes[sib].keys,
                 kids |-> @.kids \o nodes[sib].kids],
         ![sib] = None]

\* removeFromLeaf(), or a key that does not exist.  A leaf left empty (it is
\* the root) gets bid 0.
DeleteInLeaf ==
  /\ \E x \in Bids : Deleting(x) /\ isleaf(x)
  /\ \/ /\ HasKey(key, cur)
        /\ node' = [node EXCEPT ![cur] =
                      IF keynum(cur) = 1 THEN None
                      ELSE [@ EXCEPT !.keys = RemoveAt(node[cur].keys, findKey(key, cur) + 1)]]
     \/ ~HasKey(key, cur) /\ UNCHANGED node
  /\ DescendTo(0, key)
  /\ UNCHANGED <<brootKey, nextbid, res, failed>>

\* getPredecessor(), getSuccessor(): the last, the first key below node x.
IsEnd(x) == IF node[x] = None THEN TRUE ELSE isleaf(x)
lastKey[x \in Bids] == IF IsEnd(x) THEN Last(node[x].keys) ELSE lastKey[Last(node[x].kids)]
firstKey[x \in Bids] == IF IsEnd(x) THEN Head(node[x].keys) ELSE firstKey[Head(node[x].kids)]

\* removeFromNonLeaf(): the key is replaced by its predecessor or successor,
\* which is then deleted from the child it comes from, or goes down with it.
DeleteInNode ==
  LET i == findKey(key, cur) + 1
      ci == node[cur].kids[i]
      ci1 == node[cur].kids[i + 1]
  IN
  /\ \E x \in Bids : Deleting(x) /\ ~isleaf(x) /\ HasKey(key, x)
  /\ \/ /\ CanGive(ci)
        /\ node' = [node EXCEPT ![cur].keys[i] = lastKey[ci]]
        /\ DescendTo(ci, lastKey[ci])
     \/ /\ ~CanGive(ci) /\ CanGive(ci1)
        /\ node' = [node EXCEPT ![cur].keys[i] = firstKey[ci1]]
        /\ DescendTo(ci1, firstKey[ci1])
     \/ /\ ~CanGive(ci) /\ ~CanGive(ci1)
        /\ node' = MergeAt(node, cur, i)
        /\ DescendTo(ci, key)
  /\ UNCHANGED <<brootKey, nextbid, res, failed>>

\* deletion() of a key that is not in the inner node: fill() the next child
\* if it has less than T keys, and go down.
DeleteBelow ==
  LET i == findKey(key, cur) + 1
      n == keynum(cur)
      c == node[cur].kids[i]
      prevHas == i > 1 /\ CanGive(node[cur].kids[i - 1])
      nextHas == i <= n /\ CanGive(node[cur].kids[i + 1])
  IN
  /\ \E x \in Bids : Deleting(x) /\ ~isleaf(x) /\ ~HasKey(key, x)
  /\ \/ CanGive(c) /\ UNCHANGED node /\ DescendTo(c, key)
     \/ ~CanGive(c) /\ prevHas /\ node' = BorrowFromPrev(node, cur, i) /\ DescendTo(c, key)
     \/ ~CanGive(c) /\ ~prevHas /\ nextHas /\ node' = BorrowFromNext(node, cur, i) /\ DescendTo(c, key)
     \/ /\ ~CanGive(c) /\ ~prevHas /\ ~nextHas /\ i <= n
        /\ node' = MergeAt(node, cur, i) /\ DescendTo(c, key)
     \/ /\ ~CanGive(c) /\ ~prevHas /\ ~nextHas /\ i > n
        /\ node' = MergeAt(node, cur, i - 1) /\ DescendTo(node[cur].kids[i - 1], key)
  /\ UNCHANGED <<brootKey, nextbid, res, failed>>

\* removekw(): the bid of the root of an empty tree.
NoRoot == 0

\* removekw() after deletion() returned, or of an empty tree.  A root left
\* without keys gives way to its child.  With no child the tree is empty;
\* deletion() has set the root's bid to 0 by then, and WriteBTreeNode() of
\* bid 0 throws.
EndRemove ==
  /\ op = "remove" /\ cur = 0 /\ ~failed
  /\ \/ /\ brootKey # 0 => node[brootKey] # None /\ keynum(brootKey) > 0
        /\ Return
        /\ UNCHANGED <<node, brootKey, failed>>
     \/ /\ brootKey # 0 /\ node[brootKey] # None /\ keynum(brootKey) = 0
        /\ brootKey' = Head(node[brootKey].kids)
        /\ node' = [node EXCEPT ![brootKey] = None]
        /\ Return
        /\ UNCHANGED failed
     \/ /\ brootKey # 0 /\ node[brootKey] = None
        /\ brootKey' = NoRoot
        /\ failed' = TRUE
        /\ UNCHANGED <<node, opVars>>
  /\ UNCHANGED <<nextbid, res>>
-----------------------------------------------------------------------------
Step ==
  \/ Search \/ Throw
  \/ InsertFirst \/ SplitRoot \/ InsertIntoLeaf \/ InsertSplitting \/ InsertDescending
  \/ DeleteInLeaf \/ DeleteInNode \/ DeleteBelow \/ EndRemove

Next == Step \/ \E kind \in {"insert", "search", "remove"}, k \in Keys : Begin(kind, k)

Spec == Init /\ [][Next]_vars
-----------------------------------------------------------------------------
(***************************************************************************)
(* Correctness.                                                            *)
(***************************************************************************)
TypeOK ==
  /\ \A x \in Bids : node[x] # None =>
       node[x].keys \in Seq(Keys) /\ node[x].kids \in Seq(Bids)
  /\ brootKey \in Bids \cup {0} /\ nextbid \in Bids \cup {0}
  /\ op \in {"idle", "insert", "search", "remove"}
  /\ kw \in Keys /\ key \in Keys /\ cur \in Bids \cup {0}
  /\ res \in BOOLEAN /\ failed \in BOOLEAN

\* No key is in the tree twice and the keys below the i-th child of x are
\* between the keys around it, so that a search meets the key it looks for.
\* Only a predecessor or successor that was copied up is there twice, until the
\* removal under way deletes it from below: a copy left behind would answer
\* searches after the key's removal.
SearchTree ==
  LET Below(k, h) == k < h \/ (k = h /\ k = key /\ op = "remove")
  IN  \A x \in Reachable :
        /\ \A i \in 1 .. keynum(x) - 1 : node[x].keys[i] < node[x].keys[i + 1]
        /\ \A i \in DOMAIN node[x].kids : \A k \in keysUnder(node[x].kids[i]) :
             /\ i > 1 => Below(node[x].keys[i - 1], k)
             /\ i <= keynum(x) => Below(k, node[x].keys[i])

\* The leaves are at one depth, as the children of every node have one height,
\* and a node is full to between a half and the whole, the root excepted.
height[x \in Bids] == IF IsEnd(x) THEN 0 ELSE 1 + height[Head(node[x].kids)]
Balanced ==
  \A x \in Reachable :
    /\ \A c \in Kids(x) : height[x] = height[c] + 1
    /\ keynum(x) <= 2 * T - 1
    /\ x # brootKey => keynum(x) >= T - 1
    /\ isleaf(x) \/ Len(node[x].kids) = keynum(x) + 1

\* A call finds the node it needs: one with room for a key on the way to an
\* insertion, one with a key to spare on the way to a deletion.
CallHasRoom ==
  cur \notin {0, brootKey} =>
    /\ op = "insert" => keynum(cur) < 2 * T - 1
    /\ op = "remove" => keynum(cur) >= T

\* A node leaves the tree exactly when its bid becomes 0: no bucket is taken
\* by nodes nobody can reach, and no pointer leads to a deleted node.
NoNodeLeaks == {x \in Bids : node[x] # None} = Reachable

\* What the driver expects of a keyword all of whose entries were removed:
\* a search that finds nothing, and no exception.
RemoveAndSearchReturn == ~failed

Map == INSTANCE KeyMap WITH
  InitKeysets <- {UNION {Range(t.nodes[x].keys) : x \in DOMAIN t.nodes} : t \in InitTrees}
KeyMapSpec == Map!Spec

\* The B-tree uses its nodes as a tree in memory.
Tree == INSTANCE NodeTree WITH
  InitTrees <- {[x \in DOMAIN t.nodes |-> Range(t.nodes[x].kids)] : t \in InitTrees},
  Versions <- 1,
  root <- IF Reachable = {} THEN None ELSE brootKey,
  ver  <- [x \in Bids |-> IF node[x] = None THEN None ELSE 0],
  kids <- [x \in Bids |-> Kids(x)]
NodeTreeSpec == Tree!Spec
=============================================================================

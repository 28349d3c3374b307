------------------------------ MODULE NodeTree ------------------------------
(***************************************************************************)
(* What a B-tree needs of the store it keeps its nodes in: a plain tree of *)
(* nodes in memory.  A node is known by its bid; it has a version (ver,    *)
(* which changes whenever its keys or values are written) and a set of     *)
(* children.  Every operation takes effect at once and nothing else ever   *)
(* changes: no node is lost, duplicated or seen in an older version.       *)
(* BRAM implements this specification (see BRAM!NodeTreeSpec).             *)
(***************************************************************************)
EXTENDS Integers

CONSTANTS Bids,       \* the identifiers nextBid() hands out
          InitTrees,  \* trees setup may build: the children of every node, the root 1
          Versions,   \* versions told apart: they are counted modulo it
          None        \* "no such node"

VARIABLES root,       \* bid of the root, None of no tree
          ver,        \* ver[x]: version of node x, None if there is no x
          kids        \* kids[x]: children of x

treeVars == <<root, ver, kids>>

Present(x) == ver[x] # None

Init ==
  \E t \in InitTrees :
    /\ root = IF 1 \in DOMAIN t THEN 1 ELSE None
    /\ ver = [x \in Bids |-> IF x \in DOMAIN t THEN 0 ELSE None]
    /\ kids = [x \in Bids |-> IF x \in DOMAIN t THEN t[x] ELSE {}]

\* The first node, and the last.
Plant(x) ==
  /\ root = None /\ ~Present(x)
  /\ root' = x /\ ver' = [ver EXCEPT ![x] = 0]
  /\ UNCHANGED kids

Clear ==
  /\ root # None /\ kids[root] = {}
  /\ root' = None /\ ver' = [ver EXCEPT ![root] = None]
  /\ UNCHANGED kids

\* The contents of the nodes in S are written.
Touch(S) == [x \in Bids |-> IF x \in S THEN (ver[x] + 1) % Versions ELSE ver[x]]

Update(x) ==
  /\ Present(x)
  /\ ver' = Touch({x})
  /\ UNCHANGED <<root, kids>>

\* Node y hands its children in K to the new node z, a child of p.
Split(p, y, K, z) ==
  /\ y \in kids[p] /\ K \subseteq kids[y] /\ ~Present(z)
  /\ ver' = [Touch({p, y}) EXCEPT ![z] = 0]
  /\ kids' = [kids EXCEPT ![p] = @ \cup {z}, ![y] = @ \ K, ![z] = K]
  /\ UNCHANGED root

\* The full root is split under a new root s.
SplitRoot(K, z, s) ==
  /\ K \subseteq kids[root]
  /\ ~Present(z) /\ ~Present(s) /\ z # s
  /\ ver' = [Touch({root}) EXCEPT ![z] = 0, ![s] = 0]
  /\ kids' = [kids EXCEPT ![root] = @ \ K, ![z] = K, ![s] = {root, z}]
  /\ root' = s

\* Child c of a moves to a's sibling b, both children of p.
Borrow(p, a, b, C) ==
  /\ a \in kids[p] /\ b \in kids[p] /\ a # b /\ C \subseteq kids[a]
  /\ ver' = Touch({p, a, b})
  /\ kids' = [kids EXCEPT ![a] = @ \ C, ![b] = @ \cup C]
  /\ UNCHANGED root

\* Node a takes all the children of its sibling b, and b is gone.
Merge(p, a, b) ==
  /\ a \in kids[p] /\ b \in kids[p] /\ a # b
  /\ ver' = [Touch({p, a}) EXCEPT ![b] = None]
  /\ kids' = [kids EXCEPT ![p] = @ \ {b}, ![a] = @ \cup kids[b], ![b] = {}]
  /\ UNCHANGED root

\* A root left with one child gives way to it.
CollapseRoot ==
  root # None /\ \E c \in kids[root] :
    /\ kids[root] = {c}
    /\ ver' = [ver EXCEPT ![root] = None]
    /\ kids' = [kids EXCEPT ![root] = {}]
    /\ root' = c

Next ==
  \/ \E x \in Bids : Update(x) \/ Plant(x)
  \/ CollapseRoot \/ Clear
  \/ \E p \in Bids : \E a, b \in kids[p] :
       Merge(p, a, b) \/ \E C \in SUBSET kids[a] : Borrow(p, a, b, C)
  \/ \E z \in Bids : root # None /\ ~Present(z) /\
       \/ \E p \in Bids : \E y \in kids[p] : \E K \in SUBSET kids[y] : Split(p, y, K, z)
       \/ \E s \in Bids : \E K \in SUBSET kids[root] : SplitRoot(K, z, s)

Spec == Init /\ [][Next]_treeVars
=============================================================================

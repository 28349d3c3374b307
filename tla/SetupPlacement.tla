--------------------------- MODULE SetupPlacement ---------------------------
(***************************************************************************)
(* Where setup puts a node when no bucket is wanted twice.  endSetup()     *)
(* sorts the nodes by leaf (p); the order of the nodes of one leaf (rank)  *)
(* is up to std::sort.  Z of them go to the bucket of the leaf, the next Z *)
(* to the bucket above it, and so on.                                      *)
(***************************************************************************)
EXTENDS Integers, FiniteSets

CONSTANTS depth,           \* height of the bucket tree
          OnPath(_, _),    \* GetBTreeNodeOnPath: the bucket of a path at a level
          Z                \* nodes in a bucket

\* The orders of the nodes in S.
Orders(S) == {r \in [S -> 1 .. Cardinality(S)] : \A x, y \in S : r[x] = r[y] => x = y}

SetupLevel(p, rank, x) ==
  depth - Cardinality({y \in DOMAIN p : p[y] = p[x] /\ rank[y] < rank[x]}) \div Z

\* No group of nodes runs past the root, and no two groups meet in a bucket.
SetupFits(p, rank) ==
  /\ \A x \in DOMAIN p : SetupLevel(p, rank, x) >= 0
  /\ \A x, y \in DOMAIN p :
       OnPath(p[x], SetupLevel(p, rank, x)) = OnPath(p[y], SetupLevel(p, rank, y))
         => p[x] = p[y]
=============================================================================

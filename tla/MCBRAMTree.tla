----------------------------- MODULE MCBRAMTree -----------------------------
(***************************************************************************)
(* BRAM for TLC on a tree of three levels: one operation (MaxOps), which   *)
(* splits a node, borrows, merges or collapses the root in every way it    *)
(* can.  The nodes above the leaves of the B-tree start on leaf 0          *)
(* (mirroring the bucket tree gives the rest of the root's draws; the      *)
(* first finalize() redraws the others), and setup needs the leaf buckets  *)
(* only.                                                                   *)
(***************************************************************************)
EXTENDS BRAM, TLC

CONSTANT MaxOps

VARIABLE ops            \* operations begun

Geometry == INSTANCE PathTree
MCLeaves == Geometry!leafRange
MCBuckets == Geometry!bucketRange
MCOnPath(leaf, d) == Geometry!GetBTreeNodeOnPath(leaf, d)

TreeOf6 == 1 :> {2, 3} @@ 2 :> {4, 5} @@ 3 :> {6} @@ 4 :> {} @@ 5 :> {} @@ 6 :> {}

MCInit ==
  /\ ops = 0
  /\ Init
  /\ \A x \in DOMAIN TreeOf6 : TreeOf6[x] # {} => CurrentNode(x).pos = 0
  /\ \A x \in DOMAIN TreeOf6 : store[0][x] = None

MCNext ==
  \/ ops < MaxOps /\ ops' = ops + 1 /\ \E kind \in {"insert", "remove"} : Start(kind)
  \/ (Client \/ Finalize \/ FinalizeStep) /\ UNCHANGED ops

MCSpec == MCInit /\ [][MCNext]_<<ops, vars>>
=============================================================================

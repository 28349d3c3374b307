------------------------------ MODULE MCBRAM --------------------------------
(***************************************************************************)
(* Instances of BRAM for TLC: the bucket tree is the one of PathTree.      *)
(***************************************************************************)
EXTENDS BRAM, TLC

Geometry == INSTANCE PathTree
MCLeaves == Geometry!leafRange
MCBuckets == Geometry!bucketRange
MCOnPath(leaf, d) == Geometry!GetBTreeNodeOnPath(leaf, d)

\* The tree after setup.
TreeOf1 == 1 :> {}
=============================================================================

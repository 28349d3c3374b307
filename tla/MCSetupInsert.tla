--------------------------- MODULE MCSetupInsert ----------------------------
(***************************************************************************)
(* SetupInsert for TLC, on the bucket tree of PathTree.                    *)
(***************************************************************************)
EXTENDS SetupInsert

Geometry == INSTANCE PathTree
MCLeaves == Geometry!leafRange
MCBuckets == Geometry!bucketRange
MCOnPath(l, e) == Geometry!GetBTreeNodeOnPath(l, e)
=============================================================================

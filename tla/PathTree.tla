------------------------------ MODULE PathTree ------------------------------
(***************************************************************************)
(* Geometry of the bucket tree of a Path ORAM: a complete binary tree of   *)
(* height depth kept as a heap in an array (the root bucket is index 0,    *)
(* the leaf buckets are the last 2^depth indices).  Every ORAM class of    *)
(* the repository carries the same arithmetic; BRAM.cpp is the one modelled*)
(***************************************************************************)
EXTENDS Integers

CONSTANT depth              \* height of the bucket tree, BRAM::depth

\* The law of powers is written out for the proofs: the provers know only
\* that a power is a number.
PathTreeAssumption == depth \in Nat /\ \A n \in 0 .. depth : 2^(n + 1) = 2 * 2^n

\* 2^(depth+1) - 1 buckets, numbered from 0.
bucketCount == 2^(depth + 1) - 1
bucketRange == 0 .. bucketCount - 1

\* The values RandomPath() draws: the uniform distribution's upper bound
\* (2^(depth+1) - 1) / 2 is truncated to an int and is inclusive.
leafRange == 0 .. bucketCount \div 2

\* Mutant: the leaf buckets are counted back from the last one.
GetBTreeNodeOnPath_FromTheEnd(leaf, curDepth) ==
  LET climb[d \in curDepth .. depth] ==
        IF d = depth THEN bucketCount - 1 - leaf
                     ELSE (climb[d + 1] + 1) \div 2 - 1
  IN  climb[curDepth]

\* The bucket at level curDepth on the path from the root to a leaf: the
\* loop climbs from the leaf bucket, one parent (i + 1) / 2 - 1 per level.
GetBTreeNodeOnPath(leaf, curDepth) ==
  LET climb[d \in curDepth .. depth] ==
        IF d = depth THEN leaf + bucketCount \div 2
                     ELSE (climb[d + 1] + 1) \div 2 - 1
  IN  climb[curDepth]
=============================================================================

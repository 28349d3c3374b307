----------------------------- MODULE MCThreads ------------------------------
(***************************************************************************)
(* ParallelSearch for TLC: three blocks in three buckets of two ("wide",   *)
(* the module as it is, where a thread puts several blocks into the cache  *)
(* one by one) or of one ("narrow", where blocks stay in the cache between *)
(* operations), on the bucket tree of PathTree (GetFnodeOnPath is the same *)
(* function as GetBTreeNodeOnPath).  Every search runs in either way.  The *)
(* properties, which do not depend on Z, are those of ParallelSearch.      *)
(***************************************************************************)
EXTENDS ParallelSearch

VARIABLE instance

Geometry == INSTANCE PathTree
MCLeaves == Geometry!leafRange
MCBuckets == Geometry!bucketRange
MCOnPath(leaf, h) == Geometry!GetBTreeNodeOnPath(leaf, h)

Narrow == INSTANCE ParallelSearch WITH Z <- 1

ASSUME Narrow!ParallelAssumption

MCInit == instance \in {"narrow", "wide"} /\ Init

MCNext ==
  /\ \/ instance = "narrow" /\ Narrow!Next
     \/ instance = "wide" /\ Next
  /\ UNCHANGED instance

ThreadOf(t) == (IF instance = "narrow" THEN Narrow!Thread(t) ELSE Thread(t)) /\ UNCHANGED instance
CallerOf == (IF instance = "narrow" THEN Narrow!Caller ELSE Caller) /\ UNCHANGED instance

\* As ParallelSearch!FairSpec.
MCSpec ==
  /\ MCInit /\ [][MCNext]_<<instance, vars>>
  /\ (\A t \in Blocks : WF_<<instance, vars>>(ThreadOf(t))) /\ WF_<<instance, vars>>(CallerOf)

\* Threads only, in the wider buckets.
AsyncSpec ==
  /\ instance = "wide" /\ kind = "async" /\ Init
  /\ [][Next /\ kind' = "async" /\ UNCHANGED instance]_<<instance, vars>>
=============================================================================

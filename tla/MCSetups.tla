------------------------------ MODULE MCSetups ------------------------------
(***************************************************************************)
(* How the variants lay out the data they start with, for TLC: "groups" is *)
(* BRAM::setupInsert (SetupInsert), "counted" the setupInsert() of the     *)
(* other Path ORAMs (CountedSetup, which this module extends), "btree" the *)
(* making of a B-tree (BTreeSetup).  "paths" draws two leaves of a taller  *)
(* bucket tree and looks at their paths.                                   *)
(*                                                                         *)
(* Seven nodes, in every draw of their leaves, are one more than the three *)
(* buckets of a path hold.  They are named by the order std::sort leaves   *)
(* them in.                                                                *)
(***************************************************************************)
EXTENDS CountedSetup

CONSTANTS T, MaxInput,     \* of BTreeSetup
          GroupNodes,      \* the nodes of SetupInsert
          PathDepth        \* height of the bucket tree of "paths"

VARIABLES
  layout,
  p, todo, leaf, pc,                               \* SetupInsert (with store, d)
  inputSize, minHeight, sn, nextbid, calls,        \* BTreeSetup
  first, second, lvl                               \* two leaves and a level

groupVars == <<p, todo, leaf, pc>>
btreeVars == <<inputSize, minHeight, sn, nextbid, calls>>
pathVars  == <<first, second, lvl>>

Geometry == INSTANCE PathTree
MCLeaves == Geometry!leafRange
MCBuckets == Geometry!bucketRange
MCOnPath(l, e) == Geometry!GetBTreeNodeOnPath(l, e)

G == INSTANCE SetupInsert WITH Nodes <- GroupNodes
B == INSTANCE BTreeSetup
Tall == INSTANCE PathTree WITH depth <- PathDepth

ASSUME MCSetupsAssumption == Tall!PathTreeAssumption /\ G!SetupAssumption /\ B!SetupAssumption

NoGroups == p = <<>> /\ todo = {} /\ leaf = 0 /\ pc = "done"
NoStore == store = <<>> /\ d = 0
NoNodes == cache = <<>> /\ nodes = <<>> /\ pos = <<>> /\ i = 1 /\ curPos = 0 /\ cannotInsert = FALSE
NoTree == inputSize = 0 /\ minHeight = 0 /\ sn = <<>> /\ nextbid = 0 /\ calls = <<>>
NoPath == first = 0 /\ second = 0 /\ lvl = 0

Init ==
  \/ layout = "groups" /\ G!Init /\ NoNodes /\ NoTree /\ NoPath
  \/ layout = "counted" /\ SetupInit([Nodes -> Leaves], {[j \in Nodes |-> j]})
       /\ NoGroups /\ NoTree /\ NoPath
  \/ layout = "btree" /\ B!Init /\ NoGroups /\ NoStore /\ NoNodes /\ NoPath
  \/ layout = "paths" /\ first \in Tall!leafRange /\ second \in Tall!leafRange /\ lvl \in 0 .. PathDepth
       /\ NoGroups /\ NoStore /\ NoNodes /\ NoTree

Next ==
  /\ \/ layout = "groups" /\ G!Next /\ UNCHANGED <<cache, nodes, pos, i, curPos, cannotInsert, btreeVars>>
     \/ layout = "counted" /\ SetupStep /\ UNCHANGED <<groupVars, btreeVars>>
     \/ layout = "btree" /\ B!Step /\ UNCHANGED <<placed, setupVars, groupVars>>
  /\ UNCHANGED <<layout, pathVars>>

vars == <<layout, placed, setupVars, groupVars, btreeVars, pathVars>>
Spec == Init /\ [][Next]_vars /\ WF_vars(Next)
-----------------------------------------------------------------------------
\* Two paths share their buckets down to a level and none below: a bucket
\* belongs to one level only, and paths that have met stay together up to
\* the root (what lets finalize() write the deepest bucket a node may go to).
\* The bucket of a path at a level is the one whose heap index is that of
\* the leaf's prefix of that many bits.
PathsMeetOnce ==
  layout = "paths" =>
    /\ Tall!GetBTreeNodeOnPath(first, lvl) = 2^lvl - 1 + first \div 2^(PathDepth - lvl)
    /\ \A e \in 0 .. PathDepth :
         Tall!GetBTreeNodeOnPath(first, lvl) = Tall!GetBTreeNodeOnPath(second, e) =>
           /\ e = lvl
           /\ \A f \in 0 .. lvl : Tall!GetBTreeNodeOnPath(first, f) = Tall!GetBTreeNodeOnPath(second, f)

\* BRAM::setupInsert leaves the state module BRAM starts from when no two
\* groups meet, and loses a node only where they do (SetupInsert).
PlacementIsInit == layout = "groups" => G!PlacementIsInit
OnlyMeetingGroupsLose == layout = "groups" => G!OnlyMeetingGroupsLose

\* The B-tree made of any number of entries has the height setupInsert()
\* computes, and is a search tree (BTreeSetup, HeightIsReached, SearchTree).
TreeIsMade == layout = "btree" => B!HeightIsReached /\ B!SearchTree

\* Every setup ends: setupInsert() of CountedSetup with all nodes placed (a
\* pass that places none met a full bucket, and caches one), createBTreeNode()
\* with every entry in one node.
EverySetupEnds ==
  <>(CASE layout = "counted" -> setupDone
       [] layout = "btree" -> calls = <<>> /\ B!EveryEntryStored
       [] OTHER -> pc \in {"done", "past_root"})
=============================================================================

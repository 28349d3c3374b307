----------------------------- MODULE MCAVLTree ------------------------------
(***************************************************************************)
(* The AVL variants for TLC: the tree (AVLTree) and, as instance "oram",   *)
(* the Path ORAM under it (AvlORAM, which this module extends, and whose   *)
(* variables the other instances leave alone).                             *)
(* "draws": few keys, after a setup, with every draw of leaves.  "values": *)
(* two values and batches.  "large": insertions, removals and searches of  *)
(* more keys in every order.  "thin": removals from the thinnest AVL trees *)
(* of twelve keys, where one removal can unbalance every level above it.   *)
(* "files": the tree of files of orion and orionsq, whose rightRotate()    *)
(* reads from the server (run avl_server).                                 *)
(* Where the leaves do not matter the draws give all nodes one leaf.       *)
(***************************************************************************)
EXTENDS AvlORAM, Sequences

CONSTANTS DrawnKeys, ValuedKeys, LargeKeys, MinKeys

VARIABLES instance, nodes, rootKey, rootPos, last, lost

Geometry == INSTANCE PathTree
MCLeaves == Geometry!leafRange
MCBuckets == Geometry!bucketRange
MCOnPath(l, e) == Geometry!GetBTreeNodeOnPath(l, e)

\* The paths an operation is padded to, less than 1.45 and 4.45 times depth.
MCPad == [find |-> 1, update |-> 2, batch |-> 0]

TwoLeaves == {0, 1}
AllDraws(S) == [S -> TwoLeaves]
EqualDraws(S) == {[k \in S |-> l] : l \in TwoLeaves}
OneDraw(S) == {[k \in S |-> 0]}

ThinKeys == 1 .. 12
Setup3 == [k \in 1 .. 3 |-> "v"]
NoKeys == [k \in {} |-> "v"]

Drawn == INSTANCE AVLTree WITH
  Keys <- DrawnKeys, Values <- {"v"}, Leaves <- TwoLeaves, InitDict <- Setup3,
  BatchSize <- 0, HeightBound <- 9, T2From <- "cache", Draws <- AllDraws
Valued == INSTANCE AVLTree WITH
  Keys <- ValuedKeys, Values <- {"v", "w"}, Leaves <- {0}, InitDict <- NoKeys,
  BatchSize <- 3, HeightBound <- 9, T2From <- "cache", Draws <- OneDraw
Large == INSTANCE AVLTree WITH
  Keys <- LargeKeys, Values <- {"v"}, Leaves <- {0}, InitDict <- NoKeys,
  BatchSize <- 0, HeightBound <- 9, T2From <- "cache", Draws <- OneDraw
Thin == INSTANCE AVLTree WITH
  Keys <- ThinKeys, Values <- {"v"}, Leaves <- TwoLeaves, InitDict <- NoKeys,
  BatchSize <- 0, HeightBound <- 9, T2From <- "cache", Draws <- EqualDraws
Files == INSTANCE AVLTree WITH
  Keys <- 1 .. 6, Values <- {"v"}, Leaves <- {0}, InitDict <- NoKeys,
  BatchSize <- 0, HeightBound <- 9, T2From <- "server", Draws <- OneDraw

ASSUME Drawn!AVLAssumption /\ Valued!AVLAssumption
ASSUME Large!AVLAssumption /\ Thin!AVLAssumption /\ Files!AVLAssumption

\* The tree after the keys of s are inserted in that order, with every node
\* on leaf 0.
RECURSIVE Inserted(_)
Inserted(s) ==
  IF s = <<>> THEN [m |-> [n |-> NoKeys, modified |-> {}, lost |-> FALSE], key |-> 0, pos |-> -1]
  ELSE LET r == Inserted(SubSeq(s, 1, Len(s) - 1))
       IN  Thin!insert(r.m, r.key, r.pos, s[Len(s)], "v", 0)

\* The thinnest AVL tree of 12 keys, five levels high, and its mirror image.
ThinOrder == <<8, 5, 11, 3, 7, 10, 12, 2, 4, 6, 9, 1>>
ThinInit ==
  /\ \E s \in {ThinOrder, [i \in 1 .. 12 |-> 13 - ThinOrder[i]]} :
       LET t == Inserted(s) IN nodes = t.m.n /\ rootKey = t.key
  /\ rootPos = 0 /\ last = [keys |-> {}, entries |-> NoKeys] /\ lost = FALSE

TreeInit ==
  \/ instance = "draws" /\ Drawn!Init
  \/ instance = "values" /\ Valued!Init
  \/ instance = "large" /\ Large!Init
  \/ instance = "thin" /\ ThinInit
treeVars == <<nodes, rootKey, rootPos, last, lost>>
NoTree ==
  /\ nodes = NoKeys /\ rootKey = 0 /\ rootPos = -1 /\ last = [keys |-> {}, entries |-> NoKeys]
  /\ lost = FALSE

TreeNext ==
  \/ instance = "draws" /\ Drawn!Next
  \/ instance = "values" /\ Valued!Next
  \/ instance = "large" /\ Large!Next
  \* bound: MinKeys keys are left in the tree
  \/ instance = "thin" /\ Cardinality(DOMAIN nodes) > MinKeys /\ \E k \in ThinKeys : Thin!Remove(k)

MCInit == Init /\ (TreeInit \/ (instance = "oram" /\ NoTree))
MCNext ==
  /\ \/ TreeNext /\ UNCHANGED vars
     \/ instance = "oram" /\ Next /\ UNCHANGED treeVars
  /\ UNCHANGED instance
MCSpec == MCInit /\ [][MCNext]_<<instance, vars, treeVars>>

ServerSpec ==
  /\ instance = "files" /\ Files!Init /\ Init
  /\ [][Files!Next /\ UNCHANGED <<instance, vars>>]_<<instance, vars, treeVars>>
-----------------------------------------------------------------------------
(***************************************************************************)
(* The properties of AVLTree, in every instance.                           *)
(***************************************************************************)
\* A search that compares keys meets every node (AVLTree, SearchTree).
SearchTree == Large!SearchTree

\* Heights are right, and differ by one at most (AVLTree, Balanced, TypeOK).
Balanced ==
  /\ Large!Balanced
  /\ CASE instance = "draws" -> Drawn!TypeOK
       [] instance = "values" -> Valued!TypeOK
       [] instance = "large" -> Large!TypeOK
       [] instance = "thin" -> Thin!TypeOK
       [] OTHER -> TRUE

\* The leaf next to a child's key is the one the child is on (PositionMap),
\* and no operation ever looks for a node elsewhere (NothingLost).
PositionMap == Large!PositionMap /\ Large!NothingLost

\* Every operation is one of a dictionary.  (The thin trees start with all
\* their keys.)
DictInit == instance \in {"thin", "oram"} \/ Drawn!Dict!Init \/ Large!Dict!Init
DictNext == CASE instance = "draws" -> Drawn!Dict!Next
              [] instance = "values" -> Valued!Dict!Next
              [] instance = "large" -> Large!Dict!Next
              [] instance = "thin" -> \E k \in ThinKeys : Thin!Dict!Remove(k)
              [] OTHER -> FALSE
DictionarySpec == DictInit /\ [][DictNext]_(Large!Dict!dictVars)

\* No operation looks for a node where it is not.
NothingLost == Files!NothingLost
=============================================================================

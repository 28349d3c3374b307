----------------------------- MODULE BTreeSetup -----------------------------
(***************************************************************************)
(* How class BTree builds the tree of the entries collected at setup:      *)
(* setupInsert() pads the input to what a full tree of the least height    *)
(* holds, createBTreeNode() splits it among a node and D children,         *)
(* createGroups() says where.  The recursion of createBTreeNode is a stack *)
(* of the calls to make, the next one first.                               *)
(*                                                                         *)
(* Keys are numbered in their order, which goes on with the padding keys:  *)
(* operator++ of the last key gives a greater one.                         *)
(***************************************************************************)
EXTENDS Integers, FiniteSets, SequencesExt

CONSTANTS
  T,              \* Types.hpp: a node has at most 2T - 1 keys
  MaxInput        \* bound on the number of entries

D == 2 * T

\* The laws of powers are written out for the proofs, as in PathTree.
SetupAssumption ==
  /\ T \in Nat /\ T > 1 /\ MaxInput \in 1 .. 1000
  /\ D^0 = 1 /\ \A h \in 0 .. 8 : D^(h + 1) = D * D^h

VARIABLES
  inputSize,      \* entries collected
  minHeight,      \* height of the tree (levels below the root)
  sn,             \* the nodes made: bid, keys, children
  nextbid,        \* last bid handed out
  calls           \* calls of createBTreeNode to make: bid, input, minHeight

vars == <<inputSize, minHeight, sn, nextbid, calls>>

\* e ^ c, rounded down, for c = 0, 1, ..
ExpFloor == <<1, 2, 7, 20, 54, 148, 403, 1096>>
\* ceil(log(m)) and floor(c / log(D)): log(m) is natural, and no power of e
\* is a whole number.
CeilLog(m) == CHOOSE c \in 0 .. 7 : m <= ExpFloor[c + 1] /\ \A b \in 0 .. c - 1 : m > ExpFloor[b + 1]
Quotient(c) == CHOOSE h \in 0 .. c : D^h <= ExpFloor[c + 1] /\ D^(h + 1) > ExpFloor[c + 1]

\* Sum of pow(D, i) * (D - 1).
getMaxNodes(h) == D^(h + 1) - 1

\* The conversion to int rounds towards 0; the height is tried, then raised
\* once.
Height(n) ==
  LET h == Max({0, Quotient(CeilLog(n + 1)) - 1})
  IN  IF getMaxNodes(h) < n THEN h + 1 ELSE h

\* The input with the padding keys, if any are needed.
Padded(n, h) == [i \in 1 .. Max({n, getMaxNodes(h)}) |-> i]

Init ==
  /\ inputSize \in 1 .. MaxInput
  /\ minHeight = Height(inputSize)
  /\ sn = <<>> /\ nextbid = 1
  /\ calls = <<[bid |-> 1, input |-> Padded(inputSize, minHeight), height |-> minHeight]>>
-----------------------------------------------------------------------------
\* How many keys createGroups() takes for a group.
GroupSize(n) ==
  LET gb == (n + D - 1) \div D
      gl == n \div D
  IN  IF n < D THEN n ELSE IF gb * D - n = gb THEN gl ELSE gb

\* D groups of that many keys while they last, or one.
createGroups(s) ==
  LET g == GroupSize(Len(s)) IN
  [v \in 1 .. (IF Len(s) < D THEN 1 ELSE D) |->
     SubSeq(s, (v - 1) * g + 1, Min({v * g, Len(s)}))]

\* Mutant: the key that goes up stays in its group as well.
WithoutLast_Keeps(s) == s
WithoutLast(s) == Front(s)

MakeNode(bid, keys, kids) == sn' = Append(sn, [bid |-> bid, keys |-> keys, kids |-> kids])

MakeLeaf ==
  /\ calls # <<>>
  /\ LET call == Head(calls) IN
     /\ Len(createGroups(call.input)) = 1
     /\ MakeNode(call.bid, createGroups(call.input)[1], <<>>)
     /\ calls' = Tail(calls)
  /\ UNCHANGED <<inputSize, minHeight, nextbid>>

\* The last key of every group but the last goes into the node.
MakeInner ==
  /\ calls # <<>>
  /\ LET call == Head(calls)
         groups == createGroups(call.input)
         Input(i) == IF i = D THEN groups[D] ELSE WithoutLast(groups[i])
     IN  /\ Len(groups) > 1
         /\ MakeNode(call.bid, [i \in 1 .. D - 1 |-> Last(groups[i])],
                     [i \in 1 .. D |-> nextbid + i])
         /\ calls' = [i \in 1 .. D |-> [bid |-> nextbid + i, input |-> Input(i),
                                        height |-> call.height - 1]] \o Tail(calls)
  /\ nextbid' = nextbid + D
  /\ UNCHANGED <<inputSize, minHeight>>

Step == MakeLeaf \/ MakeInner
Spec == Init /\ [][Step]_vars /\ WF_vars(Step)
-----------------------------------------------------------------------------
(***************************************************************************)
(* Correctness.                                                            *)
(***************************************************************************)
\* minHeight, by which reads find the height of a node and finalize() the
\* order to remap nodes in, is the height the recursion reaches: the leaves
\* are made by the calls for height 0, each with a number of keys the two
\* assertions of createBTreeNode (lines 665, 666) allow.  And no smaller
\* height would have held the input, so that no level is padding only
\* (setupInsert, createBTreeNode).
HeightIsReached ==
  /\ calls # <<>> =>
       LET groups == createGroups(Head(calls).input) IN
       /\ Len(groups) = 1 <=> Head(calls).height = 0
       /\ Len(groups) = 1 => Len(groups[1]) \in T - 1 .. D - 1
  /\ minHeight > 0 => getMaxNodes(minHeight - 1) < inputSize

NodeOf(bid) == LET i == CHOOSE j \in DOMAIN sn : sn[j].bid = bid IN sn[i]
keysUnder[bid \in 1 .. nextbid] ==
  Range(NodeOf(bid).keys) \cup UNION {keysUnder[c] : c \in Range(NodeOf(bid).kids)}

\* A search for a key goes down to the node that has it: the keys of a node
\* separate those of its children.
SearchTree ==
  calls = <<>> =>
    \A n \in Range(sn) : \A i \in DOMAIN n.keys :
      n.kids # <<>> =>
        /\ \A k \in keysUnder[n.kids[i]] : k < n.keys[i]
        /\ \A k \in keysUnder[n.kids[i + 1]] : k > n.keys[i]

\* Setup ends with every entry in one node, and one call for every node.
EveryEntryStored ==
  /\ {n.bid : n \in Range(sn)} = 1 .. nextbid /\ Len(sn) = nextbid
  /\ 1 .. inputSize \subseteq UNION {Range(n.keys) : n \in Range(sn)}
  /\ \A i, j \in DOMAIN sn : i # j => Range(sn[i].keys) \cap Range(sn[j].keys) = {}
SetupEnds == <>(calls = <<>> /\ EveryEntryStored)
=============================================================================

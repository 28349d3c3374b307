------------------------------ MODULE MCBTree -------------------------------
(***************************************************************************)
(* BTree for TLC, from no tree and from one setup makes.                   *)
(***************************************************************************)
EXTENDS BTree

VARIABLE used           \* the keys the caller works on

Leaf(keys) == [keys |-> keys, kids |-> <<>>]

\* setupInsert() was not called.
NoTree == [nodes |-> <<>>,
           label |-> [h |-> <<>>, lo |-> <<>>, hi |-> <<>>, parent |-> <<>>, place |-> <<>>]]

\* The tree setupInsert() makes of 15 keys for T = 2: every node is full and
\* the children of the root have the bids after its own.  The caller works
\* on two of the root's keys, one of a leaf's, and two new ones.
FullTree ==
  [nodes |-> <<[keys |-> <<8, 16, 24>>, kids |-> <<2, 3, 4, 5>>],
               Leaf(<<2, 4, 6>>), Leaf(<<10, 12, 14>>),
               Leaf(<<18, 20, 22>>), Leaf(<<26, 28, 30>>)>>,
   label |-> [h |-> <<1, 0, 0, 0, 0>>,
              lo |-> <<0, 0, 8, 16, 24>>, hi |-> <<31, 8, 16, 24, 31>>,
              parent |-> <<0, 1, 1, 1, 1>>, place |-> <<0, 1, 2, 3, 4>>]]

\* The tree made of three keys: a full node needs no padding keys.
OneNode ==
  [nodes |-> <<Leaf(<<8, 16, 24>>)>>,
   label |-> [h |-> <<0>>, lo |-> <<0>>, hi |-> <<31>>, parent |-> <<0>>, place |-> <<0>>]]

MCTrees == {NoTree, FullTree}
OneTree == {OneNode}

\* An insertion creates at most two nodes more than there are inner levels;
\* with less than 4 bids left none is begun (the trees have 3 levels).
HasBids == nextbid + 4 <= IF Cardinality(used) = 7 THEN 8 ELSE MaxBid

MCInit ==
  /\ Init
  /\ used = IF nextbid = 0 THEN 1 .. 7 ELSE {1, 8, 13, 16, 26}
  /\ kw = 1
MCNext ==
  /\ Step \/ \E kind \in {"insert", "search", "remove"}, k \in used :
               (kind = "insert" => HasBids) /\ Begin(kind, k)
  /\ UNCHANGED used
MCSpec == MCInit /\ [][MCNext]_<<used, vars>>

OneSpec == Init /\ used = {8, 16, 24} /\ [][MCNext]_<<used, vars>>
=============================================================================

----------------------------- MODULE SetupInsert ----------------------------
(***************************************************************************)
(* BRAM::setupInsert: the nodes, sorted by leaf, are written to the empty  *)
(* bucket tree.  Each group of nodes with the same leaf fills the leaf's   *)
(* bucket and then the buckets above it; every bucket is filled from slot  *)
(* 0, whatever an earlier group left there.                                *)
(***************************************************************************)
EXTENDS SetupPlacement

CONSTANTS Nodes,      \* the nodes of the B-tree, numbered as std::sort leaves them
          Leaves, Buckets,
          None        \* an empty slot

\* A tree has a root; a bucket is at one level (PathsMeetOnce of run setups).
SetupAssumption ==
  /\ depth \in Nat /\ Z \in Nat \ {0} /\ Leaves \subseteq Nat
  /\ Nodes \subseteq Nat /\ IsFiniteSet(Nodes) /\ Nodes # {} /\ None \notin Nodes
  /\ \A l \in Leaves, e \in 0 .. depth : OnPath(l, e) \in Buckets
  /\ \A l, m \in Leaves, e, f \in 0 .. depth : OnPath(l, e) = OnPath(m, f) => e = f

VARIABLES p,          \* leaf of every node
          store,      \* store[b][z]: the node in slot z of bucket b
          todo,       \* nodes from the iterator el to the end
          leaf, d,    \* leaf of the group and level of the bucket being filled
          pc          \* "leaf" (label LEAF), "fill" (the loop), "done", or
                      \* "past_root": the loop went on below level 0
vars == <<p, store, todo, leaf, d, pc>>

Init ==
  /\ p \in [Nodes -> Leaves] /\ \A x, y \in Nodes : x < y => p[x] <= p[y]
  /\ store = [b \in Buckets |-> [z \in 0 .. Z - 1 |-> None]]
  /\ todo = Nodes
  /\ leaf = 0 /\ d = depth /\ pc = "leaf"

NextLeaf ==
  /\ pc = "leaf"
  /\ leaf' = CHOOSE l \in {p[x] : x \in todo} : \A x \in todo : l <= p[x]
  /\ d' = depth /\ pc' = "fill"
  /\ UNCHANGED <<p, store, todo>>

\* Nodes of the group still to be written, and how many of them precede x.
Group == {x \in todo : p[x] = leaf}
Before(x) == Cardinality({y \in Group : y < x})

\* Mutant: a bucket takes one node less than it can.
Batch_OneLess == {x \in Group : Before(x) < Z - 1}
\* Mutant: the loop over a group does not stop at the last slot.
Batch_WholeGroup == Group

Batch == {x \in Group : Before(x) < Z}

\* The slots of the bucket after the batch is written over them.
Filled(slots) ==
  [z \in 0 .. Z - 1 |->
     IF \E x \in Batch : Before(x) = z THEN CHOOSE x \in Batch : Before(x) = z
                                       ELSE slots[z]]

FillBucket ==
  /\ pc = "fill"
  /\ store' = [store EXCEPT ![OnPath(leaf, d)] = Filled(@)]
  /\ todo' = todo \ Batch
  /\ \/ todo' = {} /\ pc' = "done" /\ UNCHANGED d
     \/ todo' # {} /\ Group \subseteq Batch /\ pc' = "leaf" /\ UNCHANGED d
     \/ ~(Group \subseteq Batch) /\ d > 0 /\ pc' = "fill" /\ d' = d - 1
     \* size_t d is 0 and d-- wraps: the index computed next is -1
     \/ ~(Group \subseteq Batch) /\ d = 0 /\ pc' = "past_root" /\ UNCHANGED d
  /\ UNCHANGED <<p, leaf>>

Next == NextLeaf \/ FillBucket
Spec == Init /\ [][Next]_vars
-----------------------------------------------------------------------------
order == [x \in Nodes |-> x]
StoredIn(x) == {b \in Buckets : \E z \in 0 .. Z - 1 : store[b][z] = x}

\* When no two groups meet and none runs past the root, setup leaves each
\* node in the bucket SetupLevel names and nowhere else: the state module
\* BRAM starts from.
PlacementIsInit ==
  SetupFits(p, order) =>
    /\ pc # "past_root"
    /\ pc = "done" =>
         \A x \in Nodes : StoredIn(x) = {OnPath(p[x], SetupLevel(p, order, x))}

\* Until a later group meets it, a node written stays: every node that
\* setup has dealt with, whose group alone reaches the bucket, is on its path.
OnlyMeetingGroupsLose ==
  \A x \in Nodes \ todo :
    StoredIn(x) = {} =>
      \E y \in Nodes \ todo :
        p[y] > p[x] /\ OnPath(p[y], SetupLevel(p, order, y)) = OnPath(p[x], SetupLevel(p, order, x))

\* The driver searches every keyword right after setup and compares the
\* results (test_btree.cpp): it needs every node to be somewhere.
EveryNodeIsStored == pc = "done" => \A x \in Nodes : StoredIn(x) # {}
=============================================================================

---------------------------- MODULE CountedSetup ----------------------------
(***************************************************************************)
(* setupInsert() of the Path ORAMs that count what each bucket holds (ORAM *)
(* of the AVL variants, IndexORAM and FileORAM of zorionsq and of          *)
(* parallelORAM).  The nodes are sorted by leaf; those of a leaf fill the  *)
(* buckets of its path from the leaf up, with what earlier leaves left of  *)
(* them, and a pass that met a full bucket puts the next node, whatever    *)
(* its leaf, into the client's cache.                                      *)
(***************************************************************************)
EXTENDS Integers, Sequences, FiniteSets

CONSTANTS
  depth,          \* height of the bucket tree
  Leaves, Buckets,\* its leaves, the indices of its buckets
  OnPath(_, _),   \* OnPath(l, e): the bucket at level e of the path to l
  Nodes, Z,       \* Z: nodes in a bucket
  None            \* no copy of a node

\* A bucket is at one level (PathsMeetOnce of run setups).
ASSUME CountedSetupAssumption ==
  /\ depth \in Nat /\ Leaves \subseteq Nat /\ None \notin Leaves
  /\ IsFiniteSet(Nodes) /\ Z \in Nat \ {0}
  /\ \A l \in Leaves, e \in 0 .. depth : OnPath(l, e) \in Buckets
  /\ \A l, m \in Leaves, e, f \in 0 .. depth : OnPath(l, e) = OnPath(m, f) => e = f

VARIABLES
  store,          \* server: store[b][x] is the leaf (pos) in bucket b's copy of x
  cache,          \* cache[x]: the leaf in the client's copy of x
  nodes,          \* the nodes as std::sort leaves them
  pos,            \* the leaf each was given
  i,              \* first node still to be placed
  d, curPos,      \* level and leaf of the inner loop
  cannotInsert    \* it met a full bucket

placed == <<store, cache>>
setupVars == <<nodes, pos, i, d, curPos, cannotInsert>>

\* The orders the nodes may come in; those of one leaf come in the order
\* std::sort happens to leave them in.
Orders == {s \in [1 .. Cardinality(Nodes) -> Nodes] : \A j, k \in DOMAIN s : s[j] = s[k] => j = k}
Sorted(s, p) == \A j, k \in DOMAIN s : j < k => p[s[j]] <= p[s[k]]

SetupInit(positions, orders) ==
  /\ store = [b \in Buckets |-> [x \in Nodes |-> None]]
  /\ cache = [x \in Nodes |-> None]
  /\ pos \in positions
  /\ nodes \in orders /\ Sorted(nodes, pos)
  /\ i = 1 /\ d = depth /\ cannotInsert = FALSE
  /\ curPos = IF Nodes = {} THEN 0 ELSE pos[nodes[1]]

setupDone == i > Len(nodes)
InLoop == d >= 0 /\ ~setupDone /\ pos[nodes[i]] = curPos

Held(b) == {x \in Nodes : store[b][x] # None}

\* Z less bucketsCnt of the bucket.
Room(b) == Z - Cardinality(Held(b))

\* Mutant: a bucket that is full goes unnoticed.
Full_Unnoticed(b) == FALSE

Full(b) == Room(b) = 0

\* How many nodes the bucket takes: those of the leaf, while there is room.
Taken(b) ==
  Cardinality({j \in i .. Len(nodes) : j < i + Room(b) /\ pos[nodes[j]] = curPos})

FillBucket ==
  LET b == OnPath(curPos, d) IN
  /\ InLoop
  /\ store' = [store EXCEPT ![b] = [x \in Nodes |->
       IF \E j \in i .. i + Taken(b) - 1 : nodes[j] = x THEN pos[x] ELSE @[x]]]
  /\ i' = i + Taken(b) /\ d' = d - 1
  /\ cannotInsert' = (cannotInsert \/ Full(b))
  /\ UNCHANGED <<cache, nodes, pos, curPos>>

\* Mutant: the node passed over is not put into the cache.
ToCache_Skipped == cache

ToCache == IF cannotInsert THEN [cache EXCEPT ![nodes[i]] = pos[nodes[i]]] ELSE cache

\* The end of the loop over the levels, and its next start.
NextPass ==
  /\ ~InLoop /\ ~setupDone
  /\ cache' = ToCache
  /\ i' = IF cannotInsert THEN i + 1 ELSE i
  /\ cannotInsert' = FALSE /\ d' = depth
  /\ curPos' = IF i' > Len(nodes) THEN curPos ELSE pos[nodes[i']]
  /\ UNCHANGED <<store, nodes, pos>>

SetupStep == FillBucket \/ NextPass

\* Setup of any nodes, with any leaves drawn for them.
SetupSpec == SetupInit([Nodes -> Leaves], Orders) /\ [][SetupStep]_<<placed, setupVars>>
-----------------------------------------------------------------------------
(***************************************************************************)
(* Correctness.                                                            *)
(***************************************************************************)
Path(leaf) == {OnPath(leaf, e) : e \in 0 .. depth}
CopiesOf(x) == {b \in Buckets : store[b][x] # None}

\* Every node dealt with is in one place, a bucket of its own path or the
\* cache, with its own leaf, and the others are nowhere yet (setupInsert:
\* the index i, the node taken by the cache may be of another leaf).
PlacedOnce ==
  \A j \in DOMAIN nodes : LET x == nodes[j] IN
    IF j >= i THEN CopiesOf(x) = {} /\ cache[x] = None
    ELSE \/ cache[x] = pos[x] /\ CopiesOf(x) = {}
         \/ /\ cache[x] = None
            /\ \E b \in Path(pos[x]) : CopiesOf(x) = {b} /\ store[b][x] = pos[x]

\* No bucket has more nodes than slots, although the leaves whose paths meet
\* in it share it (bucketsCnt), and the tree fills from its leaves up: a node
\* is in a bucket only when every bucket below it on its path is full
\* (setupInsert: the order of the levels).
FilledFromTheLeaves ==
  \A j \in DOMAIN nodes, e \in 0 .. depth : LET x == nodes[j] IN
    store[OnPath(pos[x], e)][x] # None =>
      /\ Cardinality(Held(OnPath(pos[x], e))) <= Z
      /\ \A f \in e + 1 .. depth : Room(OnPath(pos[x], f)) = 0

\* Setup leaves every node where a search will look for it.
NodesPlacedOnce == PlacedOnce /\ FilledFromTheLeaves
=============================================================================

------------------------------- MODULE AvlORAM -------------------------------
(***************************************************************************)
(* The Path ORAM under the AVL tree (class ORAM of the AVL variants): how  *)
(* the paths of an operation are fetched into the cache and written back,  *)
(* with nodes inserted and deleted on the way.  The tree (module AVLTree)  *)
(* is the caller here: it knows of every node of its own the leaf it is on *)
(* (leaf), which finilize() renews, and reads, changes, inserts and        *)
(* deletes nodes in any order between start() and finilize().              *)
(***************************************************************************)
EXTENDS Integers, FiniteSets

CONSTANTS
  Bids, Z,
  Leaves, Buckets,\* leaves of the bucket tree, indices of its buckets
  depth,          \* levels of it below the root bucket
  OnPath(_, _),   \* OnPath(l, d): the bucket at level d of the path to l
  Versions,       \* contents of a node told apart
  Pad,            \* Pad[kind]: paths an operation of a kind fetches at least
  NewPathFetched, \* Access() fetches the path of a new node also in a batch
                  \* (orion, orionsq: yes; morion, borion, foram, mitra: no)
  MaxNodes,       \* RAMStore's emptyNodes to begin with
  None

VARIABLES
  store,          \* server: store[b][x] is the copy of node x in bucket b
  cache,          \* cache[x]: the client's copy of x
  leafList, modified,
  readviewmap, writeviewmap, readCnt,
  emptyNodes,     \* blocks WriteData() thinks are free
  phase, level,   \* "idle", the kind of an operation, "pad", "write"
  leaf, want,     \* of the caller's nodes: the leaf it records, the content
  failed          \* "null": a node read was not there; "full": no space

vars == <<store, cache, leafList, modified, readviewmap, writeviewmap, readCnt,
          emptyNodes, phase, level, leaf, want, failed>>

Kinds == {"find", "update", "batch"}
Dead == 0          \* the content of the node newNode(0, "") put in its place
Node == [pos : Leaves, ver : Versions \cup {Dead}]

ASSUME AvlORAMAssumption ==
  /\ depth \in Nat /\ \A l \in Leaves, d \in 0 .. depth : OnPath(l, d) \in Buckets
  /\ IsFiniteSet(Bids) /\ Z \in Nat \ {0} /\ MaxNodes \in Nat /\ NewPathFetched \in BOOLEAN
  /\ Pad \in [Kinds -> Nat] /\ Pad["batch"] = 0
  /\ Versions \subseteq Nat \ {Dead} /\ Versions # {}
  /\ None \notin Node \cup Versions \cup Leaves

Cached(x) == cache[x] # None
Path(l) == {OnPath(l, d) : d \in 0 .. depth}

Init ==
  /\ store = [b \in Buckets |-> [x \in Bids |-> None]]
  /\ cache = [x \in Bids |-> None]
  /\ leafList = {} /\ modified = {}
  /\ readviewmap = {} /\ writeviewmap = {} /\ readCnt = 0 /\ emptyNodes = MaxNodes
  /\ phase = "idle" /\ level = depth
  /\ leaf = [x \in Bids |-> None] /\ want = [x \in Bids |-> None] /\ failed = "no"
-----------------------------------------------------------------------------
Start(kind) ==
  /\ phase = "idle" /\ failed = "no"
  /\ phase' = kind
  /\ readviewmap' = {} /\ writeviewmap' = {} /\ readCnt' = 0
  /\ UNCHANGED <<store, cache, leafList, modified, emptyNodes, level, leaf, want, failed>>

Working == phase \in Kinds /\ failed = "no"

Fetched(l, x) == {b \in Path(l) \ readviewmap : store[b][x] # None}

\* The cache after FetchPath(l): what is cached already is kept.
FetchPath(l) ==
  [x \in Bids |-> IF Cached(x) \/ Fetched(l, x) = {} THEN cache[x]
                  ELSE store[CHOOSE b \in Fetched(l, x) : TRUE][x]]

\* ReadNode(bid, leaf, leaf) fetches the path of a cached node too, unless
\* it is scheduled already; a node read once is held.  A freed node is not
\* taken for the one wanted.
ReadNode(x) ==
  LET c == IF Cached(x) /\ leaf[x] \in leafList THEN cache ELSE FetchPath(leaf[x]) IN
  /\ Working /\ leaf[x] # None /\ x \notin modified
  /\ IF Cached(x) /\ leaf[x] \in leafList THEN UNCHANGED <<readviewmap, readCnt>>
     ELSE readviewmap' = readviewmap \cup Path(leaf[x]) /\ readCnt' = readCnt + 1
  /\ IF c[x] = None \/ c[x].ver = Dead
     THEN cache' = c /\ failed' = "null" /\ UNCHANGED <<leafList, modified>>
     ELSE /\ cache' = [c EXCEPT ![x].pos = leaf[x]]
          /\ leafList' = leafList \cup {leaf[x]} /\ modified' = modified \cup {x}
          /\ UNCHANGED failed
  /\ UNCHANGED <<store, writeviewmap, emptyNodes, phase, level, leaf, want>>

\* The caller holds a pointer into the cache; WriteNode() of a cached node
\* stores nothing more.
Update(x, v) ==
  /\ Working /\ x \in modified /\ leaf[x] # None
  /\ cache' = [cache EXCEPT ![x].ver = v] /\ want' = [want EXCEPT ![x] = v]
  /\ UNCHANGED <<store, leafList, modified, readviewmap, writeviewmap, readCnt, emptyNodes,
                 phase, level, leaf, failed>>

FetchNew == NewPathFetched \/ phase # "batch"

\* Mutant: the path of the new node is not scheduled for writing.
ScheduledNew_Not(l) == leafList

ScheduledNew(l) == leafList \cup {l}

\* WriteNode(bid, node) of a new node with leaf l: Access() and WriteData(),
\* unless the cache has a node of that name.
WriteNode(x, l) ==
  /\ Working /\ leaf[x] = None
  /\ leaf' = [leaf EXCEPT ![x] = l] /\ want' = [want EXCEPT ![x] = CHOOSE v \in Versions : TRUE]
  /\ modified' = modified \cup {x}
  /\ \/ /\ Cached(x)
        /\ UNCHANGED <<cache, leafList, readviewmap, readCnt, emptyNodes, failed>>
     \/ /\ ~Cached(x)
        /\ IF FetchNew THEN readviewmap' = readviewmap \cup Path(l) /\ readCnt' = readCnt + 1
                       ELSE UNCHANGED <<readviewmap, readCnt>>
        /\ LET c == IF FetchNew THEN FetchPath(l) ELSE cache IN
           IF emptyNodes > 0
           THEN /\ cache' = [c EXCEPT ![x] = [pos |-> l, ver |-> CHOOSE v \in Versions : TRUE]]
                /\ emptyNodes' = emptyNodes - 1 /\ leafList' = ScheduledNew(l)
                /\ UNCHANGED failed
           ELSE cache' = c /\ failed' = "full" /\ UNCHANGED <<emptyNodes, leafList>>
  /\ UNCHANGED <<store, writeviewmap, phase, level>>

\* Mutant: the block is not counted as free.
MoreEmpty_Not == emptyNodes

MoreEmpty == emptyNodes + 1

\* DeleteNode(): under the bid the cache has, from now on, a node with key 0
\* and a leaf l of its own.
DeleteNode(x, l) ==
  /\ Working /\ x \in modified /\ leaf[x] # None
  /\ cache' = [cache EXCEPT ![x] = [pos |-> l, ver |-> Dead]]
  /\ emptyNodes' = MoreEmpty
  /\ leaf' = [leaf EXCEPT ![x] = None] /\ want' = [want EXCEPT ![x] = None]
  /\ UNCHANGED <<store, leafList, modified, readviewmap, writeviewmap, readCnt,
                 phase, level, failed>>
-----------------------------------------------------------------------------
(***************************************************************************)
(* finilize(): pad, draw new leaves, write the scheduled paths back.       *)
(***************************************************************************)
Enough == readCnt >= Pad[phase]

PadPath(rnd) ==
  /\ Working /\ ~Enough
  /\ leafList' = leafList \cup {rnd}
  /\ cache' = FetchPath(rnd)
  /\ readviewmap' = readviewmap \cup Path(rnd) /\ readCnt' = readCnt + 1
  /\ UNCHANGED <<store, modified, writeviewmap, emptyNodes, phase, level, leaf, want, failed>>

\* A freed node has key 0, which modified has not.
Remapped == {x \in modified : Cached(x) /\ cache[x].ver # Dead}

Recorded(newPos) == [x \in Bids |-> IF x \in Remapped THEN newPos[x] ELSE leaf[x]]

Finilize ==
  /\ Working /\ Enough
  /\ \E newPos \in [Remapped -> Leaves] :
       /\ cache' = [x \in Bids |-> IF x \in Remapped THEN [cache[x] EXCEPT !.pos = newPos[x]]
                                                     ELSE cache[x]]
       /\ leaf' = Recorded(newPos)
  /\ phase' = "write" /\ modified' = {}
  /\ UNCHANGED <<store, leafList, readviewmap, writeviewmap, readCnt, emptyNodes, level, want, failed>>

ToWrite == {OnPath(l, level) : l \in leafList} \ writeviewmap
Intersecting(b) == {x \in Bids : Cached(x) /\ OnPath(cache[x].pos, level) = b}

\* GetIntersectingBlocks() takes the first Z by bid: any Z of them here.
Fits(S, b) ==
  Cardinality(S) = IF Cardinality(Intersecting(b)) < Z THEN Cardinality(Intersecting(b)) ELSE Z

\* Mutant: what does not fit in the bucket is dropped as well.
LeftInCache_All(S) ==
  [x \in Bids |-> IF \E b \in ToWrite : x \in Intersecting(b) THEN None ELSE cache[x]]

LeftInCache(S) == [x \in Bids |-> IF x \in S THEN None ELSE cache[x]]

\* WritePath() of every scheduled leaf at one level; a freed node leaves the
\* cache and its slot is written as an empty block.
WriteLevel ==
  /\ phase = "write" /\ level >= 0
  /\ \E S \in SUBSET UNION {Intersecting(b) : b \in ToWrite} :
       /\ \A b \in ToWrite : Fits(S \cap Intersecting(b), b)
       /\ store' = [b \in Buckets |-> IF b \notin ToWrite THEN store[b]
            ELSE [x \in Bids |-> IF x \in S \cap Intersecting(b) /\ cache[x].ver # Dead
                                 THEN cache[x] ELSE None]]
       /\ cache' = LeftInCache(S)
  /\ writeviewmap' = writeviewmap \cup ToWrite
  /\ level' = level - 1
  /\ UNCHANGED <<leafList, modified, readviewmap, readCnt, emptyNodes, phase, leaf, want, failed>>

Finish ==
  /\ phase = "write" /\ level < 0
  /\ phase' = "idle" /\ level' = depth /\ leafList' = {}
  /\ UNCHANGED <<store, cache, modified, readviewmap, writeviewmap, readCnt, emptyNodes, leaf, want, failed>>
-----------------------------------------------------------------------------
\* A bid is used again only when nothing is cached under it.
Next ==
  \/ \E kind \in Kinds : Start(kind)
  \/ \E x \in Bids :
       \/ ReadNode(x) \/ \E v \in Versions : Update(x, v)
       \/ \E l \in Leaves : DeleteNode(x, l)
  \/ \E rnd \in Leaves : PadPath(rnd)
  \/ \E x \in Bids, l \in Leaves : ~Cached(x) /\ WriteNode(x, l)
  \/ Finilize \/ WriteLevel \/ Finish

Spec == Init /\ [][Next]_vars
-----------------------------------------------------------------------------
(***************************************************************************)
(* Correctness.                                                            *)
(***************************************************************************)
Pending == readviewmap \ writeviewmap
Holders(x) == {b \in Buckets \ (IF phase = "idle" THEN {} ELSE Pending) : store[b][x] # None}
Current(x) == IF Cached(x) THEN cache[x]
              ELSE IF Holders(x) = {} THEN None ELSE store[CHOOSE b \in Holders(x) : TRUE][x]

\* The caller's nodes are all there, on the leaf it records and with what it
\* last wrote, and the nodes it deleted are not, after any insertions and
\* deletions within and across operations.
ContentKept ==
  failed = "no" =>
    \A x \in Bids :
      IF leaf[x] = None THEN Current(x) = None \/ Current(x).ver = Dead
      ELSE Current(x) = [pos |-> leaf[x], ver |-> want[x]]

\* A node is in one place: a second copy would come back when its path is
\* fetched after the first has moved (FetchPath drops copies of cached nodes).
OneCopy == \A x \in Bids : Cardinality(Holders(x)) + (IF Cached(x) THEN 1 ELSE 0) <= 1

\* Every read finds its node, and an insertion is refused only when MaxNodes
\* nodes are there: the count of free blocks is right (ReadNode, FetchPath,
\* WriteData, DeleteData).
Used == Cardinality({x \in Bids : leaf[x] # None})
FailsOnlyWhenFull ==
  CASE failed = "null" -> FALSE
    [] failed = "full" -> Used = MaxNodes + 1
    [] OTHER -> emptyNodes = MaxNodes - Used
=============================================================================

-------------------------------- MODULE BRAM --------------------------------
(***************************************************************************)
(* The Path ORAM that holds the nodes of a B-tree (class BRAM), driven by  *)
(* the accesses the B-tree makes during one operation (class BTree).       *)
(*                                                                         *)
(* The server keeps buckets of at most Z nodes.  A node is assigned to a   *)
(* leaf of the bucket tree (pos) and is kept in a bucket of the path to    *)
(* that leaf, or in the client's cache (the stash).  There is no position  *)
(* map: the leaf of a node is written next to its bid in its parent        *)
(* (cbids, cpos), and the leaf of the root in brootPos.  An operation      *)
(* fetches paths into the cache, changes nodes there in place, and         *)
(* finalize() then draws new leaves for the nodes it touched, children     *)
(* before parents, and writes the fetched paths back, leaves first.        *)
(*                                                                         *)
(* A node's keys and values are abstracted to a version that changes when  *)
(* they are written; which nodes the B-tree splits, borrows from or merges *)
(* depends on its keys (module BTree) and is left open here.               *)
(***************************************************************************)
EXTENDS Integers, FiniteSets, SetupPlacement

CONSTANTS
  Bids,           \* node identifiers, numbered from 1 (nextBid)
  Leaves,         \* leaves of the bucket tree
  Buckets,        \* indices of its buckets
  pad,            \* paths an operation fetches at least, less one
  maxHeight,      \* height of the B-tree after setup (BTree::minHeight too)
  InitTree,       \* the nodes setup creates and the children of each
  Versions,       \* versions of a node told apart (they are counted modulo it)
  None            \* a null pointer, an absent entry

ASSUME BidsAssumption == Bids \subseteq Nat
ASSUME InitTreeAssumption ==
  /\ DOMAIN InitTree \subseteq Bids
  /\ IsFiniteSet(DOMAIN InitTree) /\ 1 \in DOMAIN InitTree
  /\ DOMAIN InitTree = 1 .. Cardinality(DOMAIN InitTree)
  /\ \A x \in DOMAIN InitTree : InitTree[x] \subseteq DOMAIN InitTree \ {1, x}
  /\ \A x, y \in DOMAIN InitTree : InitTree[x] \cap InitTree[y] # {} => x = y
ASSUME PathAssumption ==
  /\ depth \in Nat
  /\ Leaves \subseteq Nat
  /\ \A l \in Leaves, d \in 0 .. depth : OnPath(l, d) \in Buckets
ASSUME NumbersAssumption == /\ Z \in Nat \ {0} /\ pad \in Nat /\ maxHeight \in Nat
                           /\ Versions \in Nat \ {0}

VARIABLES
  store,          \* server: store[b][x] is the copy of node x in bucket b
  cache,          \* cache[x]: the client's copy of node x
  hstash,         \* height at which a node was read by this operation
  leafList,       \* leaves of the paths to write back
  readviewmap,    \* buckets fetched since start()
  writeviewmap,   \* buckets written since start()
  modified,       \* nodes read or written by this operation
  readCnt,        \* paths fetched since start()
  brootKey, brootPos,   \* bid and leaf of the B-tree's root
  nextbid,        \* last bid handed out
  phase,          \* what the client is doing
  level,          \* loop counter of finalize()
  failed          \* a read threw "BTreeNode id is not set"

serverVars == <<store>>
viewVars   == <<readviewmap, writeviewmap, readCnt>>
opVars     == <<hstash, leafList, modified>>
rootVars   == <<brootKey, brootPos, nextbid>>
vars == <<serverVars, cache, viewVars, opVars, rootVars, phase, level, failed>>

NoPos == -1      \* cpos[0] of a leaf, and of an unused entry

\* live: node->bid is not 0 (a merged or collapsed node is written with bid 0).
\* cpos[k]: the leaf recorded for child k, NoPos when k is not a child.
Node == [pos : Leaves, ver : 0 .. Versions - 1, live : BOOLEAN,
         cpos : [Bids -> Leaves \cup {NoPos}]]

\* A null pointer is not a node, and an absent height not a number.
ASSUME NoneAssumption == None \notin Node /\ None \notin Int

Children(n) == {k \in Bids : n.cpos[k] # NoPos}
Cached(x) == cache[x] # None
Touch(n) == [n EXCEPT !.ver = (@ + 1) % Versions]      \* keys or values are assigned

TypeOK ==
  /\ store \in [Buckets -> [Bids -> Node \cup {None}]]
  /\ cache \in [Bids -> Node \cup {None}]
  /\ hstash \in [Bids -> Int \cup {None}]
  /\ leafList \subseteq Leaves
  /\ readviewmap \subseteq Buckets /\ writeviewmap \subseteq Buckets
  /\ modified \subseteq Bids
  /\ readCnt \in Nat
  /\ brootKey \in Bids /\ brootPos \in Leaves
  /\ nextbid \in Nat
  /\ phase \in {"idle", "insert", "remove", "pad", "remap", "evict"}
  /\ level \in -1 .. (maxHeight + depth + 1)
  /\ failed \in BOOLEAN
-----------------------------------------------------------------------------
(***************************************************************************)
(* Setup.  Init is the state setupInsert() leaves when no two groups of    *)
(* nodes meet in a bucket and none runs past the root; module SetupInsert  *)
(* shows that, and what happens with the other draws.                      *)
(***************************************************************************)
Nodes0 == DOMAIN InitTree

SetupNode(p, x) ==
  [pos |-> p[x], ver |-> 0, live |-> TRUE,
   cpos |-> [k \in Bids |-> IF k \in InitTree[x] THEN p[k] ELSE NoPos]]

Init ==
  /\ \E p \in [Nodes0 -> Leaves], rank \in Orders(Nodes0) :
       /\ SetupFits(p, rank)
       /\ store = [b \in Buckets |-> [x \in Bids |->
                     IF x \in Nodes0 /\ b = OnPath(p[x], SetupLevel(p, rank, x))
                     THEN SetupNode(p, x) ELSE None]]
       /\ brootPos = p[1]
  /\ cache = [x \in Bids |-> None]
  /\ hstash = [x \in Bids |-> None]
  /\ leafList = {} /\ modified = {}
  /\ readviewmap = {} /\ writeviewmap = {} /\ readCnt = 0
  /\ brootKey = 1
  /\ nextbid = Cardinality(Nodes0)
  /\ phase = "idle" /\ level = 0 /\ failed = FALSE
-----------------------------------------------------------------------------
(***************************************************************************)
(* Fetching.                                                               *)
(***************************************************************************)
Path(leaf) == {OnPath(leaf, d) : d \in 0 .. depth}

\* Buckets of the path that were not fetched yet and hold node x.
Sources(seen, leaf, x) == {b \in Path(leaf) \ seen : store[b][x] # None}

\* The cache after FetchPath(leaf), when it was c and the buckets in seen
\* had been fetched: a cached node is kept and the copy read is dropped.
\* (The code keeps the copy nearest to the root if there are several; OneCopy
\* says that there are not.)
FetchPath(c, seen, leaf) ==
  [x \in Bids |->
     IF c[x] # None \/ Sources(seen, leaf, x) = {} THEN c[x]
     ELSE store[CHOOSE b \in Sources(seen, leaf, x) : TRUE][x]]

\* Mutant: start() without readviewmap.clear().
Start_KeepsReadView(kind) ==
  /\ phase = "idle" /\ ~failed
  /\ phase' = kind
  /\ writeviewmap' = {} /\ readCnt' = 0
  /\ hstash' = [x \in Bids |-> None]
  /\ UNCHANGED <<store, cache, leafList, modified, readviewmap, rootVars, level, failed>>

Start(kind) ==
  /\ phase = "idle" /\ ~failed
  /\ phase' = kind
  /\ readviewmap' = {} /\ writeviewmap' = {} /\ readCnt' = 0
  /\ hstash' = [x \in Bids |-> None]
  /\ UNCHANGED <<store, cache, leafList, modified, rootVars, level, failed>>

\* ReadBTreeNode(bid, lastLeaf, mh): the insertion path passes no height.
Found(bid, mh) ==
  /\ modified' = modified \cup {bid}
  /\ hstash' = IF phase = "insert" THEN hstash ELSE [hstash EXCEPT ![bid] = mh]
  /\ UNCHANGED failed

ReadCached(bid, mh) ==
  /\ Cached(bid)
  /\ Found(bid, mh)
  /\ UNCHANGED <<cache, readviewmap, readCnt, leafList>>

ReadFetched(bid, lastLeaf, mh) ==
  /\ ~Cached(bid)
  /\ cache' = FetchPath(cache, readviewmap, lastLeaf)
  /\ readviewmap' = readviewmap \cup Path(lastLeaf)
  /\ readCnt' = readCnt + 1
  /\ \/ /\ cache'[bid] # None
        /\ leafList' = leafList \cup {lastLeaf}
        /\ Found(bid, mh)
     \/ /\ cache'[bid] = None            \* throws "BTreeNode id is not set"
        /\ failed' = TRUE
        /\ UNCHANGED <<leafList, modified, hstash>>

ReadBTreeNode(bid, lastLeaf, mh) ==
  /\ ReadCached(bid, mh) \/ ReadFetched(bid, lastLeaf, mh)
  /\ UNCHANGED <<store, writeviewmap, rootVars, phase, level>>
-----------------------------------------------------------------------------
(***************************************************************************)
(* What the B-tree does between start() and finalize().  It reaches a node *)
(* from the root or from a parent it holds, with the leaf recorded there,  *)
(* and changes the nodes it holds in place (they are pointers into cache). *)
(***************************************************************************)
Held(x) == x \in modified /\ Cached(x) /\ cache[x].live

ReadRoot ==
  /\ phase \in {"insert", "remove"} /\ ~failed
  /\ ReadBTreeNode(brootKey, brootPos, maxHeight)

\* Mutant: the height is not decremented on the way down.
ChildHeight_Same(p) == hstash[p]

\* The recursive calls of the B-tree pass mh - 1.
ChildHeight(p) == hstash[p] - 1

ReadChild(p, c) ==
  /\ phase \in {"insert", "remove"} /\ ~failed
  /\ Held(p) /\ c \in Children(cache[p])
  /\ ReadBTreeNode(c, cache[p].cpos[c], ChildHeight(p))

\* WriteBTreeNode(bid, node) of a cached node: the node is already changed.
WriteInPlace ==
  UNCHANGED <<store, viewVars, opVars, rootVars, phase, level, failed>>

Update(x) ==
  /\ phase \in {"insert", "remove"} /\ ~failed
  /\ Held(x)
  /\ cache' = [cache EXCEPT ![x] = Touch(@)]
  /\ WriteInPlace

\* n's children in C, with their leaves, are given to m.
Give(n, C) == [n EXCEPT !.cpos = [k \in Bids |-> IF k \in C THEN NoPos ELSE n.cpos[k]]]
Take(m, n, C) == [m EXCEPT !.cpos = [k \in Bids |-> IF k \in C THEN n.cpos[k] ELSE m.cpos[k]]]
NewNode(leaf) == [pos |-> leaf, ver |-> 0, live |-> TRUE, cpos |-> [k \in Bids |-> NoPos]]
SetChild(n, c, leaf) == [n EXCEPT !.cpos[c] = leaf]

\* Which children a split may hand over: none of a leaf's, some of a node's.
SplitSets(n) ==
  IF Children(n) = {} THEN {{}} ELSE (SUBSET Children(n)) \ {{}, Children(n)}

\* insertNFull() splits the full child y of p before going down: splitChild
\* fills the new node z, whose leaf is drawn, and WriteBTreeNode(z) fetches
\* the path of that leaf.
SplitChild(p, y, z, leaf) ==
  /\ phase = "insert" /\ ~failed
  /\ Held(p) /\ Held(y) /\ y \in Children(cache[p])
  /\ z \in Bids /\ z = nextbid + 1
  /\ \E K \in SplitSets(cache[y]) :
       cache' = [FetchPath(cache, readviewmap, leaf) EXCEPT
                   ![p] = Touch(SetChild(cache[p], z, leaf)),
                   ![y] = Touch(Give(cache[y], K)),
                   ![z] = Take(NewNode(leaf), cache[y], K)]
  /\ nextbid' = z
  /\ readviewmap' = readviewmap \cup Path(leaf)
  /\ readCnt' = readCnt + 1
  /\ leafList' = leafList \cup {leaf}
  /\ modified' = modified \cup {p, y, z}
  /\ UNCHANGED <<store, writeviewmap, hstash, brootKey, brootPos, phase, level, failed>>

\* insertkw() of a full root r: a new root s above r and its new sibling z.
\* Both are written, which fetches two paths.
SplitRoot(s, z, sleaf, zleaf) ==
  LET r == brootKey
      seen == readviewmap \cup Path(zleaf)
  IN
  /\ phase = "insert" /\ ~failed
  /\ Held(r)
  /\ s \in Bids /\ s = nextbid + 1 /\ z \in Bids /\ z = nextbid + 2
  /\ \E K \in SplitSets(cache[r]) :
       cache' = [FetchPath(FetchPath(cache, readviewmap, zleaf), seen, sleaf) EXCEPT
                   ![r] = Touch(Give(cache[r], K)),
                   ![z] = Take(NewNode(zleaf), cache[r], K),
                   ![s] = SetChild(SetChild(NewNode(sleaf), r, cache[r].pos), z, zleaf)]
  /\ nextbid' = z
  /\ readviewmap' = seen \cup Path(sleaf)
  /\ readCnt' = readCnt + 2
  /\ leafList' = leafList \cup {sleaf, zleaf}
  /\ modified' = modified \cup {r, s, z}
  /\ brootKey' = s /\ brootPos' = sleaf
  /\ UNCHANGED <<store, writeviewmap, hstash, phase, level, failed>>

\* borrowFromPrev(), borrowFromNext(): a key moves from a through the parent
\* p to a's sibling b, with one child unless they are leaves.
Borrow(p, a, b) ==
  /\ phase = "remove" /\ ~failed
  /\ Held(p) /\ Held(a) /\ Held(b) /\ a # b
  /\ a \in Children(cache[p]) /\ b \in Children(cache[p])
  /\ \E C \in SUBSET Children(cache[a]) :
       /\ IF Children(cache[a]) = {} THEN C = {}
          ELSE Cardinality(C) = 1 /\ C # Children(cache[a])
       /\ cache' = [cache EXCEPT ![p] = Touch(@),
                                 ![a] = Touch(Give(@, C)),
                                 ![b] = Touch(Take(@, cache[a], C))]
  /\ WriteInPlace

\* Mutant: the children of the merged sibling are forgotten.
Merge_DropsChildren(p, a, b) ==
  /\ phase = "remove" /\ ~failed
  /\ Held(p) /\ Held(a) /\ Held(b) /\ a # b
  /\ a \in Children(cache[p]) /\ b \in Children(cache[p])
  /\ cache' = [cache EXCEPT ![p] = Touch(Give(@, {b})), ![a] = Touch(@),
                            ![b] = [@ EXCEPT !.live = FALSE]]
  /\ WriteInPlace

\* merge(): a takes the keys and children of its sibling b, whose bid
\* becomes 0 and whose entry leaves the parent p.
Merge(p, a, b) ==
  /\ phase = "remove" /\ ~failed
  /\ Held(p) /\ Held(a) /\ Held(b) /\ a # b
  /\ a \in Children(cache[p]) /\ b \in Children(cache[p])
  /\ cache' = [cache EXCEPT
                 ![p] = Touch(Give(@, {b})),
                 ![a] = Touch(Take(@, cache[b], Children(cache[b]))),
                 ![b] = [@ EXCEPT !.live = FALSE]]
  /\ WriteInPlace

\* removekw(): a root left without keys is replaced by its only child, and
\* the operation is over.
CollapseRoot(c) ==
  /\ phase = "remove" /\ ~failed
  /\ Held(brootKey) /\ Children(cache[brootKey]) = {c}
  /\ brootKey' = c
  /\ brootPos' = cache[brootKey].cpos[c]
  /\ cache' = [cache EXCEPT ![brootKey].live = FALSE]
  /\ phase' = "pad"
  /\ UNCHANGED <<store, viewVars, opVars, nextbid, level, failed>>
-----------------------------------------------------------------------------
(***************************************************************************)
(* finalize(): pad the operation with random paths, draw new leaves height *)
(* by height, record the root's, write the fetched paths back level by     *)
(* level.  (batchWrite is FALSE: the B-tree only calls start(false).)      *)
(***************************************************************************)
Finalize ==
  /\ phase \in {"insert", "remove"} /\ ~failed
  /\ phase' = "pad"
  /\ UNCHANGED <<store, cache, viewVars, opVars, rootVars, level, failed>>

\* Mutant: the random path is fetched and not scheduled for writing back.
PadPath_NotScheduled(rnd) ==
  /\ phase = "pad" /\ readCnt <= pad
  /\ cache' = FetchPath(cache, readviewmap, rnd)
  /\ readviewmap' = readviewmap \cup Path(rnd)
  /\ readCnt' = readCnt + 1
  /\ UNCHANGED <<store, leafList, writeviewmap, hstash, modified, rootVars, phase, level, failed>>

PadPath(rnd) ==
  /\ phase = "pad" /\ readCnt <= pad
  /\ leafList' = leafList \cup {rnd}
  /\ cache' = FetchPath(cache, readviewmap, rnd)
  /\ readviewmap' = readviewmap \cup Path(rnd)
  /\ readCnt' = readCnt + 1
  /\ UNCHANGED <<store, writeviewmap, hstash, modified, rootVars, phase, level, failed>>

EndPad ==
  /\ phase = "pad" /\ readCnt > pad
  /\ phase' = "remap" /\ level' = 0
  /\ UNCHANGED <<store, cache, viewVars, opVars, rootVars, failed>>

\* Nodes read at height h by this operation draw new leaves, and record the
\* leaves of the children that are in the cache.
Remapped(h) == {x \in modified : hstash[x] = h /\ Cached(x)}

RemapHeight(newPos) ==
  /\ phase = "remap" /\ level <= maxHeight
  /\ cache' = [x \in Bids |->
       IF x \notin Remapped(level) THEN cache[x]
       ELSE [cache[x] EXCEPT
               !.pos = newPos[x],
               !.cpos = [k \in Bids |->
                  IF cache[x].cpos[k] # NoPos /\ Cached(k) THEN cache[k].pos
                                                           ELSE cache[x].cpos[k]]]]
  /\ level' = level + 1
  /\ UNCHANGED <<store, viewVars, opVars, rootVars, phase, failed>>

\* Mutant: brootPos is lost when the root is not in the cache.
RecordRoot_Resets ==
  /\ phase = "remap" /\ level > maxHeight
  /\ brootPos' = IF Cached(brootKey) THEN cache[brootKey].pos ELSE NoPos
  /\ phase' = "evict" /\ level' = depth
  /\ UNCHANGED <<store, cache, viewVars, opVars, brootKey, nextbid, failed>>

RecordRoot ==
  /\ phase = "remap" /\ level > maxHeight
  /\ brootPos' = IF Cached(brootKey) THEN cache[brootKey].pos ELSE brootPos
  /\ phase' = "evict" /\ level' = depth
  /\ UNCHANGED <<store, cache, viewVars, opVars, brootKey, nextbid, failed>>

\* Mutant: every cached node fits every bucket.
Intersecting_AnyPath(b, d) == {x \in Bids : Cached(x)}

\* GetIntersectingBlockbs: the cached nodes, in the order of their bids,
\* whose path goes through bucket b at level d; at most Z of them.
Intersecting(b, d) == {x \in Bids : Cached(x) /\ OnPath(cache[x].pos, d) = b}
GetIntersectingBlocks(b, d) ==
  {x \in Intersecting(b, d) : Cardinality({y \in Intersecting(b, d) : y < x}) < Z}

\* WritePath(leaf, d) for every leaf of leafList: a bucket not yet written
\* receives its nodes, which leave the cache; a deleted one leaves it too
\* but is written as an empty block.
ToWrite(d) == {OnPath(l, d) : l \in leafList} \ writeviewmap

\* Mutant: the nodes written stay in the cache.
Leaving_None(d) == {}
\* Mutant: nodes beyond the Z of their bucket leave the cache too.
Leaving_Overflow(d) == UNION {Intersecting(b, d) : b \in ToWrite(d)}

Leaving(d) == UNION {GetIntersectingBlocks(b, d) : b \in ToWrite(d)}

WriteLevel ==
  /\ phase = "evict" /\ level >= 0
  /\ store' = [b \in Buckets |->
       IF b \notin ToWrite(level) THEN store[b]
       ELSE [x \in Bids |-> IF x \in GetIntersectingBlocks(b, level) /\ cache[x].live
                            THEN cache[x] ELSE None]]
  /\ cache' = [x \in Bids |-> IF x \in Leaving(level) THEN None ELSE cache[x]]
  /\ writeviewmap' = writeviewmap \cup ToWrite(level)
  /\ level' = level - 1
  /\ UNCHANGED <<readviewmap, readCnt, opVars, rootVars, phase, failed>>

\* Mutant: finalize() without leafList.clear().
Finish_KeepsLeafList ==
  /\ phase = "evict" /\ level < 0
  /\ modified' = {}
  /\ phase' = "idle" /\ level' = 0
  /\ UNCHANGED <<store, cache, viewVars, leafList, hstash, rootVars, failed>>

Finish ==
  /\ phase = "evict" /\ level < 0
  /\ leafList' = {} /\ modified' = {}
  /\ phase' = "idle" /\ level' = 0
  /\ UNCHANGED <<store, cache, viewVars, hstash, rootVars, failed>>
-----------------------------------------------------------------------------
Client ==
  \/ ReadRoot
  \/ \E p, c \in Bids : ReadChild(p, c)
  \/ \E x \in Bids : Update(x)
  \/ \E p, y, z \in Bids, leaf \in Leaves : SplitChild(p, y, z, leaf)
  \/ \E s, z \in Bids, sleaf, zleaf \in Leaves : SplitRoot(s, z, sleaf, zleaf)
  \/ \E p, a, b \in Bids : Borrow(p, a, b) \/ Merge(p, a, b)
  \/ \E c \in Bids : CollapseRoot(c)

FinalizeStep ==
  \/ \E rnd \in Leaves : PadPath(rnd)
  \/ EndPad
  \/ \E newPos \in [Remapped(level) -> Leaves] : RemapHeight(newPos)
  \/ RecordRoot
  \/ WriteLevel
  \/ Finish

Next ==
  \/ \E kind \in {"insert", "remove"} : Start(kind)
  \/ Client
  \/ Finalize
  \/ FinalizeStep

Spec == Init /\ [][Next]_vars
-----------------------------------------------------------------------------
(***************************************************************************)
(* Correctness.                                                            *)
(***************************************************************************)
\* Buckets whose content is in the cache and not yet written back: what the
\* server holds there is out of date.
Pending == readviewmap \ writeviewmap
Current == Buckets \ Pending

\* The only up-to-date copy of node x.
Holders(x) == {b \in Current : store[b][x] # None}
CurrentNode(x) ==
  IF Cached(x) THEN cache[x]
  ELSE IF Holders(x) = {} THEN None ELSE store[CHOOSE b \in Holders(x) : TRUE][x]

Live(x) == CurrentNode(x) # None /\ CurrentNode(x).live

\* A node is never in two places at once: two buckets that are both up to
\* date, or such a bucket and the cache, never hold a copy of the same node
\* (FetchPath drops the copy it reads of a cached node, so a stale copy
\* left behind would come back later in place of the newer one).
OneCopy ==
  \A x \in Bids :
    /\ Cached(x) => Holders(x) = {}
    /\ \A b, c \in Holders(x) : b = c

\* A node on the server is in a bucket of the path its pos names: a fetch of
\* that path finds it (WritePath, GetIntersectingBlockbs).
OnItsPath ==
  \A b \in Current, x \in Bids :
    store[b][x] # None => store[b][x].live /\ b \in Path(store[b][x].pos)

\* A bucket fetched and not yet written back lies on a path finalize() will
\* write back, at a level it has still to reach: no block fetched is left
\* behind on the server in its old version.
PendingIsScheduled ==
  ~failed =>
    \A b \in Pending :
      \E l \in leafList, d \in 0 .. (IF phase = "evict" THEN level ELSE depth) :
        b = OnPath(l, d)

\* finalize() overwrites the buckets of the scheduled paths with what fits
\* from the cache, so each of them must have been fetched by this operation:
\* a path scheduled by an earlier one would be wiped.
OnlyFetchedIsScheduled == \A l \in leafList : Path(l) \subseteq readviewmap

\* Between operations the server is up to date and nothing is scheduled.
QuiescentWhenIdle ==
  phase = "idle" /\ ~failed => Pending = {} /\ leafList = {} /\ modified = {}

\* The recursive position map: while the B-tree follows it and whenever no
\* operation runs, the leaf a parent records for a child is the leaf of the
\* child, and brootPos is the root's (finalize remaps children first).
PositionMap ==
  phase \in {"idle", "insert", "remove", "pad", "evict"} =>
    /\ Live(brootKey) /\ CurrentNode(brootKey).pos = brootPos
    /\ \A p \in Bids : Live(p) =>
         \A c \in Children(CurrentNode(p)) :
            Live(c) /\ CurrentNode(c).pos = CurrentNode(p).cpos[c]

\* No read of the B-tree ever throws "BTreeNode id is not set".
ReadsSucceed == ~failed

\* The tree as the B-tree sees it.
Version(x) == IF Live(x) THEN CurrentNode(x).ver ELSE None
ChildrenOf(x) == IF Live(x) THEN Children(CurrentNode(x)) ELSE {}

\* finalize() writes back what the operation changed: it neither loses a
\* node, nor revives a deleted one, nor brings back an older version.
FinalizeKeepsContent ==
  [][(phase \in {"pad", "remap", "evict"}) =>
       \A x \in Bids : Version(x)' = Version(x) /\ ChildrenOf(x)' = ChildrenOf(x)]_vars

\* The store behaves as a tree of nodes in memory.
Tree == INSTANCE NodeTree WITH
  InitTrees <- {InitTree},
  root <- brootKey,
  ver  <- [x \in Bids |-> Version(x)],
  kids <- [x \in Bids |-> ChildrenOf(x)]
NodeTreeSpec == Tree!Spec
=============================================================================

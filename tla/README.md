# Verification of the B-tree and AVL Path ORAM indexes

TLA+ models, TLC runs and TLAPS proofs for the searchable-encryption prototypes
of this repository ("BaselinesSSE"). The repository holds about twenty variants
of one idea: a keyword index and a file store are kept in a tree-shaped structure
(a B-tree, or an AVL tree) whose nodes live on a server inside a Path ORAM, so that
an operation reads and writes whole paths of buckets. The variants are copies of
a few classes, edited apart. This project models each class once, from the copy
named in the table, and names the differences between the copies by constants.

## 1. The system

| component | modelled from | state | operations |
|---|---|---|---|
| Path ORAM for B-tree nodes (`BRAM`) | `btree/BRAM.cpp` | server buckets; client cache (stash), heights read (`hstash`), paths to write back (`leafList`), buckets read and written in this operation, nodes touched (`modified`) | `start`, `ReadBTreeNode`, `WriteBTreeNode`, `finalize`, `setupInsert` |
| Bucket-tree geometry | `btree/BRAM.cpp:13-22, 64-70` | none | `GetBTreeNodeOnPath`, `RandomPath` |
| B-tree (`BTree`) | `btree/BTree.cpp` | bid and leaf of the root, last bid handed out, height fixed at setup | `insert`, `search`, `batchSearch`, `remove`, `setupInsert`, `createBTreeNode`, `createGroups` |
| Keyword index of the B-tree (`Orion`) | `btree/Orion.cpp`, `wfilebtree/Orion.cpp` | entries per keyword | `insert`, `search`, `batchSearch`, `remove`, `setupInsert`, `endSetup` |
| AVL tree and its map (`AVLTree`, `OMAP`) | `morion`, `orion`, `orionsq` | the AVL root's key and leaf | `insert`, `find`, `batchSearch`, `batchInsert`, `remove`, `setupInsert` |
| Path ORAM for AVL nodes (`ORAM`) | `orionsq/ORAM.cpp` | as BRAM, with the count of free blocks | `start`, `ReadNode`, `WriteNode`, `DeleteNode`, `finilize`, `setupInsert` |
| Indexes over two maps (`Orion`, `Orion2`, `BOrion`, `MOrion`, `Oriel`) | `orionsq`, `orion2`, `borion`, `morion`, `packorion`, `oriel` | counters at the client or in a third map | `batchInsert`, `endSetup`, `insert`, `remove`, `search`, `simplebatchSearch`, `batchSearch` |
| Local-counter index and its stores (`Orion`, `IndexORAM`, `FileORAM`) | `zorionsq`, `packzorionsq`, `mzorion` | per keyword a seed and counters of searches; buckets, cache, (packzorionsq) a stash | `batchInsert`, `endSetup`, `simplebatchSearch` |
| Two-server client (`Client`, `Server`) | `mitra` | counters; the server's two tables | `insert`, `insertFile`, `endSetup`, `search` |
| Threaded file search (`FileORAM`, `Orion`) | `parallelORAM` | a FileORAM shared by one thread per block | `batchInsert`, `syncSearch`, `asyncSearch` |
| Other clients | `foram`, `mitrap`, `baseline` | | not modelled |
| Encryption, identifiers, serialisation; drivers | every variant | none | not modelled |

How they interact. An index turns a keyword and a number into a key (`Bid`) and
calls a map. A map's operation is `start`, a walk down its tree in which nodes
are read from the ORAM and changed in place (the tree holds pointers into the
ORAM's cache), and `finalize`. There is no position map: a node's leaf is stored
next to its identifier in its parent, and the root's leaf in the tree object; in
the seed variants the leaf is computed from the keyword and a counter. Setup
collects all entries in maps of the client, builds the tree in one go and places
its nodes.

What is hard. Except in `parallelORAM` there is one thread, and nothing is
persisted; so it is not concurrency or crashes but the distance between a cause and
its effect: a copy left behind by one operation, a leaf recorded wrongly, or a
number given twice shows up when some later operation happens to fetch another
path or search another word. `parallelORAM` reads the blocks of a file with one thread
per block: its threads share the cache, the list of buckets fetched and the list
of leaves to write back, and guard only some of the accesses with a mutex.

| component | hard because | correct when |
|---|---|---|
| Path ORAMs | stale copies, overfull buckets, paths fetched for padding, children given new leaves before parents by the heights the caller passed, deleted nodes that stay in the cache | a node has one up-to-date copy, on the path its leaf names; what was fetched is written back and nothing else is overwritten; it behaves as a tree in memory |
| geometry | halving of indices | two paths share exactly their buckets above the point where they part |
| the setups | buckets shared by the groups of several leaves, a loop variable that wraps, logarithms rounded three ways | every node is stored once, on its path; the tree has the height the code goes by |
| `BTree` | splits and fills on the way down, a key copied up before it is deleted below, the root growing and collapsing | it is a B-tree, and behaves as a set of keys |
| `AVLTree` | rotations and two kinds of removal over a shared cache; heights that order the drawing of leaves | it is balanced, every parent records its children's leaves, and it behaves as a dictionary |
| seed stores | a counter at the client and the leaves of many nodes move together | the count tells each node's leaf; every read finds its node |
| indexes | several maps and counters per file; numbers given again after a removal; packed blocks with padding; files that move when they are found | a search returns the blocks of the files added and not removed |
| `parallelORAM` | threads share the cache and the list of fetched buckets | every thread finds its block, or the search meets the one known race |

## 2. The modules

| module | models |
|---|---|
| `PathTree` | bucket-tree geometry: operators, with C++ integer division |
| `NodeTree` | what a B-tree needs of its store (abstract): a root, a version and children for every node; `Plant` and `Clear` of the first node and the last, `Update`, `Split`, `SplitRoot`, `Borrow`, `Merge`, `CollapseRoot` |
| `BRAM` | the Path ORAM of the B-tree, driven by what a B-tree may do between `start` and `finalize` |
| `SetupPlacement`, `SetupInsert` | where `BRAM::setupInsert` puts nodes when no bucket is wanted twice (the initial states of `BRAM`), and its loop |
| `KeyMap`, `BTree` | a set of keys (abstract), and the B-tree over nodes in memory; one action is one recursive call |
| `BTreeSetup` | `BTree::setupInsert`: padding the input and dividing it among nodes |
| `Postings`, `SearchIndex` | what an index promises (abstract): the ids of a keyword; the blocks of its files |
| `BTreeIndex` | the index of the B-tree variants; with `BlocksNext` that of `wfilebtree`, `twowfilebtree` and `eight`, which have file blocks besides |
| `Dictionary`, `AVLTree` | a dictionary (abstract), and the AVL tree; one action is one operation, its methods operators from the operation's memory to the memory they leave |
| `AVLSteps` | what those methods do at one node: reads, rotations, the choice among them on the way back up, the leaves `finilize` writes down. `AVLTree` extends it with the recursion |
| `AvlORAM` | the Path ORAM under the AVL tree: one action is one call, one path of padding, or one level of the writing back |
| `CountedSetup` | the `setupInsert` of all Path ORAMs but `BRAM`, which counts what a bucket holds |
| `SeedORAM` | `zorionsq`: the stores, and the counters by which nodes are found |
| `StashORAM` | the stores of `packzorionsq`, which read into a stash and write nothing back |
| `OrionIndex` | the index of `orionsq`, with the counters at the client (as `orion` has them in a map) or not |
| `Orion2Index` | the index of `orion2` |
| `PackedIndex` | the indexes of `borion` and `morion`, which pack ids and share one map with the blocks |
| `OrielIndex` | the indexes of `packorion` and (`COM = 1`) `oriel`, whose files move when found |
| `PackedSeedIndex` | the indexes of `packzorionsq` and `mzorion` |
| `MitraClient` | `mitra`'s client and server |
| `ParallelSearch` | `FileORAM` and the searches of `parallelORAM`; one action is one access to shared data |
| `MCBRAM`, `MCBRAMTree`, `MCSetups`, `MCSetupInsert`, `MCBTree`, `MCThreads`, `MCAVLTree`, `MCOrams`, `MCIndexes` | instances for TLC |
| `BRAMProofs`, `ParallelSearchProofs`, `BTreeProofs`, `OrielIndexProofs` | theorems about the module each is named after, and their lemmas |
| `AvlORAMProofs` | theorems about `AvlORAM` and `AVLSteps` |
| `SetupProofs` | theorems about `PathTree`, `SetupInsert` and `BTreeSetup` |
| `SeedORAMProofs` | theorems about `CountedSetup`, `SeedORAM` and `StashORAM` |
| `IndexProofs` | theorems about all the keyword indexes |

How they fit: `BRAM` implements `NodeTree` (property `BRAM!NodeTreeSpec`); `BTree`
uses nothing but `NodeTree` steps (`BTree!NodeTreeSpec`) and implements `KeyMap`; the
index over it, `BTreeIndex`, has a dictionary where the code has a B-tree and
implements `Postings`. So does the AVL side: `AvlORAM` keeps every node's content
under any sequence of reads and changes, `AVLTree` implements `Dictionary`, and the
index modules have dictionaries for their maps and implement `SearchIndex`.

The MC modules of more than one instance have a variable (`instance`, `layout`, `oram`,
`kind`) that says which instance a behaviour belongs to and never changes; variables
of the other instances keep a dummy value. A property of such a run holds of each
instance, and its comment says which instances it is about. An MC module EXTENDS one of its
components (`MCAVLTree` extends `AvlORAM`, `MCOrams` `SeedORAM`, `MCSetups` `CountedSetup`,
`MCBTree` `BTree`) and has the others as INSTANCEs. `SetupProofs`, `SeedORAMProofs` and
`IndexProofs` EXTEND the MC module: their theorems are about the specification TLC runs, with its
constants left open, and so about every instance in it at once.

All the Path ORAM modules take the shape of the bucket tree (`depth`, `Leaves`, `Buckets`,
`OnPath`) as constants, and their instances that of `PathTree`: what they
promise depends on no more of it than their assumptions say.

### BRAM and its code

* `store[b][x]` is the block of node `x` in bucket `b`: a bucket is kept by the
  nodes in it, not by slot, so that it cannot hold two blocks of one node; the
  code cannot write two either, since it writes buckets from a map keyed by bid.
* A node's keys and values are a version counted modulo `Versions`; a child
  pointer is the leaf recorded for it (`cpos`). Which nodes the B-tree splits,
  borrows from or merges depends on keys, and is left open: `BRAM` lets the client
  do any of them with nodes it holds, in any order (module `BTree` has the keys).
* `Start`, `ReadRoot`, `ReadChild`, `SplitChild`, `SplitRoot`, `Borrow`, `Merge`,
  `CollapseRoot`, `Update` are what an operation does; `Finalize`, `PadPath`,
  `EndPad`, `RemapHeight` (one turn of the loop over heights), `RecordRoot`,
  `WriteLevel` (one turn of the loop over levels) and `Finish` are `finalize()`.
  A random leaf is an existential over `Leaves`.
* A read that throws sets `failed` and everything stops; so does the program.
* `Init` is the state setup leaves when no two groups of nodes meet in a bucket;
  `SetupInsert!PlacementIsInit` shows that the loop leaves this state. The other
  draws are those of the finding `setup_loss`.

### BTree and its code

* The walks are tail recursive, so `cur` and `key` (the arguments of the current
  call) are all the stack there is; `cur = 0` in a removal means `deletion()` has
  returned to `removekw()`. A node that gets bid 0 becomes `None`.
* A key's value moves wherever the key moves; it is left out. `keynum()` counts the
  values before the first 0, and files are numbered from 1 up by the driver.
* `Begin` does not insert a key that is there: `BTreeIndex!NextKeyIsFree` says the
  index above never does.
* `InitTrees` are the trees setup may leave (or none), each with the labels that show it is one:
  of every node the height, the parent, the position in it and the keys that all below it
  is between (`IsTree`). The code keeps no labels and no step reads them; the assumption about
  setup's trees and the proofs do.
* `BTreeSetup` makes the trees; its recursion is a stack of calls to make. Its
  logarithms are those of the code, `ceil(log(m) / log(D))` of natural logarithms.

### AVLTree, AvlORAM and their code

* A node has the keys and the leaves of its children, the height written in it and
  its own leaf. `ReadNode` must be given the leaf the node is on: a read with another
  sets `lost`. An operation works on a memory `m` (the cache) with recursion as
  recursive operators; the end of it, `finilize`, draws new leaves for the nodes in the
  cache height by height, and records them in parents of greater height only.
* `T2From = "server"` is the copy of `rightRotate` in `orion/AVLTreef.cpp`;
  `HeightBound` is the greatest height `finilize` visits (`mitra` and `foram` bound it,
  the others take that of the cache).
* `AvlORAM` is told of every node the leaf its parent has (`leaf`); what `AVLTree!PositionMap`
  says of the tree is what `AvlORAM` assumes of it. `NewPathFetched = FALSE` would be the batch
  insertion of `foram` and `morion`.
* A key that is inserted again while the node it was freed with is still in the cache
  is left out of both (the guard `~Cached(x)`; see "Other disagreements").

### The seed stores and the indexes

* A pass of `CountedSetup` that met a full bucket puts the *next* node in the cache,
  whatever its leaf, as the code does.
* In `SeedORAM` counts are kept modulo the number of leaves, which is all that
  `RandomSeedPath` tells of them; the seed of a group is the sum of its characters.
* In the index modules a file is a number with a set of keywords (the tokenising is
  abstracted to it) and a number of blocks; a key is the pair it is derived from. In
  `MitraClient` the derivation writes two counters over bytes of the keyword, so a
  keyword counts by its first seven letters (`Prefix`).
* A call is kept in `last` with its answer, so that a search is a step the abstract
  specification can be compared with.
* An index may be operated as its driver operates it: setup in a batch, then searches
  (and removals, or insertions, where the class offers them and they agree with the setup).

### ParallelSearch and its code

* A block's content never changes; what is kept of a copy is the leaf written in it.
* A thread is known by the block it looks for (the blocks of one search differ).
  It goes through `ReadFnode`, `FetchPath` (`VisitMarked`, `VisitUnmarked`, `Mark`,
  `FillBlock`, `EndFill`), `Find`, `Put` and `List`, as `ReadFnode`, `FetchPath`,
  `ReadData` and `Access` do. In a `sync` search a thread starts when no other runs.
* A section under the mutex makes one access, and is one action. Accesses made
  without it are taken as atomic too, so that what the model finds is in the code on
  any machine; what racing accesses can do to a `std::map` beyond that is not modelled.
* A NULL stops the model (`failed`): the caller dereferences it.

## 3. Runs

| run | instances and bounds | shows |
|---|---|---|
| `bram` | from one node to 4 by splits and back by merges, 3 buckets of 1, no padding beyond what was read, any number of operations | types, the location invariants, that every read succeeds, that `finalize` keeps the content |
| `bram_tree` | a tree of 6 nodes on 3 levels, its inner nodes on leaf 0 and its leaves on any; 3 buckets of 4, a 7th identifier; one operation, of any steps a B-tree may take | `PositionMap` at every height, borrowing, merging, collapsing; refinement of `NodeTree` |
| `setups` | "groups": 9 nodes, 7 buckets of 2, every draw; "counted": 7 nodes, 7 buckets of 2, every draw; "btree": T = 4, up to 513 entries; "paths": height 5 | geometry, `PlacementIsInit`, `OnlyMeetingGroupsLose`, `NodesPlacedOnce`, `TreeIsMade`, `EverySetupEnds` |
| `btree` | T = 2; "empty": 7 keys, 8 identifiers; "full": the tree of 15 keys, 5 of them used, 12 identifiers | the B-tree invariants, refinement of `KeyMap` and of `NodeTree` |
| `threads` | 3 blocks, 3 buckets of 1 ("narrow") and of 2 ("wide"), searches of both kinds | searches that end without a NULL lose no block, a NULL has one cause, every search ends or meets a NULL |
| `avl` | "draws": 5 keys, 2 leaves, after a setup of 3; "values": 4 keys, 2 values, batches of 3; "large": 9 keys; "thin": the thinnest trees of 12 keys, removals down to 8; "oram": 3 identifiers, at most 2 nodes, 3 buckets of 1 | search tree, balance, `PositionMap`, refinement of `Dictionary`; of the ORAM, `OneCopy`, `ContentKept`, `FailsOnlyWhenFull` |
| `orams` | "seeds" and "stash": two groups of nodes, height 2, buckets of 1, every order of equal leaves | `SeedsAgree`, `StashIsRead`, `EverySearchEnds` |
| `indexes` | eleven kinds of index over 5 files of 3 keywords (one of no file), 2 ids to a block; 2 searches of a keyword and 2 accesses of a file counted | each refines `SearchIndex` or `Postings`; numbering, packing and moving stay exact |
| `setup_loss` | 4 nodes, 3 buckets of 1 | violated: `EveryNodeIsStored` |
| `async_null` | 3 blocks, a thread per block | violated: `FetchPathAddsBlocks` |
| `btree_empty` | one full node | violated: `RemoveAndSearchReturn` |
| `avl_server` | the tree of files of `orion` | violated: `NothingLost` |

The bounds, and why they are enough:

* Two buckets on a path (`depth` 1) are the smallest tree with a shared bucket
  and a choice of leaf. With 1 slot for 4 nodes the stash must
  hold nodes between operations, and a path is fetched that another node of the
  operation lies on. In `counted`, 7 nodes are one more than the three buckets of a
  path hold, so nodes go to the cache for every reason the code has.
* Operations of `bram`, of "oram", "seeds" and "stash", and of `threads` are not counted:
  their state spaces are finite, and complete. `bram_tree` runs one operation (`MaxOps`) from
  the states with an empty root bucket; the invariants of `bram` and the proofs cover what
  follows.
* `Versions` is 2 where a stale copy could be told from the current one; 1 where
  only the shape of the tree matters.
* `T = 2` is the smallest order (`twowfilebtree` uses it; `btree` uses 4): nodes
  have 1 to 3 keys, so all the cases of filling occur in small trees. 15 keys are the
  full tree of two levels: insertions give it a third, and inner nodes then are
  split, borrow from either side and merge. `MaxBid` bounds the identifiers: in
  `MCBTree` an insertion begins only while 4 are left (`HasBids`). Setup's tree is made of up to 513 entries,
  one more than needs a fourth level for `T = 4`.
* An AVL tree of 12 keys is the smallest in which one removal can unbalance every level
  above it; the draws of leaves matter to two adjacent nodes at a time, so 5 keys and 2
  leaves have every way a parent and a child can disagree.
* Five files with one keyword fill two blocks of two ids and begin a third, so that a
  search meets full blocks and padding. Files that come and go are bounded by
  their number; searches that move what they find, by `MaxSearches` and `MaxAccesses`: the
  second shows that what the first wrote back is what is looked for. `Junk` is an id an
  entry that is not there may decode to.

Fairness: weak fairness of every thread in `threads` (each is started with
`std::async` and nothing in it waits for another) and of the caller, which waits for the
threads and then finishes alone; weak fairness of the single thread's steps within an
operation in `setups` and `orams`, whose loops have exits that depend on
several variables. Nobody need ever insert or search. The other components have one thread
and loops over a bounded counter: no liveness is stated. Deadlock is checked in `bram`; the
others may stop (the bound on operations, an exception, a setup that is over), as their
configurations say.

Each property has a mutant of the code that breaks it: definitions named
`<definition>_<what is wrong>` next to the definition they alter, such as a
`start()` that keeps the list of fetched buckets, or a merge that drops the
separating key.

### Where the code disagrees with its drivers and comments

* `setup_loss`: `setupInsert` of `BRAM` writes each bucket from slot 0. When a leaf's group
  overflows to a bucket that an earlier leaf's group also reached, the earlier
  nodes are overwritten, and a search for them throws. `test_btree.cpp` searches every
  keyword right after setup. `OnlyMeetingGroupsLose` (run `setups`) says
  that this is the only way to lose a node, and `NodesPlacedOnce` that the setup of the
  other variants loses none.
* `async_null`: `FetchPath` ("Fetches blocks along a path, adding them to the cache")
  marks a bucket as read before its blocks are in the cache. A second thread that
  needs the bucket skips it and may find nothing; `asyncSearch` then
  dereferences a null pointer. `MissingBlockIsUnderway` (run `threads`)
  says that nothing else makes a block go missing, and `LocalPosIsRight` that searches
  which do not meet this lose nothing.
* `btree_empty`: removing the last key of the tree throws, where `test_btree.cpp`
  goes on to a search that should find nothing.
* `avl_server`: `rightRotate` in the tree of files of `orion` reads a child from the server,
  while its only up-to-date copy may be in the client's cache.

### Other disagreements met while modelling

The models leave these calls out, or take the copy of the code that does not have
them, and say so in their comments; no run shows them.

* `mitra/ORAM.cpp:320`: `finilize` gives new leaves up to height `floor(log2(blocks)) + 1`. An
  AVL tree within the capacity can be higher (12 keys, height 5), and then the root
  keeps an old leaf of its child. `foram` and `orion2` go up to `depth + 2`, the
  others to the height of the cache, which `AVLTree` takes.
* `orionsq/ORAM.cpp:446`: `WriteNode` does not store a new node whose key is in the cache,
  where `DeleteNode` leaves the node it freed. A key removed and inserted again before that is
  written is lost.
* `foram/ORAM.cpp:242`: in a batch the path of a new node is scheduled for writing without
  having been fetched, so what it held is overwritten.
* `orionsq/Orion.cpp:214`: `search` counts with the client's counters, `insert` with the
  map's: a file inserted after a setup in batch is not found. `OrionIndex` has a
  specification for each (`StaticSpec`, `DynamicSpec`) and none for both.
* `borion/BOrion.cpp:286` and `morion/MOrion.cpp:341`: `batchSearch` counts padding among the ids it
  takes, so a file may be missed when a block with padding comes first. For `borion` the
  runs check only that nothing else is found.
* `mitra/Client.cpp:304`: the counters are written over bytes 7 to 10 of the keyword; words that
  differ only there share their addresses. The instances have keywords that differ earlier.
* `btree/Orion.cpp:217`: `remove` leaves the keyword's count as it is; a later `batchSearch` then
  returns a 0 for every entry removed, which `search` drops. `Postings` allows the zeros.
* `packorion/AVLTreef.cpp:188`: `findAndIncrement` reads four characters of the count, so
  from 10,000 on it counts from a tenth of it; `OrielIndex` has counts far below.

## 4. Proofs

| theorem | states | for all |
|---|---|---|
| `BRAMProofs!TypeCorrect` | `TypeOK` | numbers of nodes, leaves and buckets, `Z`, `pad`, `depth`, `maxHeight`, trees after setup |
| `BRAMProofs!NoDuplicates` | `OneCopy` | " |
| `BRAMProofs!NodesStayOnTheirPaths` | `OnItsPath` | " |
| `BRAMProofs!EveryBucketIsWrittenBack` | `PendingIsScheduled` | " |
| `BRAMProofs!NothingElseIsOverwritten` | `OnlyFetchedIsScheduled` | " |
| `BRAMProofs!ContentIsKept` | `FinalizeKeepsContent` | " |
| `BRAMProofs!LeavesRecordedAreRight` | `PositionMap` | " |
| `BRAMProofs!NoReadThrows` | `ReadsSucceed` | " |
| `BRAMProofs!BehavesAsTree` | `NodeTreeSpec`: `BRAM` implements `NodeTree` | " |
| `AvlORAMProofs!NoDuplicates` | `OneCopy` | bucket trees, identifiers, contents, `Z`, `MaxNodes`, padding |
| `AvlORAMProofs!ContentIsKept` | `ContentKept` | " |
| `AvlORAMProofs!NothingElseFails` | `FailsOnlyWhenFull` | " |
| `AvlORAMProofs!InsertionReturns`, `RemovalReturns` | of `AVLSteps`: a return of `insert` and of a removal keeps a subtree balanced, ordered and where its parent says | keys, leaves, trees, where the rotation reads the cache |
| `AvlORAMProofs!RereadReturns`, `RaiseReturns` | the same of what `realDelete` puts in a removed node's place | " |
| `AvlORAMProofs!FinishRecordsLeaves` | the leaves `finilize` draws and those it writes down agree | keys, leaves, trees up to `HeightBound`, draws |
| `SeedORAMProofs!SetupPlacesEveryNode` | `NodesPlacedOnce` of `CountedSetup` | bucket trees, `Z`, finite sets of nodes, draws of their leaves |
| `SeedORAMProofs!CountersAndLeavesAgree` | `SeedsAgree` | " and groups, seeds and searches |
| `ParallelSearchProofs!TypeCorrect` | `TypeOK` | numbers of threads and blocks, bucket trees, `Z` |
| `ParallelSearchProofs!BlocksStayWhereLocalPosSays` | `LocalPosIsRight` | " |
| `ParallelSearchProofs!OnlyOvertakenSearchesMiss` | `MissingBlockIsUnderway` | " |
| `ParallelSearchProofs!FetchedIsWrittenBack` | `FetchedIsListed` | " |
| `BTreeProofs!TypeCorrect` | `TypeOK` | orders `T`, numbers of keys and of nodes, trees after setup |
| `BTreeProofs!StaysSearchTree` | `SearchTree` | " |
| `BTreeProofs!StaysBalanced` | `Balanced` | " |
| `BTreeProofs!CallsHaveRoom` | `CallHasRoom` | " |
| `BTreeProofs!NoNodesLeak` | `NoNodeLeaks` | " |
| `BTreeProofs!BehavesAsKeyMap` | `KeyMapSpec`: `BTree` implements `KeyMap` | " |
| `BTreeProofs!BehavesAsNodeTree` | `NodeTreeSpec`: `BTree` asks of its store only `NodeTree` | " |
| `IndexProofs!EveryIndexKeepsItsPromise` | `EveryIndexSpec`: the indexes implement `SearchIndex` (but those of "btree" and "orion2"; of "borion", `NothingElseIsFound`) | keywords, files, what the files contain, ids to a block, bounds |
| `IndexProofs!TreeBehavesAsPostings` | `PostingsSpec`: `BTreeIndex` implements `Postings` | " |
| `IndexProofs!EntriesStayCurrent` | `EntriesAreCurrent` | " |
| `IndexProofs!NextKeysAreFree` | `NextKeyIsFree` | " |
| `IndexProofs!PostingsStayExact` | `PostingsExact` | " |
| `IndexProofs!StaticBehavesAsSearchIndex`, `BehavesAsSearchIndex`, `BehavesAsPostings`, `DynamicPostings`, `NextNumberIsFree`, `ListedOnce` | the same of the specifications of `OrionIndex` and `BTreeIndex` by themselves | " |
| `IndexProofs!Numbering`, `SearchIsExact` | of `Orion2Index`: `NumbersAreExact`, and that a search returns the files with the word (`FoundIsLive`) | " |
| `OrielIndexProofs!FilesMoveWithTheirCounts` | of `OrielIndex`: `FileAtItsCount`, `BlocksList` | " |
| `SetupProofs!PathsMeet` | `PathsMeetOnce` of `PathTree` | heights |
| `SetupProofs!PathTreeIsATree` | of the paths of `PathTree`, what the other theorems assume of paths | " |
| `SetupProofs!OnlyMeetingGroups` | `OnlyMeetingGroupsLose` of `SetupInsert` | bucket trees, `Z`, finite sets of nodes, draws of their leaves |
| `SetupProofs!SetupLeavesInit` | `PlacementIsInit` of `SetupInsert` | " |
| `SetupProofs!SetupMakesTheTree` | `TreeIsMade`: `HeightIsReached` and `SearchTree` of `BTreeSetup` | orders `T`, up to 1000 entries |
| `SeedORAMProofs!EveryNodeIsFound` | `StashIsRead` of `StashORAM` | as `CountersAndLeavesAgree` |

What is assumed of the constants, by the ASSUME of each module, which TLC evaluates for the
instances checked:

* `BRAM`: identifiers are natural numbers and setup's are the first of them; in setup's tree
  no node has two parents, and none has the root or itself for a child; every `OnPath(l, d)`
  is a bucket; sizes are natural numbers; `None` is neither a node nor a number. That
  is a tree as `BTree` makes it, placed as `SetupProofs!SetupLeavesInit` says. The geometry of the paths is not needed: any `OnPath` will do.
* `AvlORAM`: the same of the paths; a batch does no padding. The theorems are about
  `NewPathFetched`, that is the variants that fetch the path of a node they insert (`orion`,
  `orionsq`, `orion2`, ...) and not about `foram` and `morion` in a batch (section 3, other
  disagreements).
* `AVLSteps` (`StepsAssumption`, part of the assumption of `AVLTree`): keys and leaves are natural
  numbers and no key is 0. The theorems about rotations are about `T2From = "cache"`: with
  `"server"` they are false, as the run `avl_server` shows of `rightRotate` in `orion/AVLTreef.cpp`.
* `CountedSetup`, `SetupInsert`, `ParallelSearch`: besides, a bucket is at one level of the
  tree. `SetupProofs!PathTreeIsATree` proves both of the paths the code computes. `SetupInsert`
  has nodes to place: `endSetup` calls it for a tree with a root.
* `PathTree`: 2^(n + 1) = 2 * 2^n up to the height of the tree. It is true of powers; the provers
  have no induction to find it by.
* `ParallelSearch`: the store has room for all blocks, so `ReadFnode` is never refused.
* `SeedORAM`: the nodes are those of the groups, and `RandomSeedPath` draws leaves.
* `BTreeSetup`: `T` is at least 2; there are at most 1000 entries, as the logarithm is rounded by a table
  of the powers of e up to e^7 = 1096; and D^(h + 1) = D * D^h for h up to 8, which
  is the height such a tree can have.
* `BTree`: `T` is at least 2; a tree that setup leaves is a search tree by its labels, and filled,
  with a key in its root. `SetupProofs!SetupMakesTheTree` proves
  of the trees `BTreeSetup` makes, in its own terms, what that takes: the order of the keys, leaves at one
  depth, and filling; the run `btree` evaluates the assumption for the full tree.
* The indexes: files have sets of keywords and at least one block, and no keyword is a file.
  `PackedIndex` has finitely many keywords and files, numbered in the order its map walks them in, the
  files first (digits come before letters in a key); and no id is `Pad`. In `BTreeIndex` no file is 0, which is what the B-tree answers for a key that is not
  there.
* `MitraClient` in `MCIndexes`: no two keywords agree in their first seven letters
  (`PrefixesDiffer`). It is what `mitra` needs: the counters are written over the letters after
  them, so the addresses of two such words are the same, and their entries with them (section 3,
  other disagreements).

### BRAM: location

`OneCopy` alone is not inductive. A fetch keeps it only if the
buckets it reads are up to date (not yet fetched, or written since), and an
eviction only if the buckets it writes are out of date, that is if finalize
writes back the buckets fetched and no others: hence `PendingIsScheduled` and
`OnlyFetchedIsScheduled`. A split creates a node; that no copy of it exists is
`NewBidsAreFresh`. A fetched copy is live and on its path, which is what eviction
needs to write it at a level of the path again: `OnItsPath`. `Bookkeeping` ties
the phases of an operation to the loop counter and the view maps. `IInv` is
`TypeOK /\ Bookkeeping /\ Locations`, and `Inductive` proves it from one lemma per
action and conjunct. `FinalizeKeepsContent` is an action property: with `IInv`, the
current copy of a node is the same before and after each step of `finalize`, be it
in the cache or in a bucket, up to its leaf.

### BRAM: the recursive position map

The nodes are seen as a function `Nodes` from identifiers to current copies. Each action is
first described by what it does to that function (`UpdateTree`, `BorrowTree`, `ReadTree`, ...),
and what this does to the tree is a lemma about functions of nodes in which no action occurs
(`MapUpdate`, `MapBorrow`, ...). `TreeInv` has three parts:

* `LeavesAreKnown`. Outside the remapping loop of `finalize`, `Map`: no node has two parents,
  the root has none, and every entry is the leaf of the child. In the loop the entries
  may be wrong, but only those of the nodes remapped in the last turn, that is
  at height `level - 1`; the root's is set at the end.
* `Heights`. The heights the caller passed to `ReadBTreeNode` are those of a walk: the
  parent of a node that was read was read too, at a height greater by one. This is why a turn of
  the loop at height h finds every parent of the nodes remapped at h - 1 in the cache and up
  to date, and why it leaves no entry wrong but those of its own nodes. Splits and fills
  keep it, as siblings are read at one height; a root made by `SplitRoot` has none.
* `~failed`: with `Map`, a read follows an entry that is the node's leaf, and
  `OnItsPath` says that the path has the node.

### BRAM implements NodeTree

`BehavesAsTree` follows from the same lemmas: a step of the B-tree maps to the step
of that name, and for every other step the versions and children seen through `Nodes` are
the same (`StutterRefines`). With `BTreeProofs!BehavesAsNodeTree` this says that a
B-tree over `BRAM` is a B-tree over nodes in memory. The proofs then go up the stack of the B-tree
variants: what the B-tree asks of the store is `NodeTree`, what it gives is `KeyMap`
(`BTreeProofs`), and an index over such a map gives `Postings` (`IndexProofs`). The theorems
are about one module each; that they compose is read off the abstract modules.

### BTree

That the nodes are a search tree relates whole subtrees, and is said node by node with labels: `IsTree`
relates each node to its children and its parent only, so a step disturbs it at two or
three nodes. Everything else follows from the labels by the heights: keys of
different nodes of one height do not mix, an inner node's keys are not below another, every
node is below the root, and the recursive functions of `BTree` (`nodesUnder`, `height`, `lastKey`, ...)
have the values they should; induction is that of a least counterexample (`LeastNatural`), as
heights are numbers.

Splitting, merging and borrowing are one lemma each way: `Joins` says that two neighbours and
the key between them make one child of a third tree. Merging goes there (`MergeTree`), splitting
comes back (`SplitTree`), and borrowing goes there and comes back elsewhere.

The nodes alone are not a search tree while a removal is under way: `removeFromNonLeaf()` writes
the predecessor or successor v over the key u it removes, and v is there twice until it is
deleted from its leaf. So the invariant `IInv` has a tree `nd`, equal to `node` but for that one key, in
which u is still in its place (`CopyOf`): the walk is that of a removal of v from `nd`, and no
key of `nd` is between u and v, so that when v goes from its leaf, renaming u to v in `nd` gives a
search tree (`Replace`) that is `node`. The walk must not move or read the key overwritten: it is in a node
higher than those the calls look at (`MergeKeeps`, `BorrowPrevKeeps`, `BorrowNextKeeps`). The rest of
`IInv` says of the current call that its node is on the way to its key and has the room it
needs (`CallOK`), and when the root may be without keys (`RootOK`).

`KeyMap`'s set is the keys of `nd` without the key overwritten (`KeysetOK`), and each action is one lemma about
what it does to them (`InsertIntoLeafOK`, `DeleteInNodeOK`, ...). `NodeTree` sees the children of
the nodes only, which the same lemmas describe.

### AvlORAM

For every node of the caller `Places` says where its only up-to-date copy is, and that it is
the one the caller wants: in the cache, with no copy in a bucket that has not been read, or
in one such bucket of its path (`IsAt`). Of a freed node there is none but perhaps the cached
one marked as freed (`Gone`). `Views` says that the buckets read and not yet written are those of the
scheduled paths at the levels still to come. When an operation has failed for want of space
the caller stops, and `OneCopy` with the count of nodes is what remains.

### AVLSteps

The methods of `AVLTree` call themselves on a child and repair the node on the way back; that the
whole tree is right is induction over the depth of the call, which is out of the provers' reach. What the
theorems prove is the step of that induction: whatever the call on the child has left, if it is as the
theorem says of a call, then so is what this call returns.

What a call leaves is said with labels, as in `BTree`: `S[k]` is the set of the keys below node k.
`Tree(m, S, k)` says of every node under k that its label is made of its children's, with the smaller
keys to the left and the greater ones to the right, that its height is the one written and its subtrees
differ by one at most, that each child is where the node says (`LinkOK`: it has been read, or it is on
the leaf written next to it), and that a node is read before its children (`Known`). `Rebuilt` says of a
call on k that nodes outside `S[k]` are untouched, that no read went wrong, and that there is a `Tree` of
the same keys below the node returned, which, and k, are in the cache.

* `RemovalReturns`: the subtree a removal went into is as high as it was or one lower. Then the heavier
  child decides between the four rotations (`RotateHeavy`); a rotation of labels is `RotateTree`, what it
  does to the heights `SingleRotation` and `DoubleRotation`. The result is as high as before or one lower.
* `InsertionReturns`: `insert()` chooses by the side of the child the new key went to and not by the
  child's balance. That is the same choice only because the child has grown towards the key, and so the
  theorem carries it along: `Grown` says of a subtree that became higher that the key is on its higher
  side. After a rotation the subtree is as high as before the insertion.
* `RereadReturns`: a rotation exchanges the leaves of two nodes (`pos` is passed by reference), and the
  caller of a removal then reads the new top with the leaf of the old one. It is found since both are in
  the cache; the read leaves the top on that leaf, where the parent has it.
* `FinishRecordsLeaves`: `finilize()` draws height by height. A child is lower than its parent, so it
  has its new leaf when the parent copies it (`RemappedBefore`), if the parent is copied at all: that is
  `Known`, and that no node is higher than `HeightBound`. Afterwards nothing is read, and `Tree` holds
  again with every link a leaf (`NextMem`), as the next operation expects it.

### PathTree and SetupInsert

The code walks from the leaf of a path up, halving a heap index. `ClimbEndsAt` says where the
walk is after any number of halvings, as a quotient by a power of two, and the rest is arithmetic of
quotients: levels do not overlap (`LevelOfBucket`), and two leaves with one bucket at a level have
the same quotient there and so at every level above (`PathsShareUpwards`).

In `SetupInsert` the level a node is written at is the depth less the number of groups of `Z` nodes of
its leaf before it (`Level`), and its place the bucket of its path there (`Home`). The invariant `GInv`
says that the nodes not yet written are in no bucket, and that one written is in its home or nowhere, and
then some node of a leaf further right has the same home (`GWritten`): later is further right
because the nodes are sorted. `GControl` counts the nodes of the leaf being placed, which
gives the level the loop has reached. `PlacementIsInit` follows as `SetupPlacement` counts a node's
level the same way, written otherwise (`LevelsAgree`).

### BTreeSetup

The full tree of height h holds D^(h + 1) - 1 keys, and `createGroups()` cuts that many into groups of D^h,
the last one key short (`ManyGroups`): without its last key each is again the
input of a full tree, of height h - 1 (`GroupInputs`). So the invariant `MakingInv` gives each identifier
handed out a label, the height of its node and the number before the first key under it; the calls to make
have the input of their labels (`CallIs`), the nodes made have the keys and children of theirs (`NodeIs`),
and every identifier has a call or a node. No recursion is in it, as a node is related to its children
only. At the end the recursive `keysUnder` is, by the least height at which it fails, the range of keys
of the label (`KeysUnderAre`), and the keys of a node lie between those of its children. That the height
setup computes is the least one takes the bounds of the rounded logarithm (`Logarithm`,
`LogQuotient`): it is off by one at most, and the code tries the one below first (`HeightIsLeast`).

### CountedSetup, SeedORAM and StashORAM

Setup's invariant adds to `NodesPlacedOnce` that the buckets the inner loop has
left behind are full while the leaf has nodes to place (`BelowFull`); that the leaf just done
never comes again is sortedness. The bucket takes the least of the next index and what fits; which
nodes these are needs the least element of a set of numbers (`LeastNatural`, from the
well-foundedness of < on the natural numbers).

In a search, `Places` is as in `AvlORAM`, the leaf wanted being the one
computed from the group's counter (`LeafOf`). The counter is increased when the group is
opened, and its nodes move one by one to the leaf of the next count: `CountOf` tells those that have
moved from those that have not. That the new leaf is the old one plus one
modulo the number of leaves, for counters kept modulo that number, is `RemainderOfSum`.

`StashORAM` writes nothing back, so the leaves never change and `Places` is `StashPlaces`, with no
bucket out of date. `StashInv` adds that the stash has just the nodes with a copy in a bucket seen: a
path read a second time adds none of them again, and a node not in the stash is in the
cache or in a bucket still to be seen, on the path its read fetches.

### ParallelSearch

`BlocksAreSomewhere` says that a block which is neither in the cache nor about to be put there
is in one bucket nobody has marked, or in the buffer of a thread that has marked its bucket and is still
filling the cache from it; `Tracked` says what a thread has marked so far, and `MarkedIsListed`
that every marked bucket is on a path listed or on the part of its path some
thread has been through. A thread that arrives at `find` has marked its whole path or seen it
marked; so if its block is not in the cache, some other thread has it in its buffer. In a
`sync` search there is no other thread.

### The indexes

Each kind of index has an invariant that says of every keyword what the maps hold of it, and one lemma
for each operation. `IndexesInv` says that the invariant of the behaviour's own kind holds; what
an index promises (`Promise`) is then one lemma for each kind (`PromisedStep`): a call that adds
or removes changes the files as `SearchIndex` says, and the answer of a search is all blocks of the
files the invariant says have the keyword.

* "dynamic". `PostingsExact` says that the entries of a keyword are numbered from 1 to its counter,
  each file with the keyword has one, and `UpdtCnt` has its number. Insertion adds the next
  number; removal moves the last entry into the gap, which keeps this only because `UpdtCnt` names the
  gap, and because the entry removed is then not numbered twice. `IndexInv` adds `BlocksCounted` (the blocks
  stored of a file are those counted), which is what says that a file being inserted is not there yet.
* "orion2" removes in another way (a removed file keeps a mark instead of a number, and `LastIND`
  remembers the last file), so `CountedExact` says besides that `LastIND` is the file with the last number.
* "static". `StaticInv` says that the entries of a keyword are numbered up to its counter, the
  client's or the one in `fcnt`, and that every file present has one. A removal then finds no number in
  `UpdtCnt` and leaves the entries; a search is right all the same, because the removed file has no
  blocks.
* "btree", "blocks". Counters are never lowered, so an entry has a number already given out (`IsEntry`)
  and the next number is free. A file is inserted once and gets one number under each keyword
  (`OneNumber`); a removal takes out all the numbers of its keyword, so what is posted is what `Postings`
  keeps. The variants with file blocks remove nothing, and every file stays posted (`AllPosted`).
* "mitra". The entries of a keyword are under the current number of searches (`MitraEntries`), and a search
  moves them to the next one, erasing the old addresses. That an address is that of one keyword, one number
  of searches and one entry needs `PrefixesDiffer`. A file is at the address of its access count
  (`FileAtItsCount`), and is moved there by whichever keyword finds it.
* "packorion", "oriel", "packseed", "morion", "borion". `PackedAs` says that ids fill the
  places 1 to n of the blocks, each once, and the places after are padding. That place n is position
  `get_position(n)` of block `get_block_num(n)`, and no other number's, is arithmetic of quotients with
  the code's treatment of a remainder 0 (`PlaceOf`). The map returns the blocks in an order of its own
  (`InSomeOrder`); so the places a search reads are the same ones permuted, and the first n of those that are
  not padding are all the ids (`PackedBlocksList`). Where padding is counted (`borion`) the first n
  are among them.
* In `morion` and `borion` the order is that of a walk through the tree setup builds over the
  sorted keys of both keywords and files. The walk is a recursive function on ranges
  of positions: by the least range for which it fails, it meets each key of its range once
  (`Meets`), hence the blocks of a keyword each once.

### Only model-checked

* `SearchTree`, `Balanced` and `PositionMap` of the whole AVL tree, and that `AVLTree` implements
  `Dictionary`: its methods are RECURSIVE operators, as they call each other through the operation's
  memory, and no theorem may be about them. Proved is what they do at one node (`AVLSteps`). The walks of
  a removal that move the least node of a subtree (`balanceDel`, `Splice`) are checked only but for the
  steps they are made of.
* Everything about liveness: `EverySetupEnds` and `EverySearchEnds` rest on fairness.

## 5. Not modelled

* Encryption and serialisation: what is read is what was written.
* The other copies of the modelled classes. `AVLTree.cpp` and `AVLTreef.cpp` alone are there
  in some twenty copies of about a thousand lines each; what was found to
  differ in their control is a constant of the module or a line of section 3. The
  models therefore stand for much more code than the lines they were translated from.
* The setup methods of the AVL trees that insert one key at a time straight into the server's
  buckets (`setupinsert`, `setupsearch`, `setupReadNode`, ...): no driver reaches
  them, but for the one call of the run `avl_server`.
* Insertions and removals of the packed indexes after setup (`morion`, `borion`, `packorion`,
  `oriel`): no driver calls them.
* The capacity test of `BRAM::WriteData` (`GetEmptySize`): the counter starts at the
  number of buckets and falls only when a full node that is not cached is written,
  which the B-tree does not do. `AvlORAM` models that of the AVL variants.
* What happens after an exception: the program ends.
* Insertion without setup as far as `BRAM` goes (`maxHeight` is then
  uninitialised); `BTree` covers it as far as the B-tree goes.
* `batchSearch` of the B-tree as several walks under one `finalize`.
* `foram`'s index (a third numbering of the same entries), `mitrap` (it includes a header its
  directory does not have, and no driver builds it) and `baseline` (a scan).

## 6. Plan

Done: the ORAM core, its setup and its proofs; the B-tree, its proofs, its setup and its index; the
threaded search; the AVL tree and its ORAM; the counting setup; the seed stores; the
indexes of every variant with a driver that runs; proofs of every safety property the runs check but
those of `AVLTree`, of which the steps at one node are proved.

What would add most next:

1. `AVLTree` with its methods as steps of a walk, the calls under way on a stack, instead of RECURSIVE
   operators: `InsertionReturns` and `RemovalReturns` are then what a return keeps.
2. `foram`'s index, the last numbering of entries not modelled.

------------------------------ MODULE SeedORAM ------------------------------
(***************************************************************************)
(* The local-counter index of zorionsq: a Path ORAM without a position     *)
(* map.  The leaf of the i-th node of a group is computed from the group   *)
(* and the number of times it was searched (class Orion, RandomSeedPath),  *)
(* so the client's counter and the leaves of all the group's nodes must    *)
(* move together.  A group is a keyword and its nodes file ids (IndexORAM) *)
(* or a file and its blocks (FileORAM, the same code): a search reads one  *)
(* keyword's nodes in the first and several files' in the second, between  *)
(* one start() and one finalizeindex().                                    *)
(***************************************************************************)
EXTENDS CountedSetup

CONSTANTS
  Groups, Size,   \* Size[g]: the nodes of g, numbered from 1
  Sum,            \* Sum[g]: the sum of the characters of g
  leaves,         \* leaves RandomSeedPath gives out: not the last one
  Sessions        \* the sequences of groups a search reads

ASSUME SeedORAMAssumption ==
  /\ Nodes = UNION {{g} \X (1 .. Size[g]) : g \in Groups}
  /\ Size \in [Groups -> Nat \ {0}] /\ Sum \in [Groups -> Nat]
  /\ leaves \in Nat \ {0} /\ 0 .. leaves - 1 \subseteq Leaves
  /\ Sessions \subseteq Seq(Groups)

VARIABLES
  sc,             \* localFCNT, localACNT: searches of each group, modulo
                  \* leaves, which is all RandomSeedPath tells of them
  cntr,           \* the count of the group being read, as the search found it
  queue, next,    \* groups still to be read; the node of the first to be read
  phase, level,   \* "setup", "idle", "read", "write" and its level
  leafList,       \* paths to write back
  readviewmap, writeviewmap,    \* buckets read and written since start()
  failed          \* ReadNode returned NULL, which the caller dereferences

searchVars == <<sc, cntr, queue, next, phase, level, leafList, readviewmap, writeviewmap, failed>>
vars == <<placed, setupVars, searchVars>>

RandomSeedPath(g, cntr1, cntr2) ==
  (Sum[g] + (cntr1 + 1) * 10001 + cntr2 * 9999) % leaves

Init ==
  /\ SetupInit({[x \in Nodes |-> RandomSeedPath(x[1], 0, x[2])]}, Orders)
  /\ sc = [g \in Groups |-> 0] /\ cntr = 0 /\ queue = <<>> /\ next = 0
  /\ phase = "setup" /\ level = depth
  /\ leafList = {} /\ readviewmap = {} /\ writeviewmap = {} /\ failed = FALSE
-----------------------------------------------------------------------------
Setup == phase = "setup" /\ SetupStep /\ UNCHANGED searchVars

EndSetup ==
  /\ phase = "setup" /\ setupDone
  /\ phase' = "idle"
  /\ UNCHANGED <<placed, setupVars, sc, cntr, queue, next, level, leafList, readviewmap, writeviewmap, failed>>

\* simplebatchSearch(): start().
Start(groups) ==
  /\ phase = "idle" /\ ~failed
  /\ phase' = "read" /\ queue' = groups /\ next' = 0
  /\ readviewmap' = {} /\ writeviewmap' = {}
  /\ UNCHANGED <<placed, setupVars, sc, cntr, level, leafList, failed>>

\* Mutant: the counter is not stored.
NextCount_Same(g) == sc[g]

NextCount(g) == (sc[g] + 1) % leaves

\* The counter of the next group is taken and stored, one more.
OpenGroup ==
  /\ phase = "read" /\ queue # <<>> /\ next = 0 /\ ~failed
  /\ cntr' = sc[Head(queue)]
  /\ sc' = [sc EXCEPT ![Head(queue)] = NextCount(Head(queue))]
  /\ next' = 1
  /\ UNCHANGED <<placed, setupVars, queue, phase, level, leafList, readviewmap, writeviewmap, failed>>

\* FetchPath: buckets read for the first time add the nodes not cached yet.
Fetched(leaf, x) == {b \in Path(leaf) \ readviewmap : store[b][x] # None}
FetchPath(leaf) ==
  [x \in Nodes |-> IF cache[x] # None \/ Fetched(leaf, x) = {} THEN cache[x]
                   ELSE store[CHOOSE b \in Fetched(leaf, x) : TRUE][x]]

\* Mutant: the loop over the nodes does not advance.
Following_Same == next

Following == next + 1

NextNode ==
  IF next < Size[Head(queue)] THEN next' = Following /\ queue' = queue
                              ELSE next' = 0 /\ queue' = Tail(queue)

CachedWith(x, newLeaf) == [cache EXCEPT ![x] = newLeaf]

\* ReadNode(bid, lastLeaf, newLeaf) of a node in the cache.
ReadCached(x, newLeaf) ==
  /\ cache[x] # None
  /\ cache' = CachedWith(x, newLeaf)
  /\ NextNode
  /\ UNCHANGED <<leafList, readviewmap, failed>>

Scheduled(lastLeaf) == leafList \cup {lastLeaf}

\* The same of another: Access().
ReadFetched(x, lastLeaf, newLeaf) ==
  LET c == FetchPath(lastLeaf) IN
  /\ cache[x] = None
  /\ readviewmap' = readviewmap \cup Path(lastLeaf)
  /\ IF c[x] # None
     THEN cache' = [c EXCEPT ![x] = newLeaf] /\ leafList' = Scheduled(lastLeaf)
          /\ NextNode /\ UNCHANGED failed
     ELSE cache' = c /\ failed' = TRUE /\ UNCHANGED <<leafList, queue, next>>

ReadNode ==
  /\ phase = "read" /\ queue # <<>> /\ next > 0 /\ ~failed
  /\ LET g == Head(queue)
         newLeaf == RandomSeedPath(g, cntr + 1, next)
     IN  ReadCached(<<g, next>>, newLeaf)
         \/ ReadFetched(<<g, next>>, RandomSeedPath(g, cntr, next), newLeaf)
  /\ UNCHANGED <<store, setupVars, sc, cntr, phase, level, writeviewmap>>

\* finalizeindex(): the paths are written back level by level.
Finalize ==
  /\ phase = "read" /\ queue = <<>>
  /\ phase' = "write" /\ level' = depth
  /\ UNCHANGED <<placed, setupVars, sc, cntr, queue, next, leafList, readviewmap, writeviewmap, failed>>

ToWrite == {OnPath(l, level) : l \in leafList} \ writeviewmap
Intersecting(b) == {x \in Nodes : cache[x] # None /\ OnPath(cache[x], level) = b}

\* GetIntersectingIblocks takes Z of them, in the order of the bytes of
\* their ids, which says nothing of the groups or the numbers: any Z here.
Chosen(b) ==
  {S \in SUBSET Intersecting(b) :
     Cardinality(S) = IF Cardinality(Intersecting(b)) < Z THEN Cardinality(Intersecting(b)) ELSE Z}

Left(S) == [x \in Nodes |-> IF x \in S THEN None ELSE cache[x]]

WriteLevel ==
  /\ phase = "write" /\ level >= 0
  /\ \E S \in SUBSET UNION {Intersecting(b) : b \in ToWrite} :
       /\ \A b \in ToWrite : S \cap Intersecting(b) \in Chosen(b)
       /\ store' = [b \in Buckets |-> IF b \notin ToWrite THEN store[b]
            ELSE [x \in Nodes |-> IF x \in S \cap Intersecting(b) THEN cache[x] ELSE None]]
       /\ cache' = Left(S)
  /\ writeviewmap' = writeviewmap \cup ToWrite
  /\ level' = level - 1
  /\ UNCHANGED <<setupVars, sc, cntr, queue, next, phase, leafList, readviewmap, failed>>

EndSearch ==
  /\ phase = "write" /\ level < 0
  /\ phase' = "idle" /\ leafList' = {} /\ level' = depth /\ cntr' = 0
  /\ UNCHANGED <<placed, setupVars, sc, queue, next, readviewmap, writeviewmap, failed>>

Step == Setup \/ EndSetup \/ OpenGroup \/ ReadNode \/ Finalize \/ WriteLevel \/ EndSearch
Next == Step \/ \E groups \in Sessions : Start(groups)

\* One thread runs it all: a search that has started goes on.
Spec == Init /\ [][Next]_vars /\ WF_vars(Step)
-----------------------------------------------------------------------------
(***************************************************************************)
(* Correctness.                                                            *)
(***************************************************************************)
\* Buckets read and not written back are out of date.
Pending == IF phase \in {"read", "write"} THEN readviewmap \ writeviewmap ELSE {}
Copies(x) == CopiesOf(x) \ Pending

\* The counter whose leaf the node has: the search under way has stored the
\* group's next one, and moved its nodes up to next.
CountOf(x) ==
  IF queue # <<>> /\ Head(queue) = x[1] /\ x[2] >= next /\ next > 0
  THEN cntr ELSE sc[x[1]]

\* A search never dereferences a null node, because after any sequence of
\* searches every node is in one place that counts, the cache or an up-to-date
\* bucket, with the leaf its counter gives it, which is nowhere else to look
\* up, and in a bucket of the path to it (RandomSeedPath with sc, then with
\* sc + 1, ReadNode's two ways, WritePath).
SeedsAgree ==
  /\ ~failed
  /\ phase # "setup" =>
       \A x \in Nodes : LET leaf == RandomSeedPath(x[1], CountOf(x), x[2]) IN
         \/ cache[x] = leaf /\ Copies(x) = {}
         \/ cache[x] = None /\ \E b \in Path(leaf) : Copies(x) = {b} /\ store[b][x] = leaf

\* A search that has started comes to its end.
SearchesEnd == phase = "read" ~> phase = "idle"
=============================================================================

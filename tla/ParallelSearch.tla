--------------------------- MODULE ParallelSearch ---------------------------
(***************************************************************************)
(* The file store of parallelORAM: blocks of files in a Path ORAM (class   *)
(* FileORAM), inserted a file at a time and read by a search, either one   *)
(* after the other (syncSearch) or by one thread per block (asyncSearch).  *)
(* The threads share the cache and the lists of buckets fetched and of     *)
(* leaves to write back, and run FileORAM::ReadFnode; then the caller      *)
(* draws new leaves and writes the paths back alone.                       *)
(*                                                                         *)
(* A step of a thread is one access to the shared data, taken as atomic.   *)
(* Some of the accesses are made without the mutex, so the code can do     *)
(* worse than what is found here, not better.                              *)
(***************************************************************************)
EXTENDS Integers, FiniteSets

CONSTANTS Blocks,          \* blocks of files; each is searched by a thread
          Kinds,           \* kinds of searches made: "sync", "async"
          Leaves, Buckets, depth,
          OnPath(_, _),    \* GetFnodeOnPath
          Z,               \* blocks in a bucket
          None             \* an absent entry

ASSUME ParallelAssumption ==
  /\ Blocks \subseteq Nat /\ Leaves \subseteq Nat /\ depth \in Nat /\ Z \in Nat \ {0}
  /\ None \notin Leaves
  /\ \A l \in Leaves, d \in 0 .. depth : OnPath(l, d) \in Buckets
  /\ \A l, m \in Leaves, h, g \in 0 .. depth : OnPath(l, h) = OnPath(m, g) => h = g
  /\ Cardinality(Blocks) <= Z * Cardinality(Buckets)     \* emptyNodes never is 0

VARIABLES
  store,         \* store[b][x]: leaf in the copy of block x in bucket b
  cache,         \* cache[x]: leaf of the client's copy
  localPos,      \* leaf of each block inserted
  leafList, readviewmap, modified,
  phase, level,  \* what the caller is doing; its loop counter
  kind,          \* kind of the search
  pc, d, buf,    \* of each thread: next step, level in FetchPath, blocks of
                 \* the bucket read that are not in the cache yet
  failed         \* a thread returned NULL, which the caller dereferences

shared == <<cache, leafList, readviewmap, modified>>
threadVars == <<pc, d, buf>>
vars == <<store, localPos, shared, phase, level, kind, threadVars, failed>>

Path(l) == {OnPath(l, h) : h \in 0 .. depth}
Empty == [x \in Blocks |-> None]

Init ==
  /\ store = [b \in Buckets |-> Empty] /\ cache = Empty /\ localPos = Empty
  /\ leafList = {} /\ readviewmap = {} /\ modified = {}
  /\ phase = "idle" /\ level = 0 /\ kind \in Kinds
  /\ pc = [t \in Blocks |-> "off"] /\ d = [t \in Blocks |-> 0]
  /\ buf = [t \in Blocks |-> {}]
  /\ failed = FALSE

\* Mutant: start() without readviewmap.clear().
Start_KeepsReadView ==
  UNCHANGED <<store, cache, localPos, leafList, readviewmap, modified, level, d, buf, failed>>

\* start(): the lists of an operation are emptied.
Start ==
  /\ readviewmap' = {}
  /\ UNCHANGED <<store, cache, localPos, leafList, modified, level, d, buf, failed>>
-----------------------------------------------------------------------------
(***************************************************************************)
(* batchInsert().                                                          *)
(***************************************************************************)
BeginInsert ==
  /\ phase = "idle" /\ ~failed
  /\ phase' = "insert"
  /\ Start
  /\ UNCHANGED <<kind, pc>>

Fetched(l) ==
  [x \in Blocks |->
     LET from == {b \in Path(l) \ readviewmap : store[b][x] # None} IN
     IF cache[x] # None \/ from = {} THEN cache[x] ELSE store[CHOOSE b \in from : TRUE][x]]

InsertBlock(x, l) ==
  /\ phase = "insert" /\ localPos[x] = None
  /\ localPos' = [localPos EXCEPT ![x] = l]
  /\ cache' = [Fetched(l) EXCEPT ![x] = l]
  /\ readviewmap' = readviewmap \cup Path(l)
  /\ leafList' = leafList \cup {l}
  /\ modified' = modified \cup {x}
  /\ UNCHANGED <<store, phase, level, kind, threadVars, failed>>
-----------------------------------------------------------------------------
(***************************************************************************)
(* The threads of a search.  pc[t] goes through "ready" (ReadFnode called),*)
(* "visit" and "fill" (FetchPath), "find", "put" and "list" (Access).      *)
(***************************************************************************)
BeginSearch(S, k) ==
  /\ phase = "idle" /\ ~failed
  /\ phase' = "search" /\ kind' = k
  /\ pc' = [t \in Blocks |-> IF t \in S THEN "ready" ELSE "off"]
  /\ Start

Running(t) == pc[t] \notin {"off", "ready", "done"}
CallerUnchanged == UNCHANGED <<store, localPos, phase, level, kind>>
Goto(t, l) == pc' = [pc EXCEPT ![t] = l]

\* ReadFnode: a cached block whose path is already listed is returned.
\* (A block once in the cache stays there until its own thread erases it.)
ReadFnode(t) ==
  /\ pc[t] = "ready"
  /\ kind = "sync" => \A u \in Blocks : ~Running(u)
  /\ \/ /\ cache[t] = None \/ localPos[t] \notin leafList
        /\ Goto(t, "visit") /\ d' = [d EXCEPT ![t] = 0]
        /\ UNCHANGED modified
     \/ /\ cache[t] # None /\ localPos[t] \in leafList
        /\ modified' = modified \cup {t}
        /\ Goto(t, "done") /\ UNCHANGED d
  /\ UNCHANGED <<cache, leafList, readviewmap, buf, failed>>

Bucket(t) == OnPath(localPos[t], d[t])

\* The loop of FetchPath goes to the next level, or ends.
NextLevel(t) ==
  /\ d' = [d EXCEPT ![t] = @ + 1]
  /\ Goto(t, IF d[t] = depth THEN "find" ELSE "visit")

\* Mutant: the level is counted up only for a bucket that is read.
VisitMarked_SameLevel(t) ==
  /\ pc[t] = "visit" /\ Bucket(t) \in readviewmap
  /\ UNCHANGED <<pc, d, shared, buf, failed>>

VisitMarked(t) ==
  /\ pc[t] = "visit" /\ Bucket(t) \in readviewmap
  /\ NextLevel(t)
  /\ UNCHANGED <<shared, buf, failed>>

VisitUnmarked(t) ==
  /\ pc[t] = "visit" /\ Bucket(t) \notin readviewmap
  /\ Goto(t, "mark")
  /\ UNCHANGED <<shared, d, buf, failed>>

\* The bucket is marked as read, and read.  (No thread writes to the server,
\* so when it is read does not matter.)
Mark(t) ==
  /\ pc[t] = "mark"
  /\ readviewmap' = readviewmap \cup {Bucket(t)}
  /\ buf' = [buf EXCEPT ![t] = {x \in Blocks : store[Bucket(t)][x] # None}]
  /\ Goto(t, "fill")
  /\ UNCHANGED <<cache, leafList, modified, d, failed>>

\* One block of the bucket goes to the cache unless it is there.
FillBlock(t, x) ==
  /\ pc[t] = "fill" /\ x \in buf[t]
  /\ cache' = [cache EXCEPT ![x] = IF @ = None THEN store[Bucket(t)][x] ELSE @]
  /\ buf' = [buf EXCEPT ![t] = @ \ {x}]
  /\ UNCHANGED <<leafList, readviewmap, modified, pc, d, failed>>

EndFill(t) ==
  /\ pc[t] = "fill" /\ buf[t] = {}
  /\ NextLevel(t)
  /\ UNCHANGED <<shared, buf, failed>>

\* ReadData, and the erase that follows when the block is found.
Find(t) ==
  /\ pc[t] = "find"
  /\ \/ cache[t] # None /\ cache' = [cache EXCEPT ![t] = None] /\ Goto(t, "put") /\ UNCHANGED failed
     \/ cache[t] = None /\ failed' = TRUE /\ UNCHANGED <<cache, pc>>
  /\ UNCHANGED <<leafList, readviewmap, modified, d, buf>>

Put(t) ==
  /\ pc[t] = "put"
  /\ cache' = [cache EXCEPT ![t] = localPos[t]]
  /\ Goto(t, "list")
  /\ UNCHANGED <<leafList, readviewmap, modified, d, buf, failed>>

\* Mutant: only the first leaf is listed.
List_Skips(t) ==
  /\ pc[t] = "list"
  /\ leafList' = IF leafList = {} THEN {localPos[t]} ELSE leafList
  /\ modified' = modified \cup {t}
  /\ Goto(t, "done")
  /\ UNCHANGED <<cache, readviewmap, d, buf, failed>>

List(t) ==
  /\ pc[t] = "list"
  /\ leafList' = leafList \cup {localPos[t]}
  /\ modified' = modified \cup {t}
  /\ Goto(t, "done")
  /\ UNCHANGED <<cache, readviewmap, d, buf, failed>>

Thread(t) ==
  /\ phase = "search" /\ ~failed
  /\ \/ ReadFnode(t) \/ VisitMarked(t) \/ VisitUnmarked(t) \/ Mark(t)
     \/ \E x \in Blocks : FillBlock(t, x)
     \/ EndFill(t) \/ Find(t) \/ Put(t) \/ List(t)
  /\ CallerUnchanged
-----------------------------------------------------------------------------
(***************************************************************************)
(* finalize(), after every thread has returned.                            *)
(***************************************************************************)
Touched == {x \in modified : cache[x] # None}

\* Mutant: the new leaf is not recorded in localPos.
Remap_KeepsLocalPos(newPos) ==
  /\ phase \in {"insert", "search"} /\ ~failed
  /\ \A t \in Blocks : pc[t] \in {"off", "done"}
  /\ cache' = [x \in Blocks |-> IF x \in Touched THEN newPos[x] ELSE cache[x]]
  /\ pc' = [t \in Blocks |-> "off"]
  /\ phase' = "evict" /\ level' = depth
  /\ UNCHANGED <<store, localPos, leafList, readviewmap, modified, kind, d, buf, failed>>

Remap(newPos) ==
  /\ phase \in {"insert", "search"} /\ ~failed
  /\ \A t \in Blocks : pc[t] \in {"off", "done"}
  /\ cache' = [x \in Blocks |-> IF x \in Touched THEN newPos[x] ELSE cache[x]]
  /\ localPos' = [x \in Blocks |-> IF x \in Touched THEN newPos[x] ELSE localPos[x]]
  /\ pc' = [t \in Blocks |-> "off"]
  /\ phase' = "evict" /\ level' = depth
  /\ UNCHANGED <<store, leafList, readviewmap, modified, kind, d, buf, failed>>

\* The first Z cached blocks whose path goes through bucket b at level h.
Intersecting(b, h) == {x \in Blocks : cache[x] # None /\ OnPath(cache[x], h) = b}
GetIntersectingFblocks(b, h) ==
  {x \in Intersecting(b, h) : Cardinality({y \in Intersecting(b, h) : y < x}) < Z}

WriteLevel ==
  LET towrite == {OnPath(l, level) : l \in leafList}
      leaving == UNION {GetIntersectingFblocks(b, level) : b \in towrite}
  IN
  /\ phase = "evict" /\ level >= 0
  /\ store' = [b \in Buckets |-> IF b \notin towrite THEN store[b] ELSE
       [x \in Blocks |-> IF x \in GetIntersectingFblocks(b, level) THEN cache[x] ELSE None]]
  /\ cache' = [x \in Blocks |-> IF x \in leaving THEN None ELSE cache[x]]
  /\ level' = level - 1
  /\ UNCHANGED <<localPos, leafList, readviewmap, modified, phase, kind, threadVars, failed>>

Finish ==
  /\ phase = "evict" /\ level < 0
  /\ leafList' = {} /\ modified' = {}
  /\ phase' = "idle" /\ level' = 0
  /\ UNCHANGED <<store, cache, localPos, readviewmap, kind, threadVars, failed>>

Caller ==
  \/ \E newPos \in [Touched -> Leaves] : Remap(newPos)
  \/ WriteLevel
  \/ Finish

Inserted == {x \in Blocks : localPos[x] # None}

Next ==
  \/ BeginInsert
  \/ \E x \in Blocks, l \in Leaves : InsertBlock(x, l)
  \/ \E S \in SUBSET Inserted, k \in Kinds : BeginSearch(S, k)
  \/ \E t \in Blocks : Thread(t)
  \/ Caller

Spec == Init /\ [][Next]_vars

\* The scheduler runs every thread, and the caller goes on when they are done.
FairSpec == Spec /\ (\A t \in Blocks : WF_vars(Thread(t))) /\ WF_vars(Caller)
-----------------------------------------------------------------------------
(***************************************************************************)
(* Correctness.                                                            *)
(***************************************************************************)
TypeOK ==
  /\ store \in [Buckets -> [Blocks -> Leaves \cup {None}]]
  /\ cache \in [Blocks -> Leaves \cup {None}] /\ localPos \in [Blocks -> Leaves \cup {None}]
  /\ leafList \subseteq Leaves /\ readviewmap \subseteq Buckets /\ modified \subseteq Blocks
  /\ phase \in {"idle", "insert", "search", "evict"} /\ level \in -1 .. depth /\ kind \in Kinds
  /\ pc \in [Blocks -> {"off", "ready", "visit", "mark", "fill", "find", "put", "list", "done"}]
  /\ d \in [Blocks -> 0 .. depth + 1] /\ buf \in [Blocks -> SUBSET Blocks]
  /\ failed \in BOOLEAN

\* Whatever order the threads ran in: between operations every block inserted
\* exists once, in the cache or in a bucket of the path localPos names.
LocalPosIsRight ==
  phase = "idle" =>
    \A x \in Inserted :
      LET copies == {b \in Buckets : store[b][x] # None} IN
      \/ cache[x] = localPos[x] /\ copies = {}
      \/ /\ cache[x] = None
         /\ \E b \in Path(localPos[x]) : copies = {b} /\ store[b][x] = localPos[x]

\* "Fetches blocks along a path, adding them to the cache" (FileORAM.cpp): so
\* when FetchPath has returned, ReadData does not find a NULL.
FetchPathAddsBlocks == \A t \in Blocks : pc[t] = "find" => cache[t] # None

\* A thread that has been through its path and does not find its block has
\* been overtaken: another thread has read the block's bucket, and marked it
\* as read, but not yet put the block into the cache.  Searches one after the
\* other always find theirs.
MissingBlockIsUnderway ==
  /\ \A t \in Blocks :
       pc[t] = "find" /\ cache[t] = None => \E u \in Blocks \ {t} : t \in buf[u]
  /\ kind = "sync" => FetchPathAddsBlocks

\* The buckets the threads have fetched by the time they all are done are
\* those of the paths written back, unless the caller finds a NULL.
FetchedIsListed ==
  phase \in {"insert", "search"} /\ (\A t \in Blocks : ~Running(t) /\ pc[t] # "ready") =>
    readviewmap = UNION {Path(l) : l \in leafList}

\* Every search ends (or the caller dereferences a NULL).
EverySearchEnds == phase = "search" ~> phase = "idle" \/ failed
=============================================================================

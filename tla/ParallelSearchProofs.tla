------------------------ MODULE ParallelSearchProofs ------------------------
(***************************************************************************)
(* Proofs about ParallelSearch, for any number of threads, blocks and      *)
(* buckets: wherever the threads are, the one copy of a block the next     *)
(* operation may rely on is known.                                         *)
(***************************************************************************)
EXTENDS ParallelSearch, TLAPS

InSearch(t) == pc[t] \in {"visit", "mark", "fill", "find", "put", "list"}

\* Buckets finalize() has still to write: what they hold is out of date.
Due(h) == {b \in Buckets : \E l \in leafList, g \in 0 .. depth : g <= h /\ b = OnPath(l, g)}
Overwritten == IF phase = "evict" THEN Due(level) ELSE {}

\* Buckets that are out of date, or whose blocks are in the cache.
Seen ==
  CASE phase = "evict" -> Due(level)
    [] phase \in {"insert", "search"} -> readviewmap
    [] phase = "idle" -> {}

\* Where a thread is and what it has marked so far.
Tracked(t) ==
  /\ buf[t] # {} => pc[t] = "fill"
  /\ pc[t] # "off" => localPos[t] \in Leaves
  /\ pc[t] \in {"visit", "mark", "fill"} => d[t] <= depth
  /\ pc[t] \in {"find", "put", "list"} => d[t] = depth + 1
  /\ pc[t] = "fill" =>
       Bucket(t) \in readviewmap /\ \A x \in buf[t] : store[Bucket(t)][x] # None
  /\ InSearch(t) =>
       \A h \in 0 .. depth : h < d[t] => OnPath(localPos[t], h) \in readviewmap

ThreadsAreTracked ==
  /\ \A t \in Blocks : Tracked(t)
  /\ phase # "search" => \A t \in Blocks : pc[t] = "off"
  /\ kind = "sync" => \A t, u \in Blocks : InSearch(t) /\ InSearch(u) => t = u

\* A bucket marked as read is on a path to write back, or on the part of its
\* path some thread has been through.
MarkedIsListed ==
  /\ phase = "idle" => leafList = {}
  /\ phase = "evict" => level <= depth
  /\ \A l \in leafList : Path(l) \subseteq readviewmap
  /\ phase \in {"insert", "search"} =>
       \A b \in readviewmap :
         \/ \E l \in leafList : b \in Path(l)
         \/ \E t \in Blocks, h \in 0 .. depth :
              /\ InSearch(t) /\ b = OnPath(localPos[t], h)
              /\ h < d[t] \/ (h = d[t] /\ pc[t] = "fill")

\* What is not in the cache and not about to be put there is in one bucket
\* that nobody has read.
BlocksAreSomewhere ==
  \A x \in Blocks :
    /\ \A b \in Buckets \ Overwritten :
         store[b][x] # None => store[b][x] = localPos[x] /\ b \in Path(localPos[x])
    /\ \A b, c \in Buckets \ Overwritten : store[b][x] # None /\ store[c][x] # None => b = c
    /\ cache[x] # None => cache[x] = localPos[x]
    /\ cache[x] # None \/ pc[x] = "put" =>
         \A b \in Buckets \ Seen : store[b][x] = None
    /\ localPos[x] # None =>
         \/ cache[x] # None \/ pc[x] = "put"
         \/ \E b \in Buckets \ Seen : store[b][x] # None
         \/ \E u \in Blocks : x \in buf[u]

SearchInv == TypeOK /\ ThreadsAreTracked /\ MarkedIsListed /\ BlocksAreSomewhere
-----------------------------------------------------------------------------
LEMMA PathInBuckets == \A l \in Leaves : Path(l) \subseteq Buckets
BY ParallelAssumption DEF Path

LEMMA InitInv == Init => SearchInv
<1> SUFFICES ASSUME Init PROVE SearchInv
  OBVIOUS
<1> USE ParallelAssumption DEF Init, Empty
<1>1. TypeOK
  <2>1. 0 \in -1 .. depth /\ 0 \in 0 .. depth + 1
    OBVIOUS
  <2> QED
    BY <2>1 DEF TypeOK
<1>2. ThreadsAreTracked /\ MarkedIsListed
  BY DEF ThreadsAreTracked, Tracked, MarkedIsListed, InSearch
<1>3. BlocksAreSomewhere
  BY DEF BlocksAreSomewhere, Overwritten, Seen
<1> QED
  BY <1>1, <1>2, <1>3 DEF SearchInv

(***************************************************************************)
(* The steps of a thread.  They change neither the server nor localPos.    *)
(***************************************************************************)
LEMMA ThreadType ==
  ASSUME SearchInv, NEW t \in Blocks, Thread(t)
  PROVE  TypeOK'
<1> USE ParallelAssumption DEF SearchInv, TypeOK, shared, CallerUnchanged, Goto
<1>1. UNCHANGED <<store, localPos, phase, level, kind>> /\ depth \in Nat
  BY DEF Thread
<1>2. pc[t] # "off" => localPos[t] \in Leaves
  BY DEF ThreadsAreTracked, Tracked
<1>3. pc[t] \in {"visit", "mark", "fill"} => d[t] \in 0 .. depth /\ Bucket(t) \in Buckets
  <2>1. pc[t] \in {"visit", "mark", "fill"} => d[t] <= depth
    BY DEF ThreadsAreTracked, Tracked
  <2>2. d[t] \in 0 .. depth + 1
    OBVIOUS
  <2>3. pc[t] \in {"visit", "mark", "fill"} => d[t] \in 0 .. depth
    BY <1>1, <2>1, <2>2
  <2> QED
    BY <1>2, <2>3 DEF Bucket
<1>4. ASSUME pc[t] \in {"visit", "fill"}, NextLevel(t)
      PROVE  /\ d' \in [Blocks -> 0 .. depth + 1]
             /\ pc' \in [Blocks -> {"off", "ready", "visit", "mark", "fill", "find", "put", "list", "done"}]
  <2>1. d[t] + 1 \in 0 .. depth + 1
    BY <1>3, <1>4
  <2> QED
    BY <1>4, <2>1 DEF NextLevel
<1>5. CASE ReadFnode(t)
  <2>1. 0 \in 0 .. depth + 1
    OBVIOUS
  <2> QED
    BY <1>1, <1>5, <2>1 DEF ReadFnode
<1>6. CASE VisitMarked(t) \/ VisitUnmarked(t)
  BY <1>1, <1>4, <1>6 DEF VisitMarked, VisitUnmarked
<1>7. CASE Mark(t)
  BY <1>1, <1>3, <1>7 DEF Mark
<1>8. ASSUME NEW x \in Blocks, FillBlock(t, x) PROVE TypeOK'
  <2>1. store[Bucket(t)][x] \in Leaves \cup {None}
    BY <1>3, <1>8 DEF FillBlock
  <2> QED
    BY <1>1, <1>8, <2>1 DEF FillBlock
<1>9. CASE EndFill(t)
  BY <1>1, <1>4, <1>9 DEF EndFill
<1>10. CASE Find(t)
  BY <1>1, <1>10 DEF Find
<1>11. CASE Put(t)
  BY <1>1, <1>2, <1>11 DEF Put
<1>12. CASE List(t)
  BY <1>1, <1>2, <1>12 DEF List
<1> QED
  BY <1>5, <1>6, <1>7, <1>8, <1>9, <1>10, <1>11, <1>12 DEF Thread

LEMMA ThreadTracked ==
  ASSUME SearchInv, TypeOK', NEW t \in Blocks, Thread(t)
  PROVE  ThreadsAreTracked'
<1> USE ParallelAssumption DEF SearchInv, TypeOK, shared, CallerUnchanged, Goto, Bucket, InSearch, Tracked
<1>1. /\ phase = "search" /\ phase' = "search" /\ depth \in Nat
      /\ UNCHANGED <<store, localPos, phase, level, kind>>
  BY DEF Thread
<1>2. readviewmap \subseteq readviewmap'
  BY DEF Thread, ReadFnode, VisitMarked, VisitUnmarked, Mark, FillBlock, EndFill, Find, Put, List
\* The other threads are where they were.
<1>3. \A u \in Blocks \ {t} : pc'[u] = pc[u] /\ d'[u] = d[u] /\ buf'[u] = buf[u]
  BY DEF Thread, ReadFnode, VisitMarked, VisitUnmarked, Mark, FillBlock, EndFill, Find, Put, List, NextLevel
<1>4. ASSUME pc[t] \in {"visit", "fill"}, NextLevel(t), Bucket(t) \in readviewmap
      PROVE  /\ d'[t] = d[t] + 1 /\ pc'[t] \in {"visit", "find"}
             /\ pc'[t] = "visit" => d'[t] <= depth
             /\ pc'[t] = "find" => d'[t] = depth + 1
             /\ \A h \in 0 .. depth : h < d'[t] => OnPath(localPos[t], h) \in readviewmap
  <2>1. d[t] \in 0 .. depth
    BY <1>4 DEF ThreadsAreTracked
  <2>2. d'[t] = d[t] + 1 /\ pc'[t] = IF d[t] = depth THEN "find" ELSE "visit"
    BY <1>4 DEF NextLevel
  <2>3. ASSUME NEW h \in 0 .. depth, h < d[t] + 1
        PROVE  OnPath(localPos[t], h) \in readviewmap
    <3>1. h < d[t] \/ h = d[t]
      BY <2>1, <2>3
    <3> QED
      BY <1>4, <3>1 DEF ThreadsAreTracked
  <2> QED
    BY <2>1, <2>2, <2>3
<1>5. Tracked(t)'
  <2>1. CASE ReadFnode(t)
    <3>1. pc'[t] \in {"visit", "done"} /\ buf'[t] = {} /\ localPos'[t] \in Leaves
      BY <1>1, <2>1 DEF ReadFnode, ThreadsAreTracked
    <3>2. pc'[t] = "visit" => d'[t] = 0
      BY <2>1 DEF ReadFnode
    <3> QED
      BY <3>1, <3>2
  <2>2. CASE VisitMarked(t)
    BY <1>1, <1>4, <2>2 DEF VisitMarked, ThreadsAreTracked
  <2>3. CASE VisitUnmarked(t)
    BY <1>1, <2>3 DEF VisitUnmarked, ThreadsAreTracked
  <2>4. CASE Mark(t)
    BY <1>1, <2>4 DEF Mark, ThreadsAreTracked
  <2>5. ASSUME NEW x \in Blocks, FillBlock(t, x)
        PROVE  Tracked(t)'
    BY <1>1, <2>5 DEF FillBlock, ThreadsAreTracked
  <2>6. CASE EndFill(t)
    BY <1>1, <1>4, <2>6 DEF EndFill, ThreadsAreTracked
  <2>7. CASE Find(t)
    BY <1>1, <2>7 DEF Find, ThreadsAreTracked
  <2>8. CASE Put(t)
    BY <1>1, <2>8 DEF Put, ThreadsAreTracked
  <2>9. CASE List(t)
    BY <1>1, <2>9 DEF List, ThreadsAreTracked
  <2> QED
    BY <2>1, <2>2, <2>3, <2>4, <2>5, <2>6, <2>7, <2>8, <2>9 DEF Thread
<1>6. \A u \in Blocks : Tracked(u)'
  <2>1. ASSUME NEW u \in Blocks \ {t} PROVE Tracked(u)'
    BY <1>1, <1>2, <1>3 DEF ThreadsAreTracked
  <2> QED
    BY <1>5, <2>1
<1>7. ASSUME kind = "sync", NEW u \in Blocks, NEW v \in Blocks, InSearch(u)', InSearch(v)'
      PROVE  u = v
  <2>1. CASE ReadFnode(t)
    <3>1. \A w \in Blocks : ~InSearch(w)
      BY <1>7, <2>1 DEF ReadFnode, Running
    <3> QED
      BY <1>3, <1>7, <3>1
  <2>2. CASE ~ReadFnode(t)
    <3>1. InSearch(t)
      BY <2>2 DEF Thread, VisitMarked, VisitUnmarked, Mark, FillBlock, EndFill, Find, Put, List
    <3>2. \A w \in Blocks \ {t} : ~InSearch(w)
      BY <1>7, <3>1 DEF ThreadsAreTracked
    <3> QED
      BY <1>3, <1>7, <3>2
  <2> QED
    BY <2>1, <2>2
<1> QED
  BY <1>1, <1>6, <1>7 DEF ThreadsAreTracked
LEMMA ThreadListed ==
  ASSUME SearchInv, NEW t \in Blocks, Thread(t)
  PROVE  MarkedIsListed'
<1> USE ParallelAssumption DEF SearchInv, TypeOK, shared, CallerUnchanged, Goto, InSearch
<1>1. /\ phase = "search" /\ phase' = "search" /\ depth \in Nat
      /\ UNCHANGED <<store, localPos, phase, level, kind>>
  BY DEF Thread
<1>2. readviewmap \subseteq readviewmap' /\ leafList \subseteq leafList'
  BY DEF Thread, ReadFnode, VisitMarked, VisitUnmarked, Mark, FillBlock, EndFill, Find, Put, List
<1>3. \A u \in Blocks \ {t} : pc'[u] = pc[u] /\ d'[u] = d[u]
  BY DEF Thread, ReadFnode, VisitMarked, VisitUnmarked, Mark, FillBlock, EndFill, Find, Put, List, NextLevel
<1>4. \A l \in leafList' : Path(l) \subseteq readviewmap'
  <2>1. CASE leafList' = leafList
    BY <1>2, <2>1 DEF MarkedIsListed
  <2>2. CASE List(t)
    <3>1. leafList' = leafList \cup {localPos[t]} /\ Path(localPos[t]) \subseteq readviewmap
      BY <2>2 DEF List, Path, ThreadsAreTracked, Tracked
    <3> QED
      BY <1>2, <3>1 DEF MarkedIsListed
  <2> QED
    BY <2>1, <2>2 DEF Thread, ReadFnode, VisitMarked, VisitUnmarked, Mark, FillBlock, EndFill, Find, Put
\* What thread t has marked stays accounted for.
<1>5. ASSUME InSearch(t), NEW h \in 0 .. depth, h < d[t] \/ (h = d[t] /\ pc[t] = "fill")
      PROVE  \/ \E l \in leafList' : OnPath(localPos[t], h) \in Path(l)
             \/ InSearch(t)' /\ (h < d'[t] \/ (h = d'[t] /\ pc'[t] = "fill"))
  <2>1. CASE VisitMarked(t) \/ EndFill(t)
    BY <1>5, <2>1 DEF VisitMarked, EndFill, NextLevel
  <2>2. CASE VisitUnmarked(t) \/ Mark(t) \/ Find(t) \/ Put(t)
    BY <1>5, <2>2 DEF VisitUnmarked, Mark, Find, Put
  <2>3. ASSUME NEW x \in Blocks, FillBlock(t, x)
        PROVE  InSearch(t)' /\ (h < d'[t] \/ (h = d'[t] /\ pc'[t] = "fill"))
    BY <1>5, <2>3 DEF FillBlock
  <2>4. CASE List(t)
    BY <2>4 DEF List, Path
  <2>5. ~ReadFnode(t)
    BY <1>5 DEF ReadFnode
  <2> QED
    BY <2>1, <2>2, <2>3, <2>4, <2>5 DEF Thread
<1>6. ASSUME NEW b \in readviewmap
      PROVE  \/ \E l \in leafList' : b \in Path(l)
             \/ \E u \in Blocks, h \in 0 .. depth :
                  /\ InSearch(u)' /\ b = OnPath(localPos'[u], h)
                  /\ h < d'[u] \/ (h = d'[u] /\ pc'[u] = "fill")
  <2>1. CASE \E l \in leafList : b \in Path(l)
    BY <1>2, <2>1
  <2>2. CASE ~ \E l \in leafList : b \in Path(l)
    <3>1. PICK u \in Blocks, h \in 0 .. depth :
            /\ InSearch(u) /\ b = OnPath(localPos[u], h)
            /\ h < d[u] \/ (h = d[u] /\ pc[u] = "fill")
      BY <1>1, <2>2 DEF MarkedIsListed
    <3>2. CASE u = t
      BY <1>1, <1>5, <3>1, <3>2
    <3>3. CASE u # t
      BY <1>1, <1>3, <3>1, <3>3
    <3> QED
      BY <3>2, <3>3
  <2> QED
    BY <2>1, <2>2
<1>7. ASSUME NEW b \in readviewmap', b \notin readviewmap
      PROVE  InSearch(t)' /\ d'[t] \in 0 .. depth /\ b = OnPath(localPos'[t], d'[t]) /\ pc'[t] = "fill"
  <2>1. Mark(t)
    BY <1>7 DEF Thread, ReadFnode, VisitMarked, VisitUnmarked, FillBlock, EndFill, Find, Put, List
  <2>2. d[t] <= depth /\ d[t] \in 0 .. depth + 1
    BY <2>1 DEF Mark, ThreadsAreTracked, Tracked
  <2> QED
    BY <1>1, <1>7, <2>1, <2>2 DEF Mark, Bucket
<1> QED
  BY <1>1, <1>4, <1>6, <1>7 DEF MarkedIsListed

LEMMA ThreadBlocks ==
  ASSUME SearchInv, NEW t \in Blocks, Thread(t)
  PROVE  BlocksAreSomewhere'
<1> USE ParallelAssumption DEF SearchInv, TypeOK, shared, CallerUnchanged, Goto
<1>1. /\ phase = "search" /\ phase' = "search"
      /\ UNCHANGED <<store, localPos, phase, level, kind>>
      /\ Overwritten = {} /\ Overwritten' = {} /\ Seen = readviewmap /\ Seen' = readviewmap'
  BY DEF Thread, Overwritten, Seen
<1>2. pc[t] # "off" => localPos[t] \in Leaves
  BY DEF ThreadsAreTracked, Tracked
<1> USE DEF BlocksAreSomewhere
<1>3. CASE \/ ReadFnode(t) \/ VisitMarked(t) \/ VisitUnmarked(t) \/ EndFill(t) \/ List(t)
  <2>1. /\ UNCHANGED <<cache, readviewmap, buf>>
        /\ \A u \in Blocks : pc'[u] = "put" <=> pc[u] = "put"
    BY <1>3 DEF ReadFnode, VisitMarked, VisitUnmarked, EndFill, List, NextLevel
  <2> QED
    BY <1>1, <2>1
<1>4. CASE Mark(t)
  <2>1. /\ UNCHANGED cache /\ readviewmap' = readviewmap \cup {Bucket(t)}
        /\ buf'[t] = {x \in Blocks : store[Bucket(t)][x] # None}
        /\ \A u \in Blocks \ {t} : buf'[u] = buf[u]
        /\ \A u \in Blocks : pc'[u] = "put" <=> pc[u] = "put"
    BY <1>4 DEF Mark
  <2>2. buf[t] = {}
    BY <1>4 DEF Mark, ThreadsAreTracked, Tracked
  <2> QED
    BY <1>1, <2>1, <2>2
<1>5. ASSUME NEW x \in Blocks, FillBlock(t, x)
      PROVE  BlocksAreSomewhere'
  <2> DEFINE b == Bucket(t)
  <2>1. b \in readviewmap /\ store[b][x] # None
    BY <1>5 DEF FillBlock, ThreadsAreTracked, Tracked
  <2>2. store[b][x] = localPos[x] /\ \A c \in Buckets \ readviewmap : store[c][x] = None
    BY <1>1, <2>1
  <2>3. /\ cache' = [cache EXCEPT ![x] = IF @ = None THEN store[b][x] ELSE @]
        /\ buf' = [buf EXCEPT ![t] = @ \ {x}]
        /\ UNCHANGED <<readviewmap, pc>>
    BY <1>5 DEF FillBlock
  <2> HIDE DEF b
  <2>4. cache'[x] # None /\ cache'[x] = localPos[x]
    BY <2>1, <2>2, <2>3
  <2>5. \A y \in Blocks \ {x} : cache'[y] = cache[y] /\ \A u \in Blocks : y \in buf'[u] <=> y \in buf[u]
    BY <2>3
  <2> QED
    BY <1>1, <2>2, <2>3, <2>4, <2>5
<1>6. CASE Find(t)
  <2>1. CASE cache[t] # None
    <3>1. /\ cache'[t] = None /\ pc'[t] = "put" /\ UNCHANGED <<buf, readviewmap>>
          /\ \A u \in Blocks \ {t} : cache'[u] = cache[u] /\ pc'[u] = pc[u]
      BY <1>6, <2>1 DEF Find
    <3> QED
      BY <1>1, <2>1, <3>1
  <2>2. CASE cache[t] = None
    <3>1. UNCHANGED <<cache, pc, buf, readviewmap>>
      BY <1>6, <2>2 DEF Find
    <3> QED
      BY <1>1, <3>1
  <2> QED
    BY <2>1, <2>2
<1>7. CASE Put(t)
  <2>1. /\ pc[t] = "put" /\ cache'[t] = localPos[t] /\ pc'[t] = "list" /\ UNCHANGED <<buf, readviewmap>>
        /\ \A u \in Blocks \ {t} : cache'[u] = cache[u] /\ pc'[u] = pc[u]
    BY <1>7 DEF Put
  <2> QED
    BY <1>1, <1>2, <2>1
<1> QED
  BY <1>3, <1>4, <1>5, <1>6, <1>7 DEF Thread
-----------------------------------------------------------------------------
(***************************************************************************)
(* The steps of the caller.                                                *)
(***************************************************************************)
LEMMA BeginInv ==
  ASSUME SearchInv,
         BeginInsert \/ \E S \in SUBSET Inserted, k \in Kinds : BeginSearch(S, k)
  PROVE  SearchInv'
<1> USE DEF SearchInv, TypeOK
<1>1. /\ phase = "idle" /\ phase' \in {"insert", "search"} /\ readviewmap' = {}
      /\ UNCHANGED <<store, cache, localPos, leafList, modified, level, d, buf, failed>>
  BY DEF BeginInsert, BeginSearch, Start
<1>2. /\ \A t \in Blocks : pc[t] = "off" /\ buf[t] = {} /\ pc'[t] \in {"off", "ready"}
      /\ phase' = "insert" => \A t \in Blocks : pc'[t] = "off"
  BY <1>1 DEF BeginInsert, BeginSearch, ThreadsAreTracked, Tracked
<1>3. \A t \in Blocks : pc'[t] = "ready" => localPos[t] \in Leaves
  BY <1>2 DEF BeginInsert, BeginSearch, Inserted
<1>4. TypeOK'
  <2>1. kind' \in Kinds /\ pc' \in [Blocks -> {"off", "ready", "visit", "mark", "fill", "find", "put", "list", "done"}]
    BY DEF BeginInsert, BeginSearch
  <2> QED
    BY <1>1, <2>1
<1>5. ThreadsAreTracked' /\ MarkedIsListed'
  BY <1>1, <1>2, <1>3 DEF ThreadsAreTracked, Tracked, InSearch, MarkedIsListed
<1>6. BlocksAreSomewhere'
  <2>1. Overwritten = {} /\ Overwritten' = {} /\ Seen = {} /\ Seen' = {}
    BY <1>1 DEF Overwritten, Seen
  <2> QED
    BY <1>1, <1>2, <2>1 DEF BlocksAreSomewhere
<1> QED
  BY <1>4, <1>5, <1>6

LEMMA InsertInv ==
  ASSUME SearchInv, NEW x \in Blocks, NEW l \in Leaves, InsertBlock(x, l)
  PROVE  SearchInv'
<1> USE ParallelAssumption DEF SearchInv, TypeOK, threadVars
<1>1. /\ phase = "insert" /\ UNCHANGED <<store, phase, level, kind, pc, d, buf, failed>>
      /\ Overwritten = {} /\ Overwritten' = {} /\ Seen = readviewmap /\ Seen' = readviewmap'
      /\ readviewmap' = readviewmap \cup Path(l) /\ leafList' = leafList \cup {l}
      /\ localPos' = [localPos EXCEPT ![x] = l] /\ cache' = [Fetched(l) EXCEPT ![x] = l]
  BY DEF InsertBlock, Overwritten, Seen
<1>2. \A t \in Blocks : pc[t] = "off" /\ buf[t] = {}
  BY <1>1 DEF ThreadsAreTracked, Tracked
<1> USE DEF BlocksAreSomewhere
<1>3. ASSUME NEW y \in Blocks
      PROVE  /\ Fetched(l)[y] \in Leaves \cup {None}
             /\ Fetched(l)[y] # None => Fetched(l)[y] = localPos[y] /\ \A b \in Buckets \ readviewmap' : store[b][y] = None
             /\ cache[y] # None => Fetched(l)[y] # None
             /\ \A b \in Buckets \ readviewmap : store[b][y] # None => b \notin readviewmap' \/ Fetched(l)[y] # None
  <2> DEFINE from == {b \in Path(l) \ readviewmap : store[b][y] # None}
  <2>1. from \subseteq Buckets \ readviewmap
    BY PathInBuckets
  <2>2. Fetched(l)[y] = IF cache[y] # None \/ from = {} THEN cache[y] ELSE store[CHOOSE b \in from : TRUE][y]
    BY DEF Fetched
  <2>3. from # {} => (CHOOSE b \in from : TRUE) \in from
    OBVIOUS
  <2>4. CASE cache[y] # None \/ from = {}
    BY <1>1, <2>2, <2>4
  <2>5. CASE cache[y] = None /\ from # {}
    <3>1. PICK c \in from : Fetched(l)[y] = store[c][y]
      BY <2>2, <2>3, <2>5
    <3>2. c \in Buckets \ readviewmap /\ c \in readviewmap' /\ store[c][y] # None
      BY <1>1, <2>1, <3>1
    <3> QED
      BY <1>1, <2>5, <3>1, <3>2
  <2> QED
    BY <2>4, <2>5
<1>4. localPos[x] = None /\ cache[x] = None /\ \A b \in Buckets : store[b][x] = None
  <2>1. localPos[x] = None
    BY DEF InsertBlock
  <2>2. \A b \in Buckets : store[b][x] # None => store[b][x] = localPos[x]
    BY <1>1
  <2> QED
    BY <2>1, <2>2
<1>5. cache'[x] = l /\ localPos'[x] = l /\ l # None
      /\ \A y \in Blocks \ {x} : cache'[y] = Fetched(l)[y] /\ localPos'[y] = localPos[y]
  BY <1>1 DEF Fetched
<1>6. TypeOK'
  <2>1. cache' \in [Blocks -> Leaves \cup {None}]
    <3>1. Fetched(l) \in [Blocks -> Leaves \cup {None}]
      BY <1>3 DEF Fetched
    <3> QED
      BY <1>1, <3>1
  <2>2. readviewmap' \subseteq Buckets /\ modified' \subseteq Blocks
    BY <1>1, PathInBuckets DEF InsertBlock
  <2> QED
    BY <1>1, <2>1, <2>2
<1>7. ThreadsAreTracked'
  BY <1>1, <1>2 DEF ThreadsAreTracked, Tracked, InSearch
<1>8. MarkedIsListed'
  BY <1>1, <1>2 DEF MarkedIsListed, InSearch
<1>9. ASSUME NEW y \in Blocks
      PROVE  /\ \A b \in Buckets : store[b][y] # None => store[b][y] = localPos'[y] /\ b \in Path(localPos'[y])
             /\ cache'[y] # None => cache'[y] = localPos'[y] /\ \A b \in Buckets \ readviewmap' : store[b][y] = None
             /\ localPos'[y] # None => cache'[y] # None \/ \E b \in Buckets \ readviewmap' : store[b][y] # None
  <2>1. CASE y = x
    BY <1>4, <1>5, <2>1
  <2>2. CASE y # x
    <3>1. cache'[y] = Fetched(l)[y] /\ localPos'[y] = localPos[y]
      BY <1>5, <2>2
    <3>2. localPos[y] # None => cache[y] # None \/ \E b \in Buckets \ readviewmap : store[b][y] # None
      BY <1>1, <1>2
    <3>3. \A b \in Buckets : store[b][y] # None => store[b][y] = localPos[y] /\ b \in Path(localPos[y])
      BY <1>1
    <3> QED
      BY <1>3, <3>1, <3>2, <3>3
  <2> QED
    BY <2>1, <2>2
<1>10. BlocksAreSomewhere'
  BY <1>1, <1>2, <1>9
<1> QED
  BY <1>6, <1>7, <1>8, <1>10

\* When no thread is running, what was fetched is what is listed.
LEMMA ListedWhenDone ==
  ASSUME SearchInv, phase \in {"insert", "search"}, \A t \in Blocks : pc[t] \in {"off", "done"}
  PROVE  readviewmap = UNION {Path(l) : l \in leafList}
BY DEF SearchInv, MarkedIsListed, InSearch

LEMMA RemapInv ==
  ASSUME SearchInv, NEW newPos \in [Touched -> Leaves], Remap(newPos)
  PROVE  SearchInv'
<1> USE ParallelAssumption DEF SearchInv, TypeOK
<1>1. /\ phase \in {"insert", "search"} /\ phase' = "evict" /\ level' = depth
      /\ UNCHANGED <<store, leafList, readviewmap, modified, kind, d, buf, failed>>
      /\ \A t \in Blocks : pc[t] \in {"off", "done"} /\ pc'[t] = "off"
      /\ pc' \in [Blocks -> {"off"}]
  BY DEF Remap
<1>2. \A t \in Blocks : buf[t] = {} /\ buf'[t] = {}
  BY <1>1 DEF ThreadsAreTracked, Tracked
<1>3. ASSUME NEW x \in Blocks
      PROVE  /\ cache'[x] = IF x \in Touched THEN newPos[x] ELSE cache[x]
             /\ localPos'[x] = IF x \in Touched THEN newPos[x] ELSE localPos[x]
             /\ x \in Touched => newPos[x] \in Leaves /\ cache[x] # None
             /\ cache'[x] \in Leaves \cup {None} /\ localPos'[x] \in Leaves \cup {None}
  BY DEF Remap, Touched
<1>4. TypeOK'
  <2>1. cache' \in [Blocks -> Leaves \cup {None}] /\ localPos' \in [Blocks -> Leaves \cup {None}]
    BY <1>3 DEF Remap
  <2>2. level' \in -1 .. depth
    BY <1>1
  <2> QED
    BY <1>1, <2>1, <2>2
<1>5. ThreadsAreTracked' /\ MarkedIsListed'
  <2>1. \A t \in Blocks : ~InSearch(t)'
    BY <1>1 DEF InSearch
  <2> QED
    BY <1>1, <1>2, <2>1 DEF ThreadsAreTracked, Tracked, MarkedIsListed
<1>6. Overwritten = {} /\ Seen = readviewmap /\ Overwritten' = readviewmap /\ Seen' = readviewmap
  <2>1. readviewmap = UNION {Path(l) : l \in leafList}
    BY <1>1, ListedWhenDone
  <2>2. Due(level)' = readviewmap
    BY <1>1, <2>1 DEF Due, Path
  <2> QED
    BY <1>1, <2>2 DEF Overwritten, Seen
<1>7. BlocksAreSomewhere'
  <2> USE DEF BlocksAreSomewhere
  <2>1. ASSUME NEW x \in Blocks, x \in Touched
        PROVE  cache'[x] # None /\ cache'[x] = localPos'[x] /\ \A b \in Buckets \ readviewmap : store[b][x] = None
    BY <1>3, <1>6, <2>1
  <2>2. ASSUME NEW x \in Blocks, x \notin Touched
        PROVE  cache'[x] = cache[x] /\ localPos'[x] = localPos[x]
    BY <1>3, <2>2
  <2> QED
    BY <1>1, <1>2, <1>6, <2>1, <2>2
<1> QED
  BY <1>4, <1>5, <1>7

LEMMA WriteLevelInv ==
  ASSUME SearchInv, WriteLevel
  PROVE  SearchInv'
<1> USE ParallelAssumption DEF SearchInv, TypeOK, threadVars
<1> DEFINE W == {OnPath(l, level) : l \in leafList}
           Sent(b) == GetIntersectingFblocks(b, level)
           leaving == UNION {Sent(b) : b \in W}
<1>1. /\ phase = "evict" /\ level \in 0 .. depth /\ level' = level - 1
      /\ UNCHANGED <<localPos, leafList, readviewmap, modified, phase, kind, pc, d, buf, failed>>
      /\ store' = [b \in Buckets |-> IF b \notin W THEN store[b] ELSE
                     [x \in Blocks |-> IF x \in Sent(b) THEN cache[x] ELSE None]]
      /\ cache' = [x \in Blocks |-> IF x \in leaving THEN None ELSE cache[x]]
  BY DEF WriteLevel, MarkedIsListed
<1>2. \A t \in Blocks : pc[t] = "off" /\ buf[t] = {}
  BY <1>1 DEF ThreadsAreTracked, Tracked
<1>3. \A b : \A x \in Sent(b) : x \in Blocks /\ cache[x] # None /\ OnPath(cache[x], level) = b
  BY DEF GetIntersectingFblocks, Intersecting
<1>4. W \subseteq Buckets
  BY <1>1
<1> DEFINE D == Due(level)
           E == Due(level)'
<1>5. /\ Overwritten = D /\ Seen = D /\ Overwritten' = E /\ Seen' = E
  BY <1>1 DEF Overwritten, Seen
<1>6. D = E \cup W /\ E \cap W = {}
  <2>1. W \subseteq D
    BY <1>1, <1>4 DEF Due
  <2>2. E \subseteq D
    BY <1>1 DEF Due
  <2>3. D \subseteq E \cup W
    <3> SUFFICES ASSUME NEW b \in D, b \notin W PROVE b \in E
      OBVIOUS
    <3>1. PICK l \in leafList, g \in 0 .. depth : g <= level /\ b = OnPath(l, g)
      BY DEF Due
    <3>2. g # level
      BY <3>1
    <3>3. g <= level - 1
      <4>1. g \in Int /\ level \in Int /\ g <= level
        BY <3>1
      <4> QED
        BY <3>2, <4>1
    <3> QED
      BY <1>1, <3>1, <3>3 DEF Due
  <2>4. E \cap W = {}
    <3> SUFFICES ASSUME NEW b \in E, b \in W PROVE FALSE
      OBVIOUS
    <3>1. PICK l \in leafList, g \in 0 .. depth : g <= level - 1 /\ b = OnPath(l, g)
      BY <1>1 DEF Due
    <3>2. PICK m \in leafList : b = OnPath(m, level)
      OBVIOUS
    <3>3. g = level
      BY <1>1, <3>1, <3>2
    <3> QED
      BY <1>1, <3>1, <3>3
  <2> QED
    BY <2>1, <2>2, <2>3, <2>4
<1> HIDE DEF D, E, W, Sent
<1>7. TypeOK'
  <2>1. store' \in [Buckets -> [Blocks -> Leaves \cup {None}]]
    BY <1>1
  <2>2. cache' \in [Blocks -> Leaves \cup {None}] /\ level' \in -1 .. depth
    BY <1>1
  <2> QED
    BY <1>1, <2>1, <2>2
<1>8. ThreadsAreTracked' /\ MarkedIsListed'
  BY <1>1, <1>2 DEF ThreadsAreTracked, Tracked, MarkedIsListed, InSearch
<1>9. BlocksAreSomewhere'
  <2> USE DEF BlocksAreSomewhere
  <2>1. ASSUME NEW x \in Blocks, NEW b \in Buckets \ E
        PROVE  \/ b \in W /\ x \in Sent(b) /\ store'[b][x] = cache[x]
               \/ b \in W /\ x \notin Sent(b) /\ store'[b][x] = None
               \/ b \notin D /\ store'[b][x] = store[b][x]
    BY <1>1, <1>6
  <2>2. ASSUME NEW x \in Blocks
        PROVE  /\ x \in leaving <=> \E b \in W : x \in Sent(b)
               /\ cache'[x] = IF x \in leaving THEN None ELSE cache[x]
               /\ cache[x] # None => cache[x] = localPos[x] /\ \A b \in Buckets \ D : store[b][x] = None
    BY <1>1, <1>5
  <2>3. ASSUME NEW x \in Blocks, NEW b \in Buckets \ E, store'[b][x] # None
        PROVE  store'[b][x] = localPos[x] /\ b \in Path(localPos[x])
    <3>1. CASE b \in W
      BY <1>1, <1>3, <2>1, <2>2, <2>3, <3>1, <1>6 DEF Path
    <3>2. CASE b \notin W
      BY <1>5, <2>1, <2>3, <3>2
    <3> QED
      BY <3>1, <3>2
  <2>4. ASSUME NEW x \in Blocks, NEW b \in Buckets \ E, NEW c \in Buckets \ E,
               store'[b][x] # None, store'[c][x] # None
        PROVE  b = c
    BY <1>3, <1>5, <2>1, <2>2, <2>4
  <2>5. ASSUME NEW x \in Blocks, cache'[x] # None
        PROVE  cache'[x] = localPos[x] /\ \A b \in Buckets \ E : store'[b][x] = None
    BY <2>1, <2>2, <2>5
  <2>6. ASSUME NEW x \in Blocks, localPos[x] # None
        PROVE  cache'[x] # None \/ \E b \in Buckets \ E : store'[b][x] # None
    <3>1. CASE x \in leaving
      <4>1. PICK b \in W : x \in Sent(b)
        BY <2>2, <3>1
      <4>2. b \in Buckets \ E /\ store'[b][x] # None
        BY <1>1, <1>3, <1>4, <1>6, <4>1
      <4> QED
        BY <4>2
    <3>2. CASE x \notin leaving
      <4>1. cache[x] # None \/ \E b \in Buckets \ D : store[b][x] # None
        BY <1>2, <1>5, <2>6
      <4>2. \A b \in Buckets \ D : b \notin E /\ store'[b][x] = store[b][x]
        BY <1>1, <1>6
      <4> QED
        BY <2>2, <3>2, <4>1, <4>2
    <3> QED
      BY <3>1, <3>2
  <2> QED
    BY <1>1, <1>2, <1>5, <2>3, <2>4, <2>5, <2>6
<1> QED
  BY <1>7, <1>8, <1>9

LEMMA FinishInv ==
  ASSUME SearchInv, Finish
  PROVE  SearchInv'
<1> USE ParallelAssumption DEF SearchInv, TypeOK, threadVars
<1>1. /\ phase = "evict" /\ phase' = "idle" /\ level < 0 /\ level' = 0 /\ leafList' = {} /\ modified' = {}
      /\ UNCHANGED <<store, cache, localPos, readviewmap, kind, pc, d, buf, failed>>
  BY DEF Finish
<1>2. Due(level) = {}
  BY <1>1 DEF Due
<1>3. Overwritten = {} /\ Seen = {} /\ Overwritten' = {} /\ Seen' = {}
  BY <1>1, <1>2 DEF Overwritten, Seen
<1>4. TypeOK' /\ BlocksAreSomewhere'
  BY <1>1, <1>3 DEF BlocksAreSomewhere
<1>5. ThreadsAreTracked' /\ MarkedIsListed'
  BY <1>1 DEF ThreadsAreTracked, Tracked, MarkedIsListed, InSearch, Bucket
<1> QED
  BY <1>4, <1>5
-----------------------------------------------------------------------------
LEMMA Inductive == Spec => []SearchInv
<1>1. SearchInv /\ [Next]_vars => SearchInv'
  <2> SUFFICES ASSUME SearchInv, [Next]_vars PROVE SearchInv'
    OBVIOUS
  <2>1. CASE BeginInsert \/ \E S \in SUBSET Inserted, k \in Kinds : BeginSearch(S, k)
    BY <2>1, BeginInv
  <2>2. CASE \E x \in Blocks, l \in Leaves : InsertBlock(x, l)
    BY <2>2, InsertInv
  <2>3. CASE \E t \in Blocks : Thread(t)
    BY <2>3, ThreadType, ThreadTracked, ThreadListed, ThreadBlocks DEF SearchInv
  <2>4. CASE Caller
    BY <2>4, RemapInv, WriteLevelInv, FinishInv DEF Caller
  <2>5. CASE UNCHANGED vars
    BY <2>5 DEF vars, shared, threadVars, SearchInv, TypeOK, ThreadsAreTracked, Tracked, InSearch, Bucket,
                MarkedIsListed, BlocksAreSomewhere, Overwritten, Seen, Due
  <2> QED
    BY <2>1, <2>2, <2>3, <2>4, <2>5 DEF Next
<1> QED
  BY <1>1, InitInv, PTL DEF Spec

\* Every variable keeps its type, however the threads interleave.
THEOREM TypeCorrect == Spec => []TypeOK
BY Inductive, PTL DEF SearchInv

\* Once an operation is over, each block is where localPos says and nowhere
\* else, whatever order the threads read buckets and filled the cache in
\* (FetchPath, ReadFnode, finalize).
THEOREM BlocksStayWhereLocalPosSays == Spec => []LocalPosIsRight
<1>1. SearchInv => LocalPosIsRight
  <2> SUFFICES ASSUME SearchInv, phase = "idle", NEW x \in Inserted
               PROVE  LET copies == {b \in Buckets : store[b][x] # None} IN
                      \/ cache[x] = localPos[x] /\ copies = {}
                      \/ /\ cache[x] = None
                         /\ \E b \in Path(localPos[x]) : copies = {b} /\ store[b][x] = localPos[x]
    BY DEF LocalPosIsRight
  <2>1. /\ x \in Blocks /\ localPos[x] # None /\ pc[x] # "put"
        /\ Overwritten = {} /\ Seen = {} /\ \A u \in Blocks : x \notin buf[u]
    BY DEF SearchInv, ThreadsAreTracked, Tracked, Inserted, Overwritten, Seen
  <2> QED
    BY <2>1 DEF SearchInv, BlocksAreSomewhere
<1> QED
  BY <1>1, Inductive, PTL

\* A search that ends without its block was overtaken by a thread that has
\* the block in hand; that cannot happen to searches one after the other
\* (syncSearch, asyncSearch).
THEOREM OnlyOvertakenSearchesMiss == Spec => []MissingBlockIsUnderway
<1>1. ASSUME SearchInv, NEW t \in Blocks, pc[t] = "find", cache[t] = None
      PROVE  \E u \in Blocks \ {t} : t \in buf[u] /\ InSearch(u)
  <2> USE <1>1, ParallelAssumption
  <2>1. phase = "search" /\ Seen = readviewmap /\ Overwritten = {}
    BY <1>1 DEF SearchInv, ThreadsAreTracked, TypeOK, Seen, Overwritten
  <2>2. localPos[t] \in Leaves /\ d[t] = depth + 1 /\ Path(localPos[t]) \subseteq readviewmap
    BY DEF SearchInv, ThreadsAreTracked, Tracked, InSearch, Path
  <2>3. \A b \in Buckets \ readviewmap : store[b][t] = None
    <3>1. \A b \in Buckets : store[b][t] # None => b \in Path(localPos[t])
      BY <2>1 DEF SearchInv, BlocksAreSomewhere
    <3> QED
      BY <2>2, <3>1
  <2>4. PICK u \in Blocks : t \in buf[u]
    BY <2>1, <2>2, <2>3 DEF SearchInv, BlocksAreSomewhere
  <2>5. pc[u] = "fill"
    BY <2>4 DEF SearchInv, ThreadsAreTracked, Tracked
  <2> QED
    BY <2>4, <2>5 DEF InSearch
<1>2. SearchInv => MissingBlockIsUnderway
  <2> SUFFICES ASSUME SearchInv PROVE MissingBlockIsUnderway
    OBVIOUS
  <2>1. ASSUME kind = "sync", NEW t \in Blocks, pc[t] = "find"
        PROVE  cache[t] # None
    BY <1>1, <2>1 DEF SearchInv, ThreadsAreTracked, InSearch
  <2> QED
    BY <1>1, <2>1 DEF MissingBlockIsUnderway, FetchPathAddsBlocks
<1> QED
  BY <1>2, Inductive, PTL

\* When the threads have returned, finalize() writes back the buckets they
\* have fetched and no others.
THEOREM FetchedIsWrittenBack == Spec => []FetchedIsListed
<1>1. SearchInv => FetchedIsListed
  <2> SUFFICES ASSUME SearchInv, phase \in {"insert", "search"},
                      \A t \in Blocks : ~Running(t) /\ pc[t] # "ready"
               PROVE  readviewmap = UNION {Path(l) : l \in leafList}
    BY DEF FetchedIsListed
  <2>1. \A t \in Blocks : pc[t] \in {"off", "done"}
    BY DEF SearchInv, TypeOK, Running
  <2> QED
    BY <2>1, ListedWhenDone
<1> QED
  BY <1>1, Inductive, PTL
=============================================================================

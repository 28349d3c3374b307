----------------------------- MODULE BRAMProofs -----------------------------
(***************************************************************************)
(* Proofs about BRAM, for every bucket tree, every set of nodes, every     *)
(* tree built by setup and every bucket size.                              *)
(*                                                                         *)
(* The inductive invariant says, of every moment of an operation, where    *)
(* the up-to-date copy of a node can be: in the cache, or else in the only *)
(* bucket that holds it and was not fetched, on the path of its leaf; and  *)
(* that every fetched bucket is going to be written back.                  *)
(***************************************************************************)
EXTENDS BRAM, FiniteSetTheorems, TLAPS

InOp == phase \in {"insert", "remove", "pad", "remap"}

\* What the loops of finalize() and the bookkeeping of start() guarantee.
Bookkeeping ==
  /\ InOp => writeviewmap = {}
  /\ phase = "remap" => level \in 0 .. (maxHeight + 1)
  /\ phase = "evict" => level \in -1 .. depth
  /\ phase = "remove" => \A x \in modified : hstash[x] \in Int
  /\ phase = "idle" => modified = {}
  /\ phase \notin {"insert", "remove"} => ~failed

\* No copy of a node that was not created yet exists anywhere.
NewBidsAreFresh ==
  \A x \in Bids : x > nextbid =>
    cache[x] = None /\ \A b \in Buckets : store[b][x] = None

Locations ==
  /\ QuiescentWhenIdle /\ PendingIsScheduled /\ OnlyFetchedIsScheduled
  /\ OneCopy /\ OnItsPath /\ NewBidsAreFresh
IInv == TypeOK /\ Bookkeeping /\ Locations

\* OneCopy for a cache c when the buckets in seen have been fetched and none
\* was written back.
OneCopyWith(c, seen) ==
  \A x \in Bids :
    /\ c[x] # None => \A b \in Buckets \ seen : store[b][x] = None
    /\ \A b1, b2 \in Buckets \ seen :
         store[b1][x] # None /\ store[b2][x] # None => b1 = b2

CacheType == [Bids -> Node \cup {None}]

\* The nodes of cache d are nodes of cache c, or nodes no bucket holds.
NoNewCopies(c, d) ==
  \A x \in Bids :
    d[x] # None => c[x] # None \/ \A b \in Buckets : store[b][x] = None
-----------------------------------------------------------------------------
LEMMA PathInBuckets == \A l \in Leaves : Path(l) \subseteq Buckets
BY PathAssumption DEF Path

\* FetchPath returns a cache: what it adds are nodes the server holds.
LEMMA FetchPathType ==
  ASSUME TypeOK, NEW c \in CacheType, NEW seen, NEW leaf \in Leaves
  PROVE  FetchPath(c, seen, leaf) \in CacheType
<1> DEFINE source(x) == CHOOSE b \in Sources(seen, leaf, x) : TRUE
<1>1. ASSUME NEW x \in Bids, Sources(seen, leaf, x) # {}
      PROVE  store[source(x)][x] \in Node \cup {None}
  <2>1. source(x) \in Buckets
    BY <1>1, PathInBuckets DEF Sources
  <2> QED BY <2>1 DEF TypeOK
<1>2. \A x \in Bids : FetchPath(c, seen, leaf)[x] \in Node \cup {None}
  BY <1>1 DEF FetchPath, CacheType
<1> QED BY <1>2 DEF FetchPath, CacheType

\* A path fetched keeps the copies apart: what enters the cache leaves the
\* only up-to-date bucket that held it.
LEMMA FetchPathOneCopy ==
  ASSUME NEW c \in CacheType, NEW seen, NEW leaf \in Leaves,
         OneCopyWith(c, seen)
  PROVE  OneCopyWith(FetchPath(c, seen, leaf), seen \cup Path(leaf))
<1> DEFINE f == FetchPath(c, seen, leaf)
<1> SUFFICES ASSUME NEW x \in Bids, f[x] # None,
                    NEW b \in Buckets \ (seen \cup Path(leaf))
             PROVE  store[b][x] = None
  BY DEF OneCopyWith
<1>1. CASE c[x] # None
  BY <1>1 DEF OneCopyWith
<1>2. CASE c[x] = None
  <2>1. Sources(seen, leaf, x) # {}
    BY <1>2 DEF FetchPath
  <2>2. PICK s \in Path(leaf) \ seen : store[s][x] # None
    BY <2>1 DEF Sources
  <2>3. s \in Buckets \ seen /\ s # b
    BY PathInBuckets
  <2> QED BY <2>2, <2>3 DEF OneCopyWith
<1> QED BY <1>1, <1>2
-----------------------------------------------------------------------------
(***************************************************************************)
(* Types.                                                                  *)
(***************************************************************************)
LEMMA NodeOperations ==
  /\ \A n \in Node : Touch(n) \in Node
  /\ \A leaf \in Leaves : NewNode(leaf) \in Node
  /\ \A n \in Node, k \in Bids, leaf \in Leaves : SetChild(n, k, leaf) \in Node
  /\ \A n \in Node : \A C : Give(n, C) \in Node
  /\ \A n, m \in Node : \A C : Take(n, m, C) \in Node
  /\ \A n \in Node : [n EXCEPT !.live = FALSE] \in Node
<1>1. \A n \in Node : Touch(n) \in Node
  BY NumbersAssumption DEF Touch, Node
<1>2. \A leaf \in Leaves : NewNode(leaf) \in Node
  BY NumbersAssumption DEF NewNode, Node
<1>3. \A n \in Node, k \in Bids, leaf \in Leaves : SetChild(n, k, leaf) \in Node
  BY DEF SetChild, Node
<1>4. \A n \in Node : \A C : Give(n, C) \in Node
  BY DEF Give, Node
<1>5. \A n, m \in Node : \A C : Take(n, m, C) \in Node
  BY DEF Take, Node
<1>6. \A n \in Node : [n EXCEPT !.live = FALSE] \in Node
  BY DEF Node
<1> QED BY <1>1, <1>2, <1>3, <1>4, <1>5, <1>6

\* Setup numbers the nodes from 1.
LEMMA FirstBids ==
  /\ IsFiniteSet(Nodes0) /\ Cardinality(Nodes0) \in Nat
  /\ Nodes0 = 1 .. Cardinality(Nodes0)
BY InitTreeAssumption, FS_CardinalityType DEF Nodes0

LEMMA InitType == Init => TypeOK /\ Bookkeeping
<1> SUFFICES ASSUME Init PROVE TypeOK /\ Bookkeeping
  OBVIOUS
<1>1. PICK p \in [Nodes0 -> Leaves], rank \in Orders(Nodes0) :
        /\ store = [b \in Buckets |-> [x \in Bids |->
                     IF x \in Nodes0 /\ b = OnPath(p[x], SetupLevel(p, rank, x))
                     THEN SetupNode(p, x) ELSE None]]
        /\ brootPos = p[1]
  BY DEF Init
<1>2. \A x \in Nodes0 : SetupNode(p, x) \in Node
  BY InitTreeAssumption, NumbersAssumption DEF SetupNode, Node, Nodes0
<1>3. store \in [Buckets -> [Bids -> Node \cup {None}]]
  BY <1>1, <1>2
<1>4. brootKey \in Bids /\ brootPos \in Leaves
  BY <1>1, InitTreeAssumption DEF Init, Nodes0
<1>5. nextbid \in Nat
  BY FirstBids DEF Init
<1>6. level \in -1 .. (maxHeight + depth + 1)
  BY PathAssumption, NumbersAssumption DEF Init
<1> QED BY <1>3, <1>4, <1>5, <1>6 DEF Init, TypeOK, Bookkeeping, InOp

LEMMA ReadType ==
  ASSUME TypeOK, Bookkeeping, phase \in {"insert", "remove"}, ~failed,
         NEW bid \in Bids, NEW lastLeaf \in Leaves, NEW mh,
         phase = "remove" => mh \in Int,
         ReadBTreeNode(bid, lastLeaf, mh)
  PROVE  TypeOK' /\ Bookkeeping'
<1> USE DEF ReadBTreeNode, rootVars
<1>1. ASSUME Found(bid, mh)
      PROVE  /\ modified' \subseteq Bids
             /\ hstash' \in [Bids -> Int \cup {None}]
             /\ phase = "remove" => \A x \in modified' : hstash'[x] \in Int
  BY <1>1 DEF Found, TypeOK, Bookkeeping
<1>2. CASE ReadCached(bid, mh)
  BY <1>1, <1>2 DEF ReadCached, Found, TypeOK, Bookkeeping, InOp
<1>3. CASE ReadFetched(bid, lastLeaf, mh)
  <2>1. cache' \in CacheType
    BY <1>3, FetchPathType DEF ReadFetched, TypeOK, CacheType
  <2>2. readviewmap' \subseteq Buckets
    BY <1>3, PathInBuckets DEF ReadFetched, TypeOK
  <2>3. CASE Found(bid, mh) /\ leafList' = leafList \cup {lastLeaf}
    BY <1>1, <1>3, <2>1, <2>2, <2>3
       DEF ReadFetched, Found, TypeOK, Bookkeeping, InOp, CacheType
  <2>4. CASE failed' = TRUE /\ UNCHANGED <<leafList, modified, hstash>>
    BY <1>3, <2>1, <2>2, <2>4
       DEF ReadFetched, TypeOK, Bookkeeping, InOp, CacheType
  <2> QED BY <1>3, <2>3, <2>4 DEF ReadFetched
<1> QED BY <1>2, <1>3

LEMMA ClientType ==
  ASSUME TypeOK, Bookkeeping, Client
  PROVE  TypeOK' /\ Bookkeeping'
<1> USE DEF serverVars, viewVars, opVars, rootVars
<1>1. \A x \in Bids : Held(x) => cache[x] \in Node
  BY DEF Held, Cached, TypeOK
<1>2. CASE ReadRoot
  BY <1>2, ReadType, NumbersAssumption DEF ReadRoot, TypeOK
<1>3. ASSUME NEW p \in Bids, NEW c \in Bids, ReadChild(p, c)
      PROVE  TypeOK' /\ Bookkeeping'
  <2>1. cache[p].cpos[c] \in Leaves
    BY <1>1, <1>3 DEF ReadChild, Children, Node
  <2>2. phase = "remove" => ChildHeight(p) \in Int
    BY <1>3 DEF ReadChild, Held, ChildHeight, Bookkeeping
  <2> QED BY <1>3, <2>1, <2>2, ReadType DEF ReadChild
<1>4. ASSUME NEW x \in Bids, Update(x)
      PROVE  TypeOK' /\ Bookkeeping'
  <2>1. Touch(cache[x]) \in Node
    BY <1>1, <1>4, NodeOperations, PathAssumption DEF Update, TypeOK
  <2> QED BY <1>4, <2>1 DEF Update, WriteInPlace, TypeOK, Bookkeeping, InOp
<1>5. ASSUME NEW p \in Bids, NEW y \in Bids, NEW z \in Bids, NEW leaf \in Leaves,
             SplitChild(p, y, z, leaf)
      PROVE  TypeOK' /\ Bookkeeping'
  <2> DEFINE f == FetchPath(cache, readviewmap, leaf)
  <2>1. f \in CacheType
    BY FetchPathType DEF TypeOK, CacheType
  <2>2. PICK K \in SplitSets(cache[y]) :
          cache' = [f EXCEPT ![p] = Touch(SetChild(cache[p], z, leaf)),
                             ![y] = Touch(Give(cache[y], K)),
                             ![z] = Take(NewNode(leaf), cache[y], K)]
    BY <1>5 DEF SplitChild
  <2>3. /\ Touch(SetChild(cache[p], z, leaf)) \in Node
        /\ Touch(Give(cache[y], K)) \in Node
        /\ Take(NewNode(leaf), cache[y], K) \in Node
    BY <1>1, <1>5, NodeOperations DEF SplitChild
  <2>4. cache' \in CacheType
    BY <2>1, <2>2, <2>3 DEF CacheType
  <2>5. readviewmap' \subseteq Buckets
    BY <1>5, PathInBuckets DEF SplitChild, TypeOK
  <2> QED BY <1>5, <2>4, <2>5 DEF SplitChild, TypeOK, Bookkeeping, InOp, CacheType
<1>6. ASSUME NEW s \in Bids, NEW z \in Bids, NEW sleaf \in Leaves, NEW zleaf \in Leaves,
             SplitRoot(s, z, sleaf, zleaf)
      PROVE  TypeOK' /\ Bookkeeping'
  <2> DEFINE r == brootKey
             seen == readviewmap \cup Path(zleaf)
             f == FetchPath(cache, readviewmap, zleaf)
             g == FetchPath(f, seen, sleaf)
  <2>1. f \in CacheType /\ r \in Bids
    BY FetchPathType DEF TypeOK, CacheType
  <2>2. g \in CacheType
    <3> HIDE DEF f
    <3> QED BY <2>1, FetchPathType
  <2>3. PICK K \in SplitSets(cache[r]) :
          cache' = [g EXCEPT
                   ![r] = Touch(Give(cache[r], K)),
                   ![z] = Take(NewNode(zleaf), cache[r], K),
                   ![s] = SetChild(SetChild(NewNode(sleaf), r, cache[r].pos), z, zleaf)]
    BY <1>6 DEF SplitRoot
  <2>4. cache[r] \in Node /\ cache[r].pos \in Leaves
    BY <1>1, <1>6, <2>1 DEF SplitRoot, Node
  <2>5. /\ Touch(Give(cache[r], K)) \in Node
        /\ Take(NewNode(zleaf), cache[r], K) \in Node
        /\ SetChild(SetChild(NewNode(sleaf), r, cache[r].pos), z, zleaf) \in Node
    BY <2>1, <2>4, NodeOperations
  <2>6. cache' \in CacheType
    <3> HIDE DEF g
    <3> QED BY <2>2, <2>3, <2>5 DEF CacheType
  <2>7. readviewmap' \subseteq Buckets
    BY <1>6, PathInBuckets DEF SplitRoot, TypeOK
  <2>8. /\ brootKey' = s /\ brootPos' = sleaf /\ nextbid' = z /\ readCnt' = readCnt + 2
        /\ leafList' = leafList \cup {sleaf, zleaf} /\ modified' = modified \cup {r, s, z}
        /\ UNCHANGED <<store, writeviewmap, hstash, phase, level, failed>>
        /\ phase = "insert"
    BY <1>6 DEF SplitRoot
  <2> HIDE DEF r
  <2> QED BY BidsAssumption, <2>1, <2>6, <2>7, <2>8 DEF TypeOK, Bookkeeping, InOp, CacheType
<1>7. ASSUME NEW p \in Bids, NEW a \in Bids, NEW b \in Bids, Borrow(p, a, b)
      PROVE  TypeOK' /\ Bookkeeping'
  <2>1. PICK C : cache' = [cache EXCEPT ![p] = Touch(@), ![a] = Touch(Give(@, C)),
                                        ![b] = Touch(Take(@, cache[a], C))]
    BY <1>7 DEF Borrow
  <2>2. cache[p] \in Node /\ cache[a] \in Node /\ cache[b] \in Node
    BY <1>1, <1>7 DEF Borrow
  <2>3. \A n \in Node : Touch(n) \in Node /\ Touch(Give(n, C)) \in Node
                         /\ \A m \in Node : Touch(Take(n, m, C)) \in Node
    BY NodeOperations DEF TypeOK
  <2>4. cache' \in CacheType
    BY <2>1, <2>2, <2>3 DEF TypeOK, CacheType
  <2> QED BY <1>7, <2>4 DEF Borrow, WriteInPlace, TypeOK, Bookkeeping, InOp, CacheType
<1>8. ASSUME NEW p \in Bids, NEW a \in Bids, NEW b \in Bids, Merge(p, a, b)
      PROVE  TypeOK' /\ Bookkeeping'
  <2> DEFINE C == Children(cache[b])
  <2>1. cache' = [cache EXCEPT ![p] = Touch(Give(@, {b})), ![a] = Touch(Take(@, cache[b], C)),
                               ![b] = [@ EXCEPT !.live = FALSE]]
    BY <1>8 DEF Merge
  <2>2. cache[p] \in Node /\ cache[a] \in Node /\ cache[b] \in Node
    BY <1>1, <1>8 DEF Merge
  <2>3. \A n \in Node : /\ Touch(Give(n, {b})) \in Node
                         /\ [n EXCEPT !.live = FALSE] \in Node
                         /\ \A m \in Node : Touch(Take(n, m, C)) \in Node
    <3> HIDE DEF C
    <3> QED BY NodeOperations DEF TypeOK
  <2>4. cache' \in CacheType
    <3> HIDE DEF C
    <3> QED BY <2>1, <2>2, <2>3 DEF TypeOK, CacheType
  <2> QED BY <1>8, <2>4 DEF Merge, WriteInPlace, TypeOK, Bookkeeping, InOp, CacheType
<1>9. ASSUME NEW c \in Bids, CollapseRoot(c)
      PROVE  TypeOK' /\ Bookkeeping'
  <2>1. cache[brootKey] \in Node
    BY <1>1, <1>9 DEF CollapseRoot, TypeOK
  <2>2. [cache[brootKey] EXCEPT !.live = FALSE] \in Node
    BY <2>1 DEF Node
  <2>3. cache' \in CacheType
    BY <1>9, <2>2 DEF CollapseRoot, TypeOK, CacheType
  <2>4. brootPos' \in Leaves
    BY <1>9, <2>1 DEF CollapseRoot, Children, Node
  <2> QED BY <1>9, <2>3, <2>4 DEF CollapseRoot, TypeOK, Bookkeeping, InOp, CacheType
<1> QED BY <1>2, <1>3, <1>4, <1>5, <1>6, <1>7, <1>8, <1>9 DEF Client

LEMMA FinalizeType ==
  ASSUME TypeOK, Bookkeeping, Finalize \/ FinalizeStep \/ \E kind \in {"insert", "remove"} : Start(kind)
  PROVE  TypeOK' /\ Bookkeeping'
<1> USE PathAssumption, NumbersAssumption DEF viewVars, opVars, rootVars
<1>1. CASE Finalize
  BY <1>1 DEF Finalize, TypeOK, Bookkeeping, InOp
<1>2. ASSUME NEW kind \in {"insert", "remove"}, Start(kind)
      PROVE  TypeOK' /\ Bookkeeping'
  BY <1>2 DEF Start, TypeOK, Bookkeeping, InOp
<1>3. ASSUME NEW rnd \in Leaves, PadPath(rnd)
      PROVE  TypeOK' /\ Bookkeeping'
  <2>1. cache' \in CacheType
    BY <1>3, FetchPathType DEF PadPath, TypeOK, CacheType
  <2>2. readviewmap' \subseteq Buckets
    BY <1>3, PathInBuckets DEF PadPath, TypeOK
  <2> QED BY <1>3, <2>1, <2>2 DEF PadPath, TypeOK, Bookkeeping, InOp, CacheType
<1>4. CASE EndPad
  BY <1>4 DEF EndPad, TypeOK, Bookkeeping, InOp
<1>5. ASSUME NEW newPos \in [Remapped(level) -> Leaves], RemapHeight(newPos)
      PROVE  TypeOK' /\ Bookkeeping'
  <2>1. ASSUME NEW x \in Bids
        PROVE  cache'[x] \in Node \cup {None}
    <3>1. CASE x \notin Remapped(level)
      BY <1>5, <3>1 DEF RemapHeight, TypeOK
    <3>2. CASE x \in Remapped(level)
      <4>1. cache[x] \in Node
        BY <3>2 DEF Remapped, Cached, TypeOK
      <4>2. \A k \in Bids : Cached(k) => cache[k].pos \in Leaves
        BY DEF Cached, TypeOK, Node
      <4>3. newPos[x] \in Leaves
        BY <1>5, <3>2
      <4> DEFINE q == [k \in Bids |->
                  IF cache[x].cpos[k] # NoPos /\ Cached(k) THEN cache[k].pos
                                                           ELSE cache[x].cpos[k]]
      <4>4. q \in [Bids -> Leaves \cup {NoPos}]
        BY <4>1, <4>2 DEF Node
      <4>5. cache'[x] = [cache[x] EXCEPT !.pos = newPos[x], !.cpos = q]
        BY <1>5, <3>2 DEF RemapHeight
      <4> HIDE DEF q
      <4> QED BY <4>1, <4>3, <4>4, <4>5 DEF Node
    <3> QED BY <3>1, <3>2
  <2>2. cache' \in CacheType
    BY <1>5, <2>1 DEF RemapHeight, CacheType
  <2>3. /\ phase = "remap" /\ level <= maxHeight /\ level' = level + 1
        /\ UNCHANGED <<store, viewVars, opVars, rootVars, phase, failed>>
    BY <1>5 DEF RemapHeight
  <2>4. level' \in 0 .. (maxHeight + 1) /\ level' \in -1 .. (maxHeight + depth + 1)
    BY <2>3 DEF Bookkeeping
  <2> QED BY <2>2, <2>3, <2>4 DEF TypeOK, Bookkeeping, InOp, CacheType
<1>6. CASE RecordRoot
  <2>1. brootPos' \in Leaves
    BY <1>6 DEF RecordRoot, Cached, TypeOK, Node
  <2> QED BY <1>6, <2>1 DEF RecordRoot, TypeOK, Bookkeeping, InOp
<1>7. CASE WriteLevel
  <2>1. cache' \in CacheType
    BY <1>7 DEF WriteLevel, TypeOK, CacheType
  <2>2. ASSUME NEW b \in Buckets
        PROVE  store'[b] \in CacheType
    <3>1. CASE b \in ToWrite(level)
      <4>1. store'[b] = [x \in Bids |->
                IF x \in GetIntersectingBlocks(b, level) /\ cache[x].live
                THEN cache[x] ELSE None]
        BY <1>7, <3>1 DEF WriteLevel
      <4> QED BY <4>1 DEF TypeOK, CacheType
    <3>2. CASE b \notin ToWrite(level)
      BY <1>7, <3>2 DEF WriteLevel, TypeOK, CacheType
    <3> QED BY <3>1, <3>2
  <2>3. store' \in [Buckets -> CacheType]
    BY <1>7, <2>2 DEF WriteLevel
  <2>4. level \in 0 .. depth /\ level' = level - 1 /\ phase = "evict"
    BY <1>7 DEF WriteLevel, Bookkeeping
  <2>5. writeviewmap' \subseteq Buckets
    BY <1>7, <2>4 DEF WriteLevel, ToWrite, TypeOK
  <2>6. UNCHANGED <<readviewmap, readCnt, opVars, rootVars, phase, failed>>
    BY <1>7 DEF WriteLevel
  <2>7. level' \in -1 .. depth /\ level' \in -1 .. (maxHeight + depth + 1)
    BY <2>4
  <2> QED BY <2>1, <2>3, <2>4, <2>5, <2>6, <2>7 DEF TypeOK, Bookkeeping, InOp, CacheType
<1>8. CASE Finish
  BY <1>8 DEF Finish, TypeOK, Bookkeeping, InOp
<1> QED BY <1>1, <1>2, <1>3, <1>4, <1>5, <1>6, <1>7, <1>8 DEF FinalizeStep
-----------------------------------------------------------------------------
(***************************************************************************)
(* Where the copies of a node are.  While an operation runs no bucket is   *)
(* written, so its steps are all alike: they fetch paths that they also    *)
(* schedule, change nodes that are in the cache, and create nodes.         *)
(***************************************************************************)
LEMMA InOpCopies ==
  ASSUME writeviewmap = {}
  PROVE  OneCopy <=> OneCopyWith(cache, readviewmap)
BY DEF OneCopy, OneCopyWith, Holders, Current, Pending, Cached

LEMMA OneCopyKept ==
  ASSUME NEW c, NEW d, NEW seen, OneCopyWith(c, seen), NoNewCopies(c, d)
  PROVE  OneCopyWith(d, seen)
BY DEF OneCopyWith, NoNewCopies

\* FetchPath keeps what is cached and adds nodes the server holds.
LEMMA FetchPathSource ==
  ASSUME NEW c \in CacheType, NEW seen, NEW leaf \in Leaves, NEW x \in Bids
  PROVE  /\ c[x] # None => FetchPath(c, seen, leaf)[x] = c[x]
         /\ FetchPath(c, seen, leaf)[x] # None =>
              c[x] # None \/ \E b \in Buckets : store[b][x] # None
BY PathInBuckets DEF FetchPath, Sources

LEMMA InOpStep ==
  ASSUME Bookkeeping, Locations, InOp, ~failed,
         Bookkeeping', InOp', UNCHANGED store, NewBidsAreFresh',
         OneCopyWith(cache', readviewmap'),
         readviewmap \subseteq readviewmap',
         \A l \in leafList' \ leafList : Path(l) \subseteq readviewmap',
         \/ failed'
         \/ /\ leafList \subseteq leafList'
            /\ \A b \in readviewmap' \ readviewmap :
                 \E l \in leafList', d \in 0 .. depth : b = OnPath(l, d)
  PROVE  Locations'
<1>1. writeviewmap = {} /\ writeviewmap' = {}
  BY DEF Bookkeeping
<1>2. QuiescentWhenIdle'
  BY DEF QuiescentWhenIdle, InOp
<1>3. PendingIsScheduled'
  <2> SUFFICES ASSUME ~failed', NEW b \in readviewmap'
               PROVE  \E l \in leafList', d \in 0 .. depth : b = OnPath(l, d)
    BY <1>1 DEF PendingIsScheduled, Pending, InOp
  <2>1. CASE b \in readviewmap
    BY <1>1, <2>1 DEF Locations, PendingIsScheduled, Pending, InOp
  <2> QED BY <2>1
<1>4. OneCopy'
  BY <1>1 DEF OneCopy, OneCopyWith, Holders, Current, Pending, Cached
<1>5. OnItsPath'
  BY <1>1 DEF Locations, OnItsPath, Current, Pending
<1>6. OnlyFetchedIsScheduled'
  <2>1. \A l \in leafList : Path(l) \subseteq readviewmap
    BY DEF Locations, OnlyFetchedIsScheduled
  <2> HIDE DEF Path
  <2>2. \A l \in leafList' : Path(l) \subseteq readviewmap'
    BY <2>1
  <2> QED BY <2>2 DEF OnlyFetchedIsScheduled, Path
<1> QED BY <1>2, <1>3, <1>4, <1>5, <1>6 DEF Locations

\* A step that changes the cache in place and leaves the views alone.
LEMMA InPlaceStep ==
  ASSUME Bookkeeping, Locations, InOp, ~failed, Bookkeeping', InOp',
         UNCHANGED <<store, readviewmap, leafList, nextbid>>,
         \A x \in Bids : cache'[x] # None => cache[x] # None
  PROVE  Locations'
<1>1. OneCopyWith(cache', readviewmap')
  BY InOpCopies, OneCopyKept DEF Bookkeeping, Locations, NoNewCopies
<1>2. NewBidsAreFresh'
  BY DEF Locations, NewBidsAreFresh
<1> QED BY <1>1, <1>2, InOpStep

LEMMA ReadLocations ==
  ASSUME IInv, Bookkeeping', phase \in {"insert", "remove"}, ~failed,
         NEW bid \in Bids, NEW lastLeaf \in Leaves, NEW mh,
         ReadBTreeNode(bid, lastLeaf, mh)
  PROVE  Locations'
<1> USE DEF IInv
<1>1. UNCHANGED <<store, nextbid, phase>> /\ InOp /\ InOp'
  BY DEF ReadBTreeNode, rootVars, InOp
<1>2. CASE ReadCached(bid, mh)
  BY <1>1, <1>2, InPlaceStep DEF ReadCached
<1>3. CASE ReadFetched(bid, lastLeaf, mh)
  <2>1. cache \in CacheType /\ OneCopyWith(cache, readviewmap)
    BY <1>1, InOpCopies DEF TypeOK, CacheType, Bookkeeping, Locations
  <2>2. OneCopyWith(cache', readviewmap')
    BY <1>3, <2>1, FetchPathOneCopy DEF ReadFetched
  <2>3. NewBidsAreFresh'
    BY <1>1, <1>3, <2>1, FetchPathSource DEF ReadFetched, Locations, NewBidsAreFresh
  <2>4. /\ failed' \/ leafList' = leafList \cup {lastLeaf}
        /\ leafList' \subseteq leafList \cup {lastLeaf}
    BY <1>3 DEF ReadFetched
  <2>5. readviewmap' = readviewmap \cup Path(lastLeaf)
    BY <1>3 DEF ReadFetched
  <2>6. \A b \in readviewmap' \ readviewmap : \E d \in 0 .. depth : b = OnPath(lastLeaf, d)
    BY <2>5 DEF Path
  <2> QED BY <1>1, <2>2, <2>3, <2>4, <2>5, <2>6, InOpStep
<1> QED BY <1>2, <1>3 DEF ReadBTreeNode

LEMMA SplitChildLocations ==
  ASSUME IInv, Bookkeeping', NEW p \in Bids, NEW y \in Bids, NEW z \in Bids,
         NEW leaf \in Leaves, SplitChild(p, y, z, leaf)
  PROVE  Locations'
<1> DEFINE f == FetchPath(cache, readviewmap, leaf)
<1> USE DEF IInv
<1>1. /\ UNCHANGED <<store, phase>> /\ InOp /\ InOp' /\ ~failed
      /\ readviewmap' = readviewmap \cup Path(leaf)
      /\ leafList' = leafList \cup {leaf}
      /\ nextbid' = z /\ z = nextbid + 1
      /\ cache[p] # None /\ cache[y] # None
  BY DEF SplitChild, Held, Cached, InOp
<1>2. cache \in CacheType /\ OneCopyWith(cache, readviewmap)
  BY <1>1, InOpCopies DEF TypeOK, CacheType, Bookkeeping, Locations
<1>3. f \in CacheType /\ OneCopyWith(f, readviewmap')
  BY <1>1, <1>2, FetchPathType, FetchPathOneCopy
<1>4. /\ \A x \in Bids : cache[x] # None => f[x] = cache[x]
      /\ \A x \in Bids : f[x] # None =>
           cache[x] # None \/ \E b \in Buckets : store[b][x] # None
  BY <1>2, FetchPathSource
<1>5. \A x \in Bids \ {p, y, z} : cache'[x] = f[x]
  <2> HIDE DEF f
  <2>1. PICK K : cache' = [f EXCEPT ![p] = Touch(SetChild(cache[p], z, leaf)),
                                    ![y] = Touch(Give(cache[y], K)),
                                    ![z] = Take(NewNode(leaf), cache[y], K)]
    BY DEF SplitChild, f
  <2> QED BY <1>3, <2>1 DEF CacheType
<1>6. \A b \in Buckets : store[b][z] = None
  BY <1>1 DEF Locations, NewBidsAreFresh, TypeOK
<1> HIDE DEF f
<1>7. NoNewCopies(f, cache')
  BY <1>1, <1>4, <1>5, <1>6 DEF NoNewCopies
<1>8. OneCopyWith(cache', readviewmap')
  BY <1>3, <1>7, OneCopyKept
<1>9. NewBidsAreFresh'
  <2> SUFFICES ASSUME NEW x \in Bids, x > z
               PROVE  cache'[x] = None /\ \A b \in Buckets : store[b][x] = None
    BY <1>1 DEF NewBidsAreFresh
  <2>1. x > nextbid /\ p <= nextbid /\ y <= nextbid
    BY <1>1, BidsAssumption DEF Locations, NewBidsAreFresh, TypeOK
  <2>2. x \notin {p, y, z}
    BY <2>1, BidsAssumption DEF TypeOK
  <2> QED BY <1>4, <1>5, <2>1, <2>2 DEF Locations, NewBidsAreFresh
<1>10. \A b \in readviewmap' \ readviewmap : \E d \in 0 .. depth : b = OnPath(leaf, d)
  BY <1>1 DEF Path
<1> QED BY <1>1, <1>8, <1>9, <1>10, InOpStep

LEMMA SplitRootLocations ==
  ASSUME IInv, Bookkeeping', NEW s \in Bids, NEW z \in Bids,
         NEW sleaf \in Leaves, NEW zleaf \in Leaves, SplitRoot(s, z, sleaf, zleaf)
  PROVE  Locations'
<1> DEFINE r == brootKey
           seen == readviewmap \cup Path(zleaf)
           f == FetchPath(cache, readviewmap, zleaf)
           g == FetchPath(f, seen, sleaf)
<1> USE DEF IInv
<1>1. /\ UNCHANGED <<store, phase>> /\ InOp /\ InOp' /\ ~failed
      /\ readviewmap' = seen \cup Path(sleaf)
      /\ leafList' = leafList \cup {sleaf, zleaf}
      /\ nextbid' = z /\ s = nextbid + 1 /\ z = nextbid + 2
      /\ cache[r] # None /\ r \in Bids
  BY DEF SplitRoot, Held, Cached, InOp, TypeOK
<1>2. cache \in CacheType /\ OneCopyWith(cache, readviewmap)
  BY <1>1, InOpCopies DEF TypeOK, CacheType, Bookkeeping, Locations
<1>3. f \in CacheType /\ OneCopyWith(f, seen)
  BY <1>2, FetchPathType, FetchPathOneCopy
<1>4. g \in CacheType /\ OneCopyWith(g, readviewmap')
  <2> HIDE DEF f
  <2> QED BY <1>1, <1>3, FetchPathType, FetchPathOneCopy
<1>5. /\ \A x \in Bids : cache[x] # None => g[x] # None
      /\ \A x \in Bids : g[x] # None =>
           cache[x] # None \/ \E b \in Buckets : store[b][x] # None
  <2>1. \A x \in Bids : /\ cache[x] # None => f[x] = cache[x]
                        /\ f[x] # None =>
                             cache[x] # None \/ \E b \in Buckets : store[b][x] # None
    BY <1>2, FetchPathSource
  <2> HIDE DEF f
  <2>2. \A x \in Bids : /\ f[x] # None => g[x] = f[x]
                        /\ g[x] # None =>
                             f[x] # None \/ \E b \in Buckets : store[b][x] # None
    BY <1>3, FetchPathSource
  <2> QED BY <2>1, <2>2
<1>6. \A x \in Bids \ {r, z, s} : cache'[x] = g[x]
  <2>1. PICK K : cache' = [g EXCEPT
                   ![r] = Touch(Give(cache[r], K)),
                   ![z] = Take(NewNode(zleaf), cache[r], K),
                   ![s] = SetChild(SetChild(NewNode(sleaf), r, cache[r].pos), z, zleaf)]
    BY DEF SplitRoot
  <2> HIDE DEF g, r
  <2> QED BY <1>4, <2>1 DEF CacheType
<1>7. \A b \in Buckets : store[b][z] = None /\ store[b][s] = None
  BY <1>1 DEF Locations, NewBidsAreFresh, TypeOK
<1> HIDE DEF g, f, r
<1>8. NoNewCopies(g, cache')
  BY <1>1, <1>5, <1>6, <1>7 DEF NoNewCopies
<1>9. OneCopyWith(cache', readviewmap')
  BY <1>4, <1>8, OneCopyKept
<1>10. NewBidsAreFresh'
  <2> SUFFICES ASSUME NEW x \in Bids, x > z
               PROVE  cache'[x] = None /\ \A b \in Buckets : store[b][x] = None
    BY <1>1 DEF NewBidsAreFresh
  <2>1. x > nextbid /\ r <= nextbid
    BY <1>1, BidsAssumption DEF Locations, NewBidsAreFresh, TypeOK
  <2>2. x \notin {r, z, s}
    BY <1>1, <2>1, BidsAssumption DEF TypeOK
  <2> QED BY <1>5, <1>6, <2>1, <2>2 DEF Locations, NewBidsAreFresh
<1>11. \A b \in readviewmap' \ readviewmap :
         \E l \in {sleaf, zleaf}, d \in 0 .. depth : b = OnPath(l, d)
  BY <1>1 DEF Path
<1> QED BY <1>1, <1>9, <1>10, <1>11, InOpStep

LEMMA ClientLocations ==
  ASSUME IInv, Bookkeeping', Client
  PROVE  Locations'
<1> USE DEF IInv
<1>1. CASE ReadRoot
  BY <1>1, ReadLocations DEF ReadRoot, TypeOK
<1>2. ASSUME NEW p \in Bids, NEW c \in Bids, ReadChild(p, c)
      PROVE  Locations'
  <2>1. cache[p].cpos[c] \in Leaves
    BY <1>2 DEF ReadChild, Held, Cached, Children, TypeOK, Node
  <2> QED BY <1>2, <2>1, ReadLocations DEF ReadChild
<1>3. ASSUME NEW x \in Bids, Update(x)
      PROVE  Locations'
  BY <1>3, InPlaceStep DEF Update, WriteInPlace, Held, Cached, viewVars, opVars, rootVars, InOp, TypeOK
<1>4. ASSUME NEW p \in Bids, NEW a \in Bids, NEW b \in Bids, Borrow(p, a, b) \/ Merge(p, a, b)
      PROVE  Locations'
  <2>1. /\ UNCHANGED <<store, readviewmap, leafList, nextbid, phase>>
        /\ InOp /\ InOp' /\ ~failed
        /\ cache[p] # None /\ cache[a] # None /\ cache[b] # None
    BY <1>4 DEF Borrow, Merge, Held, Cached, WriteInPlace, viewVars, opVars, rootVars, InOp
  <2>2. \A x \in Bids \ {p, a, b} : cache'[x] = cache[x]
    BY <1>4 DEF Borrow, Merge, TypeOK
  <2> QED BY <2>1, <2>2, InPlaceStep
<1>5. ASSUME NEW c \in Bids, CollapseRoot(c)
      PROVE  Locations'
  BY <1>5, InPlaceStep DEF CollapseRoot, Held, Cached, viewVars, opVars, InOp, TypeOK
<1> QED BY <1>1, <1>2, <1>3, <1>4, <1>5, SplitChildLocations, SplitRootLocations DEF Client

\* The steps of finalize() that write nothing back yet.
LEMMA PadLocations ==
  ASSUME IInv, Bookkeeping', \/ Finalize \/ EndPad \/ \E rnd \in Leaves : PadPath(rnd)
                             \/ \E newPos \in [Remapped(level) -> Leaves] : RemapHeight(newPos)
  PROVE  Locations'
<1> USE DEF IInv
<1>1. CASE Finalize
  BY <1>1, InPlaceStep DEF Finalize, viewVars, opVars, rootVars, InOp
<1>2. CASE EndPad
  BY <1>2, InPlaceStep DEF EndPad, viewVars, opVars, rootVars, InOp, Bookkeeping
<1>3. ASSUME NEW rnd \in Leaves, PadPath(rnd)
      PROVE  Locations'
  <2>1. /\ UNCHANGED <<store, nextbid, phase>> /\ InOp /\ InOp' /\ ~failed
        /\ cache' = FetchPath(cache, readviewmap, rnd)
        /\ readviewmap' = readviewmap \cup Path(rnd)
        /\ leafList' = leafList \cup {rnd}
    BY <1>3 DEF PadPath, rootVars, InOp, Bookkeeping
  <2>2. cache \in CacheType /\ OneCopyWith(cache, readviewmap)
    BY <2>1, InOpCopies DEF TypeOK, CacheType, Bookkeeping, Locations
  <2>3. OneCopyWith(cache', readviewmap')
    BY <2>1, <2>2, FetchPathOneCopy
  <2>4. NewBidsAreFresh'
    BY <2>1, <2>2, FetchPathSource DEF Locations, NewBidsAreFresh
  <2>5. \A b \in readviewmap' \ readviewmap : \E d \in 0 .. depth : b = OnPath(rnd, d)
    BY <2>1 DEF Path
  <2> QED BY <2>1, <2>3, <2>4, <2>5, InOpStep
<1>4. ASSUME NEW newPos \in [Remapped(level) -> Leaves], RemapHeight(newPos)
      PROVE  Locations'
  <2>1. \A x \in Bids : cache'[x] # None => cache[x] # None
    BY <1>4 DEF RemapHeight, Remapped, Cached
  <2>2. /\ UNCHANGED <<store, readviewmap, leafList, nextbid, phase, failed>>
        /\ InOp /\ InOp' /\ ~failed
    BY <1>4 DEF RemapHeight, viewVars, opVars, rootVars, InOp, Bookkeeping
  <2> QED BY <2>1, <2>2, InPlaceStep
<1> QED BY <1>1, <1>2, <1>3, <1>4

\* Writing back: the buckets of the level become current again, with nodes
\* that were in the cache and in no current bucket.
LEMMA WriteLevelLocations ==
  ASSUME IInv, Bookkeeping', WriteLevel
  PROVE  Locations'
<1> DEFINE W == ToWrite(level)
           Sent(b) == GetIntersectingBlocks(b, level)
<1> USE DEF IInv
<1>1. /\ phase = "evict" /\ phase' = "evict" /\ ~failed /\ ~failed'
      /\ level \in 0 .. depth /\ level' = level - 1
      /\ UNCHANGED <<readviewmap, leafList, nextbid>>
      /\ writeviewmap' = writeviewmap \cup W
  BY DEF WriteLevel, opVars, rootVars, Bookkeeping
<1>2. W \subseteq Buckets
  BY <1>1, PathAssumption DEF ToWrite, TypeOK
<1>3. Pending' = Pending \ W /\ Current' = Current \cup W
  BY <1>1, <1>2 DEF Pending, Current, TypeOK
<1>4. /\ \A b \in W, x \in Bids : store'[b][x] # None =>
            /\ x \in Sent(b) /\ store'[b][x] = cache[x] /\ cache[x].live
      /\ \A b \in Buckets \ W, x \in Bids : store'[b][x] = store[b][x]
      /\ \A x \in Bids : cache'[x] # None => cache'[x] = cache[x]
      /\ \A b \in W : \A x \in Sent(b) : cache'[x] = None
  <2>1. store' = [b \in Buckets |->
                   IF b \notin W THEN store[b]
                   ELSE [x \in Bids |-> IF x \in Sent(b) /\ cache[x].live
                                        THEN cache[x] ELSE None]]
    BY DEF WriteLevel
  <2>2. cache' = [x \in Bids |-> IF x \in Leaving(level) THEN None ELSE cache[x]]
    BY DEF WriteLevel
  <2>3. \A b \in W : Sent(b) \subseteq Leaving(level) /\ Sent(b) \subseteq Bids
    BY DEF Leaving, GetIntersectingBlocks, Intersecting
  <2> HIDE DEF W, Sent
  <2> QED BY <1>2, <2>1, <2>2, <2>3
<1>5. \A b \in W : \A x \in Sent(b) :
        cache[x] # None /\ b = OnPath(cache[x].pos, level)
  BY DEF GetIntersectingBlocks, Intersecting, Cached
<1> HIDE DEF W, Sent
<1>6. QuiescentWhenIdle'
  BY <1>1 DEF QuiescentWhenIdle
<1>7. PendingIsScheduled'
  <2> SUFFICES ASSUME NEW b \in Pending'
               PROVE  \E l \in leafList, d \in 0 .. level' : b = OnPath(l, d)
    BY <1>1 DEF PendingIsScheduled
  <2>1. b \in Pending /\ b \notin W
    BY <1>3
  <2>2. PICK l \in leafList, d \in 0 .. level : b = OnPath(l, d)
    BY <1>1, <2>1 DEF Locations, PendingIsScheduled
  <2>3. d # level
    BY <2>1, <2>2 DEF W, ToWrite, Pending
  <2> QED BY <1>1, <2>2, <2>3
<1>8. ASSUME NEW x \in Bids
      PROVE  /\ cache'[x] # None => Holders(x)' = {}
             /\ \A b, c \in Holders(x)' : b = c
  <2>1. /\ cache[x] # None => \A b \in Current : store[b][x] = None
        /\ \A b, c \in Current : store[b][x] # None /\ store[c][x] # None => b = c
    BY DEF Locations, OneCopy, Holders, Cached
  <2>2. \A b \in Holders(x)' : \/ b \in W /\ x \in Sent(b)
                               \/ b \in Current \ W /\ store[b][x] # None
    BY <1>3, <1>4 DEF Holders, Current
  <2>3. CASE \E b \in W : x \in Sent(b)
    BY <1>4, <1>5, <2>1, <2>2, <2>3
  <2>4. CASE ~ \E b \in W : x \in Sent(b)
    BY <1>4, <2>1, <2>2, <2>4
  <2> QED BY <2>3, <2>4
<1>9. OneCopy' /\ OnlyFetchedIsScheduled'
  BY <1>1, <1>8 DEF OneCopy, Cached, Locations, OnlyFetchedIsScheduled, Path
<1>10. OnItsPath'
  <2> SUFFICES ASSUME NEW b \in Current', NEW x \in Bids, store'[b][x] # None
               PROVE  store'[b][x].live /\ b \in Path(store'[b][x].pos)
    BY DEF OnItsPath, Path
  <2>1. CASE b \in W
    BY <1>1, <1>4, <1>5, <2>1 DEF Path
  <2>2. CASE b \notin W
    BY <1>3, <1>4, <2>2 DEF Locations, OnItsPath, Current
  <2> QED BY <2>1, <2>2
<1>11. NewBidsAreFresh'
  BY <1>1, <1>4, <1>5 DEF Locations, NewBidsAreFresh
<1> QED BY <1>6, <1>7, <1>9, <1>10, <1>11 DEF Locations

LEMMA FinalizeLocations ==
  ASSUME IInv, Bookkeeping', FinalizeStep \/ Finalize
  PROVE  Locations'
<1> USE DEF IInv, Locations
<1>1. CASE RecordRoot
  <2>1. /\ phase = "remap" /\ phase' = "evict" /\ level' = depth /\ ~failed
        /\ UNCHANGED <<store, cache, readviewmap, writeviewmap, leafList, nextbid, failed>>
    BY <1>1 DEF RecordRoot, viewVars, opVars, Bookkeeping
  <2> QED BY <2>1 DEF QuiescentWhenIdle, PendingIsScheduled, OnlyFetchedIsScheduled, OneCopy, OnItsPath, Path,
                      NewBidsAreFresh, Holders, Current, Pending, Cached
<1>2. CASE Finish
  <2>1. /\ phase = "evict" /\ phase' = "idle" /\ level < 0 /\ ~failed
        /\ leafList' = {} /\ modified' = {}
        /\ UNCHANGED <<store, cache, readviewmap, writeviewmap, nextbid, failed>>
    BY <1>2 DEF Finish, viewVars, rootVars, Bookkeeping
  <2>2. Pending = {}
    BY <2>1 DEF PendingIsScheduled, Bookkeeping
  <2> QED BY <2>1, <2>2 DEF QuiescentWhenIdle, PendingIsScheduled, OnlyFetchedIsScheduled, OneCopy, OnItsPath, Path,
                            NewBidsAreFresh, Holders, Current, Pending, Cached
<1> QED BY <1>1, <1>2, PadLocations, WriteLevelLocations DEF FinalizeStep

LEMMA StartLocations ==
  ASSUME IInv, NEW kind \in {"insert", "remove"}, Start(kind)
  PROVE  Locations'
<1>1. /\ phase = "idle" /\ phase' # "idle" /\ ~failed
      /\ readviewmap' = {} /\ writeviewmap' = {}
      /\ UNCHANGED <<store, cache, nextbid, leafList, failed>>
  BY DEF Start, rootVars
<1>2. Pending = {} /\ Pending' = {}
  BY <1>1 DEF IInv, Locations, QuiescentWhenIdle, Pending
<1> QED BY <1>1, <1>2 DEF IInv, Locations, QuiescentWhenIdle, PendingIsScheduled,
                          OnlyFetchedIsScheduled, OneCopy, OnItsPath, NewBidsAreFresh, Holders, Current, Cached

\* Setup puts every node in a bucket of its path.
LEMMA SetupLevels ==
  ASSUME NEW p \in [Nodes0 -> Leaves], NEW rank, SetupFits(p, rank), NEW x \in Nodes0
  PROVE  SetupLevel(p, rank, x) \in 0 .. depth
<1> DEFINE S == {y \in Nodes0 : p[y] = p[x] /\ rank[y] < rank[x]}
<1>1. Cardinality(S) \in Nat
  BY FirstBids, FS_Subset, FS_CardinalityType
<1> HIDE DEF S
<1>2. Cardinality(S) \div Z \in Nat
  BY <1>1, NumbersAssumption
<1>3. SetupLevel(p, rank, x) >= 0
  BY DEF SetupFits
<1>4. SetupLevel(p, rank, x) = depth - Cardinality(S) \div Z
  BY DEF SetupLevel, S
<1> QED BY <1>2, <1>3, <1>4, PathAssumption

LEMMA InitLocations == Init => Locations
<1> SUFFICES ASSUME Init PROVE Locations
  OBVIOUS
<1>1. PICK p \in [Nodes0 -> Leaves], rank \in Orders(Nodes0) :
        /\ SetupFits(p, rank)
        /\ store = [b \in Buckets |-> [x \in Bids |->
                     IF x \in Nodes0 /\ b = OnPath(p[x], SetupLevel(p, rank, x))
                     THEN SetupNode(p, x) ELSE None]]
  BY DEF Init
<1>2. \A x \in Nodes0 : SetupLevel(p, rank, x) \in 0 .. depth
  BY <1>1, SetupLevels
<1>3. \A b \in Buckets, x \in Bids : store[b][x] # None =>
        /\ x \in Nodes0 /\ b = OnPath(p[x], SetupLevel(p, rank, x))
        /\ store[b][x] = SetupNode(p, x)
  BY <1>1
<1>4. Pending = {} /\ Current = Buckets /\ \A x \in Bids : cache[x] = None
  BY DEF Init, Pending, Current
<1>5. OneCopy
  BY <1>3, <1>4 DEF OneCopy, Holders, Cached
<1>6. OnItsPath
  <2> SUFFICES ASSUME NEW b \in Buckets, NEW x \in Bids, store[b][x] # None
               PROVE  store[b][x].live /\ b \in Path(store[b][x].pos)
    BY <1>4 DEF OnItsPath
  <2>1. /\ x \in Nodes0 /\ b = OnPath(p[x], SetupLevel(p, rank, x))
        /\ store[b][x] = SetupNode(p, x)
    BY <1>3
  <2>2. store[b][x].live /\ store[b][x].pos = p[x]
    BY <2>1 DEF SetupNode
  <2> QED BY <1>2, <2>1, <2>2 DEF Path
<1>7. NewBidsAreFresh
  BY <1>3, <1>4, FirstBids, BidsAssumption DEF NewBidsAreFresh, Init
<1> QED BY <1>4, <1>5, <1>6, <1>7 DEF Locations, QuiescentWhenIdle, PendingIsScheduled, OnlyFetchedIsScheduled, Init

LEMMA Inductive == Spec => []IInv
<1>1. Init => IInv
  BY InitType, InitLocations DEF IInv
<1>2. IInv /\ [Next]_vars => IInv'
  <2> SUFFICES ASSUME IInv, [Next]_vars PROVE IInv'
    OBVIOUS
  <2>1. TypeOK' /\ Bookkeeping'
    <3>1. CASE Next
      BY <3>1, ClientType, FinalizeType DEF Next, IInv
    <3>2. CASE UNCHANGED vars
      BY <3>2 DEF vars, serverVars, viewVars, opVars, rootVars, IInv, TypeOK, Bookkeeping, InOp
    <3> QED BY <3>1, <3>2
  <2>2. Locations'
    <3>1. CASE Next
      BY <2>1, <3>1, ClientLocations, FinalizeLocations, StartLocations DEF Next
    <3>2. CASE UNCHANGED vars
      BY <3>2 DEF vars, serverVars, viewVars, opVars, rootVars, IInv, Locations,
                  QuiescentWhenIdle, PendingIsScheduled, OnlyFetchedIsScheduled, OneCopy, OnItsPath, Path,
                  NewBidsAreFresh, Holders, Current, Pending, Cached
    <3> QED BY <3>1, <3>2
  <2> QED BY <2>1, <2>2 DEF IInv
<1> QED BY <1>1, <1>2, PTL DEF Spec

\* Every variable keeps its type: in particular every leaf recorded in a
\* node, and the root's, is a leaf of the bucket tree.
THEOREM TypeCorrect == Spec => []TypeOK
BY Inductive, PTL DEF IInv

\* Fetching paths, changing nodes and writing them back never leaves two
\* copies of a node that are both taken for the current one.
THEOREM NoDuplicates == Spec => []OneCopy
BY Inductive, PTL DEF IInv, Locations

\* A node on the server is in a bucket of the path its leaf names, so that a
\* fetch of that path brings it.
THEOREM NodesStayOnTheirPaths == Spec => []OnItsPath
BY Inductive, PTL DEF IInv, Locations

\* Every bucket fetched by an operation is written back before it ends.
THEOREM EveryBucketIsWrittenBack == Spec => [](PendingIsScheduled /\ QuiescentWhenIdle)
BY Inductive, PTL DEF IInv, Locations

\* finalize() overwrites no bucket the operation has not fetched.
THEOREM NothingElseIsOverwritten == Spec => []OnlyFetchedIsScheduled
BY Inductive, PTL DEF IInv, Locations
-----------------------------------------------------------------------------
(***************************************************************************)
(* The content: finalize() writes back what the operation left in the      *)
(* cache; no node is lost, brought back or returned to an older version.   *)
(***************************************************************************)
\* CurrentNode for a cache c when the buckets in seen were fetched and none
\* was written back.
HoldersWith(seen, x) == {b \in Buckets \ seen : store[b][x] # None}
CopyIn(H, x) == IF H = {} THEN None ELSE store[CHOOSE b \in H : TRUE][x]
CurrentWith(c, seen, x) ==
  IF c[x] # None THEN c[x] ELSE CopyIn(HoldersWith(seen, x), x)

SameContent(m, n) ==
  /\ m # None /\ m.live <=> n # None /\ n.live
  /\ m # None /\ m.live => m.ver = n.ver /\ Children(m) = Children(n)
-----------------------------------------------------------------------------
LEMMA CurrentIsWith ==
  ASSUME writeviewmap = {}, NEW x \in Bids
  PROVE  CurrentNode(x) = CurrentWith(cache, readviewmap, x)
BY DEF CurrentNode, CurrentWith, CopyIn, HoldersWith, Holders, Current, Pending, Cached

\* A fetch moves the current copy of a node, if at all, into the cache.
LEMMA FetchKeepsCurrent ==
  ASSUME NEW c \in CacheType, NEW seen, NEW leaf \in Leaves, NEW x \in Bids,
         OneCopyWith(c, seen)
  PROVE  CurrentWith(FetchPath(c, seen, leaf), seen \cup Path(leaf), x)
           = CurrentWith(c, seen, x)
<1> DEFINE f == FetchPath(c, seen, leaf)
           H == HoldersWith(seen, x)
           S == Sources(seen, leaf, x)
<1>1. S \subseteq H /\ HoldersWith(seen \cup Path(leaf), x) = H \ S
  BY PathInBuckets DEF HoldersWith, Sources
<1>2. \A b1, b2 \in H : b1 = b2
  BY DEF OneCopyWith, HoldersWith
<1>3. \A b \in H : store[b][x] # None
  BY DEF HoldersWith
<1>4. f[x] = IF c[x] # None \/ S = {} THEN c[x] ELSE store[CHOOSE b \in S : TRUE][x]
  BY DEF FetchPath
<1> HIDE DEF f, H, S
<1>5. CASE c[x] # None
  BY <1>4, <1>5 DEF CurrentWith, f
<1>6. CASE c[x] = None /\ S = {}
  <2>1. HoldersWith(seen \cup Path(leaf), x) = HoldersWith(seen, x)
    BY <1>1, <1>6 DEF H
  <2>2. f[x] = None
    BY <1>4, <1>6
  <2> QED BY <1>6, <2>1, <2>2 DEF CurrentWith, f
<1>7. CASE c[x] = None /\ S # {}
  <2>1. (CHOOSE b \in S : TRUE) \in S /\ (CHOOSE b \in H : TRUE) \in H
    BY <1>1, <1>7
  <2>2. (CHOOSE b \in S : TRUE) = (CHOOSE b \in H : TRUE)
    BY <1>1, <1>2, <2>1
  <2>3. f[x] = store[CHOOSE b \in H : TRUE][x] /\ f[x] # None /\ H # {}
    BY <1>1, <1>3, <1>4, <1>7, <2>1, <2>2
  <2> QED BY <1>7, <2>3 DEF CurrentWith, CopyIn, f, H
<1> QED BY <1>5, <1>6, <1>7

LEMMA CurrentType ==
  ASSUME TypeOK, NEW x \in Bids
  PROVE  CurrentNode(x) \in Node \cup {None}
BY DEF CurrentNode, Cached, Holders, Current, TypeOK

LEMMA PadContent ==
  ASSUME IInv, NEW rnd \in Leaves, PadPath(rnd), NEW x \in Bids
  PROVE  CurrentNode(x)' = CurrentNode(x)
<1>1. /\ writeviewmap = {} /\ UNCHANGED <<store, writeviewmap>>
      /\ cache' = FetchPath(cache, readviewmap, rnd)
      /\ readviewmap' = readviewmap \cup Path(rnd)
  BY DEF PadPath, IInv, Bookkeeping, InOp
<1>2. cache \in CacheType /\ OneCopyWith(cache, readviewmap)
  BY <1>1, InOpCopies DEF IInv, TypeOK, CacheType, Locations
<1>3. CurrentNode(x)' = CurrentWith(cache', readviewmap', x)
  BY <1>1 DEF CurrentNode, CurrentWith, CopyIn, HoldersWith, Holders, Current, Pending, Cached
<1> QED BY <1>1, <1>2, <1>3, FetchKeepsCurrent, CurrentIsWith

LEMMA RemapContent ==
  ASSUME IInv, NEW newPos \in [Remapped(level) -> Leaves], RemapHeight(newPos),
         NEW x \in Bids
  PROVE  SameContent(CurrentNode(x), CurrentNode(x)')
<1> DEFINE q == [k \in Bids |->
                  IF cache[x].cpos[k] # NoPos /\ Cached(k) THEN cache[k].pos
                                                           ELSE cache[x].cpos[k]]
<1>1. Holders(x)' = Holders(x) /\ UNCHANGED store
  BY DEF RemapHeight, Holders, Current, Pending, viewVars
<1>2. CASE x \notin Remapped(level)
  <2>1. cache'[x] = cache[x]
    BY <1>2 DEF RemapHeight
  <2>2. CurrentNode(x)' = CurrentNode(x)
    BY <1>1, <2>1 DEF CurrentNode, Cached
  <2> QED BY <2>2 DEF SameContent
<1>3. CASE x \in Remapped(level)
  <2>1. cache[x] \in Node /\ Cached(x) /\ newPos[x] \in Leaves
    BY <1>3 DEF Remapped, Cached, IInv, TypeOK
  <2>2. \A k \in Bids : Cached(k) => cache[k].pos \in Leaves
    BY DEF Cached, IInv, TypeOK, Node
  <2>3. cache'[x] = [cache[x] EXCEPT !.pos = newPos[x], !.cpos = q]
    BY <1>3 DEF RemapHeight
  <2>4. /\ q \in [Bids -> Leaves \cup {NoPos}]
        /\ \A k \in Bids : q[k] # NoPos <=> cache[x].cpos[k] # NoPos
    BY <2>1, <2>2, PathAssumption DEF Node, NoPos
  <2> HIDE DEF q
  <2>5. /\ cache'[x] \in Node /\ cache'[x].cpos = q
        /\ cache'[x].live = cache[x].live /\ cache'[x].ver = cache[x].ver
    BY <2>1, <2>3, <2>4 DEF Node
  <2>6. cache'[x] # None
    BY <2>5, NoneAssumption
  <2> QED BY <2>1, <2>4, <2>5, <2>6 DEF SameContent, CurrentNode, Cached, Children
<1> QED BY <1>2, <1>3

\* Writing a level back moves nodes and drops the deleted ones.
LEMMA WriteNode ==
  ASSUME IInv, IInv', WriteLevel, NEW x \in Bids
  PROVE  \/ CurrentNode(x)' = CurrentNode(x)
         \/ CurrentNode(x) # None /\ ~CurrentNode(x).live /\ CurrentNode(x)' = None
<1> DEFINE W == ToWrite(level)
           Sent(b) == GetIntersectingBlocks(b, level)
<1> USE DEF IInv
<1>1. /\ level \in 0 .. depth /\ UNCHANGED <<readviewmap, leafList>>
      /\ writeviewmap' = writeviewmap \cup W
  BY DEF WriteLevel, opVars, Bookkeeping
\* Only buckets that are pending are written.
<1>2. W \subseteq Pending /\ W \subseteq Buckets
  BY <1>1, PathAssumption DEF ToWrite, Pending, TypeOK, Path, Locations, OnlyFetchedIsScheduled
<1>3. Current' = Current \cup W /\ Current \cap W = {}
  BY <1>1, <1>2 DEF Current, Pending
<1>4. store' = [b \in Buckets |->
                 IF b \notin W THEN store[b]
                 ELSE [y \in Bids |-> IF y \in Sent(b) /\ cache[y].live
                                      THEN cache[y] ELSE None]]
  BY DEF WriteLevel
<1>5. cache' = [y \in Bids |-> IF y \in Leaving(level) THEN None ELSE cache[y]]
  BY DEF WriteLevel
<1>6. x \in Leaving(level) <=> \E b \in W : x \in Sent(b)
  BY DEF Leaving
<1>7. \A b \in W : x \in Sent(b) => Cached(x)
  BY DEF GetIntersectingBlocks, Intersecting
<1>8. /\ Cached(x) => Holders(x) = {}
      /\ \A b, c \in Holders(x)' : b = c
  BY DEF Locations, OneCopy
<1> HIDE DEF W, Sent
<1>9. ASSUME NEW b \in W, x \in Sent(b)
      PROVE  \/ CurrentNode(x)' = CurrentNode(x)
             \/ CurrentNode(x) # None /\ ~CurrentNode(x).live /\ CurrentNode(x)' = None
  <2>1. cache'[x] = None /\ Cached(x) /\ CurrentNode(x) = cache[x]
    BY <1>5, <1>6, <1>7, <1>9 DEF CurrentNode
  <2>2. store'[b][x] = IF cache[x].live THEN cache[x] ELSE None
    BY <1>2, <1>4, <1>9
  <2>3. CASE cache[x].live
    <3>1. b \in Holders(x)'
      BY <1>3, <2>1, <2>2, <2>3 DEF Holders, Cached
    <3>2. CurrentNode(x)' = cache[x]
      BY <1>8, <2>1, <2>2, <2>3, <3>1 DEF CurrentNode, Cached
    <3> QED BY <2>1, <3>2
  <2>4. CASE ~ cache[x].live
    <3>1. \A c \in W : store'[c][x] = None
      BY <1>2, <1>4, <2>4
    <3>2. \A c \in Current : store'[c][x] = None
      BY <1>3, <1>4, <1>8, <2>1 DEF Holders, Current
    <3>3. Holders(x)' = {}
      BY <1>3, <3>1, <3>2 DEF Holders
    <3>4. CurrentNode(x)' = None
      BY <2>1, <3>3 DEF CurrentNode, Cached
    <3> QED BY <2>1, <2>4, <3>4 DEF Cached
  <2> QED BY <2>3, <2>4
<1>10. ASSUME x \notin Leaving(level)
       PROVE  CurrentNode(x)' = CurrentNode(x)
  <2>1. cache'[x] = cache[x]
    BY <1>5, <1>10
  <2>2. \A c \in W : store'[c][x] = None
    BY <1>2, <1>4, <1>6, <1>10
  <2>3. \A c \in Current : store'[c][x] = store[c][x]
    BY <1>3, <1>4 DEF Current
  <2>4. Holders(x)' = Holders(x)
    BY <1>3, <2>2, <2>3 DEF Holders
  <2>5. \A c \in Holders(x) : store'[c][x] = store[c][x]
    BY <2>3 DEF Holders
  <2> QED BY <2>1, <2>4, <2>5 DEF CurrentNode, Cached
<1> QED BY <1>6, <1>9, <1>10

LEMMA WriteContent ==
  ASSUME IInv, IInv', WriteLevel, NEW x \in Bids
  PROVE  SameContent(CurrentNode(x), CurrentNode(x)')
BY WriteNode DEF SameContent

LEMMA FinalizeContent ==
  ASSUME IInv, IInv', phase \in {"pad", "remap", "evict"}, [Next]_vars, NEW x \in Bids
  PROVE  SameContent(CurrentNode(x), CurrentNode(x)')
<1> SUFFICES ASSUME CurrentNode(x)' # CurrentNode(x)
             PROVE  SameContent(CurrentNode(x), CurrentNode(x)')
  BY DEF SameContent
<1>1. ASSUME UNCHANGED <<store, cache, readviewmap, writeviewmap>>
      PROVE  FALSE
  BY <1>1 DEF CurrentNode, Holders, Current, Pending, Cached
<1>2. ~ UNCHANGED vars
  BY <1>1 DEF vars, serverVars, viewVars
<1>3. ~ EndPad /\ ~ RecordRoot /\ ~ Finish
  BY <1>1 DEF EndPad, RecordRoot, Finish, viewVars
<1>4. FinalizeStep
  <2>1. ~ Finalize /\ ~ \E kind \in {"insert", "remove"} : Start(kind)
    BY DEF Finalize, Start
  <2>2. ~ Client
    <3>1. ~ ReadRoot
      BY DEF ReadRoot
    <3>2. ~ \E p, c \in Bids : ReadChild(p, c)
      BY DEF ReadChild
    <3>3. ~ \E y \in Bids : Update(y)
      BY DEF Update
    <3>4. ~ \E p, y, z \in Bids, leaf \in Leaves : SplitChild(p, y, z, leaf)
      BY DEF SplitChild
    <3>5. ~ \E s, z \in Bids, sleaf, zleaf \in Leaves : SplitRoot(s, z, sleaf, zleaf)
      BY DEF SplitRoot
    <3>6. ~ \E p, a, b \in Bids : Borrow(p, a, b) \/ Merge(p, a, b)
      BY DEF Borrow, Merge
    <3>7. ~ \E c \in Bids : CollapseRoot(c)
      BY DEF CollapseRoot
    <3> QED BY <3>1, <3>2, <3>3, <3>4, <3>5, <3>6, <3>7 DEF Client
  <2> QED BY <1>2, <2>1, <2>2 DEF Next
<1>5. ~ \E rnd \in Leaves : PadPath(rnd)
  BY PadContent
<1> QED BY <1>3, <1>4, <1>5, RemapContent, WriteContent DEF FinalizeStep

\* finalize() changes no node's version and no node's children: whatever the
\* paths fetched, the leaves drawn and the room in the buckets.
THEOREM ContentIsKept == Spec => FinalizeKeepsContent
<1>1. ASSUME IInv, IInv', [Next]_vars
      PROVE  [(phase \in {"pad", "remap", "evict"}) =>
                \A x \in Bids : Version(x)' = Version(x)
                                 /\ ChildrenOf(x)' = ChildrenOf(x)]_vars
  <2> SUFFICES ASSUME phase \in {"pad", "remap", "evict"}, NEW x \in Bids
               PROVE  Version(x)' = Version(x) /\ ChildrenOf(x)' = ChildrenOf(x)
    OBVIOUS
  <2>1. SameContent(CurrentNode(x), CurrentNode(x)')
    BY <1>1, FinalizeContent
  <2> QED BY <2>1 DEF SameContent, Version, ChildrenOf, Live
<1> QED BY <1>1, Inductive, PTL DEF Spec, FinalizeKeepsContent

(***************************************************************************)
(* The recursive position map of BRAM: whatever the B-tree does to its     *)
(* nodes, the leaf a parent records for a child is the child's, and so no  *)
(* read fails.                                                             *)
(*                                                                         *)
(* The nodes are seen as a function N from bids to current copies.  What   *)
(* each action does to it is stated first (the lemmas ...Nodes), then what *)
(* that does to the tree (the lemmas Map...).                              *)
(***************************************************************************)

Nodes == [x \in Bids |-> CurrentNode(x)]

Here(N, x) == N[x] # None /\ N[x].live
Pos(N, x) == N[x].pos
Ver(N, x) == IF Here(N, x) THEN N[x].ver ELSE None
Bump(v) == (v + 1) % Versions
Dead(n) == [n EXCEPT !.live = FALSE]
Entry(N, p, c) == IF Here(N, p) THEN N[p].cpos[c] ELSE NoPos
Kid(N, p, c) == Entry(N, p, c) # NoPos

\* No node has two parents, and r has none.  (That every other node has one
\* is not needed.)
Forest(N, r) ==
  /\ Here(N, r)
  /\ \A p, c \in Bids : Kid(N, p, c) =>
       Here(N, c) /\ c # p /\ c # r /\ \A q \in Bids : Kid(N, q, c) => q = p

Map(N, r, leaf) ==
  /\ Forest(N, r) /\ Pos(N, r) = leaf
  /\ \A p, c \in Bids : Kid(N, p, c) => Pos(N, c) = Entry(N, p, c)

\* Between two turns of the remapping loop only the parents of the nodes
\* remapped last have still to record their leaves, and the root's is
\* recorded at the end.
HeightKnown(x) == x \in modified /\ hstash[x] # None
LeavesAreKnown ==
  IF phase # "remap" THEN Map(Nodes, brootKey, brootPos)
  ELSE /\ Forest(Nodes, brootKey)
       /\ Pos(Nodes, brootKey) = brootPos \/ Cached(brootKey)
       /\ \A p, c \in Bids : Kid(Nodes, p, c) =>
            \/ Pos(Nodes, c) = Entry(Nodes, p, c)
            \/ HeightKnown(c) /\ hstash[c] = level - 1

\* The height at which a node was read is one less than its parent's.
Heights ==
  /\ phase = "insert" => \A x \in Bids : hstash[x] = None
  /\ phase = "remove" /\ HeightKnown(brootKey) => hstash[brootKey] = maxHeight
  /\ InOp => /\ \A x \in modified : Cached(x)
             /\ \A x \in Bids : HeightKnown(x) => hstash[x] <= maxHeight
             /\ \A p, c \in Bids : Kid(Nodes, p, c) /\ HeightKnown(c) =>
                  HeightKnown(p) /\ hstash[p] = hstash[c] + 1

TreeInv == LeavesAreKnown /\ Heights /\ ~failed
-----------------------------------------------------------------------------
(***************************************************************************)
(* The fields of the nodes that the B-tree's operations make.              *)
(***************************************************************************)
LEMMA NodeFields ==
  ASSUME NEW n \in Node
  PROVE  /\ n # None /\ n.pos \in Leaves /\ n.live \in BOOLEAN
         /\ n.ver \in 0 .. Versions - 1
         /\ \A k \in Bids : n.cpos[k] \in Leaves \cup {NoPos}
         /\ Children(n) = {k \in Bids : n.cpos[k] # NoPos}
BY NoneAssumption DEF Node, Children

LEMMA TouchFields ==
  ASSUME NEW n \in Node
  PROVE  /\ Touch(n) \in Node /\ Touch(n).ver = Bump(n.ver)
         /\ Touch(n).pos = n.pos /\ Touch(n).live = n.live /\ Touch(n).cpos = n.cpos
BY NodeOperations DEF Touch, Node, Bump

LEMMA SetChildFields ==
  ASSUME NEW n \in Node, NEW c \in Bids, NEW leaf \in Leaves
  PROVE  /\ SetChild(n, c, leaf) \in Node
         /\ SetChild(n, c, leaf).pos = n.pos /\ SetChild(n, c, leaf).live = n.live
         /\ SetChild(n, c, leaf).ver = n.ver
         /\ \A k \in Bids : SetChild(n, c, leaf).cpos[k] = IF k = c THEN leaf ELSE n.cpos[k]
BY NodeOperations DEF SetChild, Node

LEMMA GiveFields ==
  ASSUME NEW n \in Node, NEW C
  PROVE  /\ Give(n, C) \in Node
         /\ Give(n, C).pos = n.pos /\ Give(n, C).live = n.live /\ Give(n, C).ver = n.ver
         /\ \A k \in Bids : Give(n, C).cpos[k] = IF k \in C THEN NoPos ELSE n.cpos[k]
BY NodeOperations DEF Give, Node

LEMMA TakeFields ==
  ASSUME NEW m \in Node, NEW n \in Node, NEW C
  PROVE  /\ Take(m, n, C) \in Node
         /\ Take(m, n, C).pos = m.pos /\ Take(m, n, C).live = m.live /\ Take(m, n, C).ver = m.ver
         /\ \A k \in Bids : Take(m, n, C).cpos[k] = IF k \in C THEN n.cpos[k] ELSE m.cpos[k]
BY NodeOperations DEF Take, Node

LEMMA NewNodeFields ==
  ASSUME NEW leaf \in Leaves
  PROVE  /\ NewNode(leaf) \in Node /\ NewNode(leaf).pos = leaf /\ NewNode(leaf).live
         /\ NewNode(leaf).ver = 0 /\ \A k \in Bids : NewNode(leaf).cpos[k] = NoPos
BY NodeOperations DEF NewNode

LEMMA DeadFields ==
  ASSUME NEW n \in Node
  PROVE  Dead(n) \in Node /\ ~Dead(n).live
BY NodeOperations DEF Node, Dead

LEMMA LeafIsNotNoPos == \A leaf \in Leaves : leaf # NoPos
BY PathAssumption DEF NoPos

\* What an action writes to a node, seen in the node.
LEMMA SameNode ==
  ASSUME NEW N, NEW M, NEW x, M[x] = N[x]
  PROVE  /\ Here(M, x) <=> Here(N, x)
         /\ Pos(M, x) = Pos(N, x) /\ Ver(M, x) = Ver(N, x)
         /\ \A k \in Bids : Entry(M, x, k) = Entry(N, x, k)
BY DEF Here, Pos, Ver, Entry

LEMMA ChildrenAreKids ==
  ASSUME NEW N \in CacheType, NEW x \in Bids, Here(N, x)
  PROVE  /\ N[x] \in Node /\ Children(N[x]) = {k \in Bids : Kid(N, x, k)}
         /\ \A k \in Bids : Entry(N, x, k) = N[x].cpos[k]
BY DEF Here, Kid, Entry, Children, CacheType

LEMMA TouchNode ==
  ASSUME NEW n \in Node, n.live, NEW M, NEW x, M[x] = Touch(n)
  PROVE  /\ Here(M, x) /\ Pos(M, x) = n.pos /\ Ver(M, x) = Bump(n.ver)
         /\ \A k \in Bids : Entry(M, x, k) = n.cpos[k]
<1>1. Touch(n) # None
  BY TouchFields, NodeFields
<1> QED BY <1>1, TouchFields DEF Here, Pos, Ver, Entry

LEMMA SetChildNode ==
  ASSUME NEW n \in Node, n.live, NEW c \in Bids, NEW leaf \in Leaves,
         NEW M, NEW x, M[x] = Touch(SetChild(n, c, leaf))
  PROVE  /\ Here(M, x) /\ Pos(M, x) = n.pos /\ Ver(M, x) = Bump(n.ver)
         /\ \A k \in Bids : Entry(M, x, k) = IF k = c THEN leaf ELSE n.cpos[k]
<1>1. SetChild(n, c, leaf) \in Node /\ SetChild(n, c, leaf).live
  BY SetChildFields
<1> QED BY <1>1, SetChildFields, TouchNode

LEMMA GiveNode ==
  ASSUME NEW n \in Node, n.live, NEW C, NEW M, NEW x, M[x] = Touch(Give(n, C))
  PROVE  /\ Here(M, x) /\ Pos(M, x) = n.pos /\ Ver(M, x) = Bump(n.ver)
         /\ \A k \in Bids : Entry(M, x, k) = IF k \in C THEN NoPos ELSE n.cpos[k]
<1>1. Give(n, C) \in Node /\ Give(n, C).live
  BY GiveFields
<1> QED BY <1>1, GiveFields, TouchNode

LEMMA TakeNode ==
  ASSUME NEW m \in Node, m.live, NEW n \in Node, NEW C,
         NEW M, NEW x, M[x] = Touch(Take(m, n, C))
  PROVE  /\ Here(M, x) /\ Pos(M, x) = m.pos /\ Ver(M, x) = Bump(m.ver)
         /\ \A k \in Bids : Entry(M, x, k) = IF k \in C THEN n.cpos[k] ELSE m.cpos[k]
<1>1. Take(m, n, C) \in Node /\ Take(m, n, C).live
  BY TakeFields
<1> QED BY <1>1, TakeFields, TouchNode

LEMMA SiblingNode ==
  ASSUME NEW n \in Node, NEW C, NEW leaf \in Leaves,
         NEW M, NEW x, M[x] = Take(NewNode(leaf), n, C)
  PROVE  /\ Here(M, x) /\ Pos(M, x) = leaf /\ Ver(M, x) = 0
         /\ \A k \in Bids : Entry(M, x, k) = IF k \in C THEN n.cpos[k] ELSE NoPos
<1>1. /\ M[x] \in Node /\ M[x].pos = leaf /\ M[x].live /\ M[x].ver = 0
      /\ \A k \in Bids : M[x].cpos[k] = IF k \in C THEN n.cpos[k] ELSE NoPos
  BY NewNodeFields, TakeFields
<1> QED BY <1>1, NodeFields DEF Here, Pos, Ver, Entry

LEMMA RootNode ==
  ASSUME NEW sleaf \in Leaves, NEW r \in Bids, NEW leaf \in Leaves, NEW z \in Bids,
         NEW zleaf \in Leaves, NEW M, NEW s,
         M[s] = SetChild(SetChild(NewNode(sleaf), r, leaf), z, zleaf)
  PROVE  /\ Here(M, s) /\ Pos(M, s) = sleaf /\ Ver(M, s) = 0
         /\ \A k \in Bids : Entry(M, s, k) =
              IF k = z THEN zleaf ELSE IF k = r THEN leaf ELSE NoPos
<1> DEFINE n == NewNode(sleaf)
           m == SetChild(n, r, leaf)
<1>1. n \in Node
  BY NewNodeFields
<1>2. n.pos = sleaf /\ n.live /\ n.ver = 0 /\ \A k \in Bids : n.cpos[k] = NoPos
  BY NewNodeFields
<1> HIDE DEF n
<1>3. m \in Node
  BY ONLY <1>1, SetChildFields, r \in Bids, leaf \in Leaves
<1>4. /\ m.pos = n.pos /\ m.live = n.live /\ m.ver = n.ver
      /\ \A k \in Bids : m.cpos[k] = IF k = r THEN leaf ELSE n.cpos[k]
  BY ONLY <1>1, SetChildFields, r \in Bids, leaf \in Leaves
<1>5. M[s] = SetChild(m, z, zleaf)
  BY DEF n
<1> HIDE DEF m
<1>6. /\ M[s] \in Node
      /\ M[s].pos = m.pos /\ M[s].live = m.live /\ M[s].ver = m.ver
      /\ \A k \in Bids : M[s].cpos[k] = IF k = z THEN zleaf ELSE m.cpos[k]
  BY ONLY <1>3, <1>5, SetChildFields, z \in Bids, zleaf \in Leaves
<1>7. M[s] # None
  BY <1>6, NodeFields
<1> QED BY <1>2, <1>4, <1>6, <1>7 DEF Here, Pos, Ver, Entry
-----------------------------------------------------------------------------
(***************************************************************************)
(* What the B-tree's operations do to the tree and to the leaves recorded. *)
(***************************************************************************)
\* The nodes in S keep their entries and their leaves.
Untouched(N, M, S) ==
  \A x \in S : /\ Here(M, x) <=> Here(N, x)
               /\ Pos(M, x) = Pos(N, x) /\ Ver(M, x) = Ver(N, x)
               /\ \A k \in Bids : Entry(M, x, k) = Entry(N, x, k)

LEMMA UntouchedNodes ==
  ASSUME NEW N, NEW M, NEW S, \A x \in S : M[x] = N[x]
  PROVE  Untouched(N, M, S)
BY SameNode DEF Untouched

LEMMA MapUpdate ==
  ASSUME NEW N \in CacheType, NEW r \in Bids, NEW leaf, Map(N, r, leaf),
         NEW x \in Bids, Here(N, x),
         NEW M, M[x] = Touch(N[x]), \A y \in Bids \ {x} : M[y] = N[y]
  PROVE  /\ Map(M, r, leaf)
         /\ \A p, c \in Bids : Entry(M, p, c) = Entry(N, p, c)
         /\ \A y \in Bids : Ver(M, y) =
              IF y = x THEN Bump(Ver(N, y)) ELSE Ver(N, y)
<1>1. Untouched(N, M, Bids \ {x})
  BY UntouchedNodes
<1>2. /\ Here(M, x) /\ Pos(M, x) = Pos(N, x) /\ Ver(M, x) = Bump(Ver(N, x))
      /\ \A k \in Bids : Entry(M, x, k) = Entry(N, x, k)
  <2>1. N[x] \in Node /\ \A k \in Bids : Entry(N, x, k) = N[x].cpos[k]
    BY ChildrenAreKids
  <2>2. N[x].live /\ Pos(N, x) = N[x].pos /\ Ver(N, x) = N[x].ver
    BY DEF Here, Pos, Ver
  <2> QED BY <2>1, <2>2, TouchNode
<1>3. \A p, c \in Bids : Entry(M, p, c) = Entry(N, p, c)
  BY <1>1, <1>2 DEF Untouched
<1>4. \A y \in Bids : (Here(M, y) <=> Here(N, y)) /\ Pos(M, y) = Pos(N, y)
  BY <1>1, <1>2 DEF Untouched
<1>5. \A p, c \in Bids : Kid(M, p, c) <=> Kid(N, p, c)
  BY <1>3 DEF Kid
<1>6. \A y \in Bids : Ver(M, y) = IF y = x THEN Bump(Ver(N, y)) ELSE Ver(N, y)
  BY <1>1, <1>2 DEF Untouched
<1> QED BY <1>3, <1>4, <1>5, <1>6 DEF Map, Forest

LEMMA MapSplitChild ==
  ASSUME NEW N \in CacheType, NEW r \in Bids, NEW rleaf, Map(N, r, rleaf),
         NEW p \in Bids, NEW y \in Bids, Kid(N, p, y), Here(N, p),
         NEW z \in Bids, ~Here(N, z),
         NEW leaf \in Leaves, NEW K \in SUBSET Children(N[y]),
         NEW M, M[p] = Touch(SetChild(N[p], z, leaf)),
         M[y] = Touch(Give(N[y], K)), M[z] = Take(NewNode(leaf), N[y], K),
         \A x \in Bids \ {p, y, z} : M[x] = N[x]
  PROVE  /\ Map(M, r, rleaf)
         /\ p # y /\ p # z /\ y # z
         /\ \A x, k \in Bids : Kid(M, x, k) <=>
              \/ x = p /\ k = z
              \/ x = z /\ k \in K
              \/ Kid(N, x, k) /\ ~(x = y /\ k \in K)
         /\ \A x \in Bids : Ver(M, x) =
              IF x = z THEN 0
              ELSE IF x \in {p, y} THEN Bump(Ver(N, x)) ELSE Ver(N, x)
<1>1. Forest(N, r) /\ Here(N, r) /\ Here(N, y)
  BY DEF Map, Forest
<1>2. p # y /\ p # z /\ y # z /\ r # z
  BY <1>1 DEF Forest
<1>3. /\ N[p] \in Node /\ \A k \in Bids : Entry(N, p, k) = N[p].cpos[k]
      /\ N[y] \in Node /\ \A k \in Bids : Entry(N, y, k) = N[y].cpos[k]
      /\ Children(N[y]) = {k \in Bids : Kid(N, y, k)}
  BY <1>1, ChildrenAreKids
<1>4. /\ N[p].live /\ Pos(N, p) = N[p].pos /\ Ver(N, p) = N[p].ver
      /\ N[y].live /\ Pos(N, y) = N[y].pos /\ Ver(N, y) = N[y].ver
  BY <1>1 DEF Here, Pos, Ver
<1>5. /\ Here(M, p) /\ Pos(M, p) = Pos(N, p) /\ Ver(M, p) = Bump(Ver(N, p))
      /\ \A k \in Bids : Entry(M, p, k) = IF k = z THEN leaf ELSE Entry(N, p, k)
  BY <1>3, <1>4, SetChildNode
<1>6. /\ Here(M, y) /\ Pos(M, y) = Pos(N, y) /\ Ver(M, y) = Bump(Ver(N, y))
      /\ \A k \in Bids : Entry(M, y, k) = IF k \in K THEN NoPos ELSE Entry(N, y, k)
  <2>1. N[y] \in Node /\ N[y].live /\ M[y] = Touch(Give(N[y], K))
    BY <1>3, <1>4
  <2>2. /\ Here(M, y) /\ Pos(M, y) = N[y].pos /\ Ver(M, y) = Bump(N[y].ver)
        /\ \A k \in Bids : Entry(M, y, k) = IF k \in K THEN NoPos ELSE N[y].cpos[k]
    BY ONLY <2>1, GiveNode
  <2> QED BY <1>3, <1>4, <2>2
<1>7. /\ Here(M, z) /\ Pos(M, z) = leaf /\ Ver(M, z) = 0
      /\ \A k \in Bids : Entry(M, z, k) = IF k \in K THEN Entry(N, y, k) ELSE NoPos
  BY <1>3, SiblingNode
<1>8. Untouched(N, M, Bids \ {p, y, z})
  BY UntouchedNodes
<1>9. \A x \in Bids : /\ Here(M, x) <=> Here(N, x) \/ x = z
                      /\ x # z => Pos(M, x) = Pos(N, x)
                      /\ Ver(M, x) = IF x = z THEN 0
                                     ELSE IF x \in {p, y} THEN Bump(Ver(N, x))
                                          ELSE Ver(N, x)
  BY <1>1, <1>2, <1>5, <1>6, <1>7, <1>8 DEF Untouched
<1>10. \A x, k \in Bids : Entry(M, x, k) =
         IF x = p /\ k = z THEN leaf
         ELSE IF x = y /\ k \in K THEN NoPos
         ELSE IF x = z THEN IF k \in K THEN Entry(N, y, k) ELSE NoPos
         ELSE Entry(N, x, k)
  BY <1>2, <1>5, <1>6, <1>7, <1>8 DEF Untouched
<1>11. /\ \A k \in K : k \in Bids /\ Kid(N, y, k)
       /\ \A k \in Bids : ~Kid(N, z, k) /\ ~Kid(N, k, z)
  <2>1. \A k \in Bids : Entry(N, z, k) = NoPos
    BY DEF Entry
  <2> QED BY <1>1, <1>3, <2>1 DEF Kid, Forest
<1>12. \A x, k \in Bids : Kid(M, x, k) <=> \/ x = p /\ k = z
                                           \/ x = z /\ k \in K
                                           \/ Kid(N, x, k) /\ ~(x = y /\ k \in K)
  BY <1>2, <1>10, <1>11, LeafIsNotNoPos DEF Kid
<1>13. Forest(M, r)
  BY <1>1, <1>2, <1>9, <1>11, <1>12 DEF Forest
<1>14. \A x, k \in Bids : Kid(M, x, k) => Pos(M, k) = Entry(M, x, k)
  <2>1. \A x, k \in Bids : Kid(N, x, k) => Pos(N, k) = Entry(N, x, k)
    BY DEF Map
  <2> QED BY <1>2, <1>7, <1>9, <1>10, <1>11, <1>12, <2>1
<1>15. Pos(M, r) = rleaf
  BY <1>2, <1>9 DEF Map
<1> QED BY <1>2, <1>9, <1>12, <1>13, <1>14, <1>15 DEF Map

LEMMA MapSplitRoot ==
  ASSUME NEW N \in CacheType, NEW r \in Bids, NEW rleaf, Map(N, r, rleaf),
         NEW s \in Bids, NEW z \in Bids, s # z, ~Here(N, s), ~Here(N, z),
         NEW sleaf \in Leaves, NEW zleaf \in Leaves, NEW K \in SUBSET Children(N[r]),
         NEW M, M[r] = Touch(Give(N[r], K)), M[z] = Take(NewNode(zleaf), N[r], K),
         M[s] = SetChild(SetChild(NewNode(sleaf), r, N[r].pos), z, zleaf),
         \A x \in Bids \ {r, s, z} : M[x] = N[x]
  PROVE  /\ Map(M, s, sleaf)
         /\ r # s /\ r # z
         /\ \A x, k \in Bids : Kid(M, x, k) <=>
              \/ x = s /\ k \in {r, z}
              \/ x = z /\ k \in K
              \/ Kid(N, x, k) /\ ~(x = r /\ k \in K)
         /\ \A x \in Bids : Ver(M, x) =
              IF x \in {s, z} THEN 0 ELSE IF x = r THEN Bump(Ver(N, x)) ELSE Ver(N, x)
<1>1. Forest(N, r) /\ Here(N, r) /\ r # s /\ r # z
  BY DEF Map, Forest
<1>2. /\ N[r] \in Node /\ \A k \in Bids : Entry(N, r, k) = N[r].cpos[k]
      /\ Children(N[r]) = {k \in Bids : Kid(N, r, k)}
  BY <1>1, ChildrenAreKids
<1>3. N[r].live /\ Pos(N, r) = N[r].pos /\ Ver(N, r) = N[r].ver
  BY <1>1 DEF Here, Pos, Ver
<1>4. /\ Here(M, r) /\ Pos(M, r) = Pos(N, r) /\ Ver(M, r) = Bump(Ver(N, r))
      /\ \A k \in Bids : Entry(M, r, k) = IF k \in K THEN NoPos ELSE Entry(N, r, k)
  <2>1. N[r] \in Node /\ N[r].live /\ M[r] = Touch(Give(N[r], K))
    BY <1>2, <1>3
  <2>2. /\ Here(M, r) /\ Pos(M, r) = N[r].pos /\ Ver(M, r) = Bump(N[r].ver)
        /\ \A k \in Bids : Entry(M, r, k) = IF k \in K THEN NoPos ELSE N[r].cpos[k]
    BY ONLY <2>1, GiveNode
  <2> QED BY <1>2, <1>3, <2>2
<1>5. /\ Here(M, z) /\ Pos(M, z) = zleaf /\ Ver(M, z) = 0
      /\ \A k \in Bids : Entry(M, z, k) = IF k \in K THEN Entry(N, r, k) ELSE NoPos
  BY <1>2, SiblingNode
<1>6. Pos(N, r) \in Leaves
  BY <1>2, NodeFields DEF Pos
<1>7. /\ Here(M, s) /\ Pos(M, s) = sleaf /\ Ver(M, s) = 0
      /\ \A k \in Bids : Entry(M, s, k) =
           IF k = z THEN zleaf ELSE IF k = r THEN Pos(N, r) ELSE NoPos
  <2>1. M[s] = SetChild(SetChild(NewNode(sleaf), r, Pos(N, r)), z, zleaf)
    BY <1>3
  <2> QED BY ONLY <1>6, <2>1, RootNode
<1>8. Untouched(N, M, Bids \ {r, s, z})
  BY UntouchedNodes
<1>9. \A x \in Bids : /\ Here(M, x) <=> Here(N, x) \/ x \in {s, z}
                      /\ x \notin {s, z} => Pos(M, x) = Pos(N, x)
                      /\ Ver(M, x) = IF x \in {s, z} THEN 0
                                     ELSE IF x = r THEN Bump(Ver(N, x)) ELSE Ver(N, x)
  BY <1>1, <1>4, <1>5, <1>7, <1>8 DEF Untouched
<1>10. \A x, k \in Bids : Entry(M, x, k) =
         IF x = s THEN IF k = z THEN zleaf ELSE IF k = r THEN Pos(N, r) ELSE NoPos
         ELSE IF x = r /\ k \in K THEN NoPos
         ELSE IF x = z THEN IF k \in K THEN Entry(N, r, k) ELSE NoPos
         ELSE Entry(N, x, k)
  BY <1>1, <1>4, <1>5, <1>7, <1>8 DEF Untouched
<1>11. /\ \A k \in K : k \in Bids /\ Kid(N, r, k)
       /\ \A k \in Bids : ~Kid(N, z, k) /\ ~Kid(N, k, z) /\ ~Kid(N, s, k) /\ ~Kid(N, k, s)
                          /\ ~Kid(N, k, r)
  <2>1. \A k \in Bids : Entry(N, z, k) = NoPos /\ Entry(N, s, k) = NoPos
    BY DEF Entry
  <2> QED BY <1>1, <1>2, <2>1 DEF Kid, Forest
<1>12. \A x, k \in Bids : Kid(M, x, k) <=> \/ x = s /\ k \in {r, z}
                                           \/ x = z /\ k \in K
                                           \/ Kid(N, x, k) /\ ~(x = r /\ k \in K)
  BY <1>1, <1>6, <1>10, <1>11, LeafIsNotNoPos DEF Kid
<1>13. Forest(M, s)
  BY <1>1, <1>7, <1>9, <1>11, <1>12 DEF Forest
<1>14. \A x, k \in Bids : Kid(M, x, k) => Pos(M, k) = Entry(M, x, k)
  <2>1. \A x, k \in Bids : Kid(N, x, k) => Pos(N, k) = Entry(N, x, k)
    BY DEF Map
  <2> QED BY <1>1, <1>5, <1>9, <1>10, <1>11, <1>12, <2>1
<1> QED BY <1>1, <1>7, <1>9, <1>12, <1>13, <1>14 DEF Map

LEMMA MapBorrow ==
  ASSUME NEW N \in CacheType, NEW r \in Bids, NEW rleaf, Map(N, r, rleaf),
         NEW p \in Bids, NEW a \in Bids, NEW b \in Bids, a # b,
         Kid(N, p, a), Kid(N, p, b), Here(N, p), NEW C \in SUBSET Children(N[a]),
         NEW M, M[p] = Touch(N[p]), M[a] = Touch(Give(N[a], C)),
         M[b] = Touch(Take(N[b], N[a], C)), \A x \in Bids \ {p, a, b} : M[x] = N[x]
  PROVE  /\ Map(M, r, rleaf)
         /\ p # a /\ p # b
         /\ \A x, k \in Bids : Kid(M, x, k) <=>
              (x = b /\ k \in C) \/ (Kid(N, x, k) /\ ~(x = a /\ k \in C))
         /\ \A x \in Bids : Ver(M, x) =
              IF x \in {p, a, b} THEN Bump(Ver(N, x)) ELSE Ver(N, x)
<1>1. /\ Forest(N, r) /\ Here(N, r) /\ Here(N, a) /\ Here(N, b) /\ p # a /\ p # b
      /\ \A k \in Bids : Kid(N, a, k) => ~Kid(N, b, k)
  BY DEF Map, Forest
<1>2. /\ \A x \in {p, a, b} : /\ N[x] \in Node /\ \A k \in Bids : Entry(N, x, k) = N[x].cpos[k]
                              /\ N[x].live /\ Pos(N, x) = N[x].pos /\ Ver(N, x) = N[x].ver
      /\ \A k \in C : k \in Bids /\ Kid(N, a, k)
  BY <1>1, ChildrenAreKids DEF Here, Pos, Ver
<1>3. /\ Here(M, p) /\ Pos(M, p) = Pos(N, p) /\ Ver(M, p) = Bump(Ver(N, p))
      /\ \A k \in Bids : Entry(M, p, k) = Entry(N, p, k)
  BY <1>2, TouchNode
<1>4. /\ Here(M, a) /\ Pos(M, a) = Pos(N, a) /\ Ver(M, a) = Bump(Ver(N, a))
      /\ \A k \in Bids : Entry(M, a, k) = IF k \in C THEN NoPos ELSE Entry(N, a, k)
  <2>1. N[a] \in Node /\ N[a].live /\ M[a] = Touch(Give(N[a], C))
    BY <1>2
  <2>2. /\ Here(M, a) /\ Pos(M, a) = N[a].pos /\ Ver(M, a) = Bump(N[a].ver)
        /\ \A k \in Bids : Entry(M, a, k) = IF k \in C THEN NoPos ELSE N[a].cpos[k]
    BY ONLY <2>1, GiveNode
  <2> QED BY <1>2, <2>2
<1>5. /\ Here(M, b) /\ Pos(M, b) = Pos(N, b) /\ Ver(M, b) = Bump(Ver(N, b))
      /\ \A k \in Bids : Entry(M, b, k) = IF k \in C THEN Entry(N, a, k) ELSE Entry(N, b, k)
  <2>1. N[a] \in Node /\ N[b] \in Node /\ N[b].live /\ M[b] = Touch(Take(N[b], N[a], C))
    BY <1>2
  <2>2. /\ Here(M, b) /\ Pos(M, b) = N[b].pos /\ Ver(M, b) = Bump(N[b].ver)
        /\ \A k \in Bids : Entry(M, b, k) = IF k \in C THEN N[a].cpos[k] ELSE N[b].cpos[k]
    BY ONLY <2>1, TakeNode
  <2> QED BY <1>2, <2>2
<1>6. Untouched(N, M, Bids \ {p, a, b})
  BY UntouchedNodes
<1>7. \A x \in Bids : /\ Here(M, x) <=> Here(N, x)
                      /\ Pos(M, x) = Pos(N, x)
                      /\ Ver(M, x) = IF x \in {p, a, b} THEN Bump(Ver(N, x)) ELSE Ver(N, x)
  BY <1>1, <1>3, <1>4, <1>5, <1>6 DEF Untouched
<1>8. \A x, k \in Bids : Entry(M, x, k) =
        IF x = a /\ k \in C THEN NoPos
        ELSE IF x = b /\ k \in C THEN Entry(N, a, k)
        ELSE Entry(N, x, k)
  BY <1>1, <1>3, <1>4, <1>5, <1>6 DEF Untouched
<1>9. \A x, k \in Bids : Kid(M, x, k) <=> \/ x = b /\ k \in C
                                          \/ Kid(N, x, k) /\ ~(x = a /\ k \in C)
  BY <1>1, <1>2, <1>8 DEF Kid
<1>10. \A k \in C : k # a /\ k # b /\ k # r
  BY <1>1, <1>2 DEF Forest
<1>11. Forest(M, r)
  BY <1>1, <1>2, <1>7, <1>9, <1>10 DEF Forest
<1>12. \A x, k \in Bids : Kid(M, x, k) => Pos(M, k) = Entry(M, x, k)
  <2>1. \A x, k \in Bids : Kid(N, x, k) => Pos(N, k) = Entry(N, x, k)
    BY DEF Map
  <2> QED BY <1>1, <1>2, <1>7, <1>8, <1>9, <2>1
<1> QED BY <1>1, <1>7, <1>9, <1>11, <1>12 DEF Map

LEMMA DeadNode ==
  ASSUME NEW n \in Node, NEW M, NEW x, M[x] = Dead(n)
  PROVE  ~Here(M, x) /\ Ver(M, x) = None /\ \A k \in Bids : Entry(M, x, k) = NoPos
BY DeadFields DEF Here, Ver, Entry

LEMMA MapMerge ==
  ASSUME NEW N \in CacheType, NEW r \in Bids, NEW rleaf, Map(N, r, rleaf),
         NEW p \in Bids, NEW a \in Bids, NEW b \in Bids, a # b,
         Kid(N, p, a), Kid(N, p, b), Here(N, p),
         NEW C \in SUBSET Bids, C = Children(N[b]), NEW D \in SUBSET Bids,
         \A k \in Bids : k \in D <=> k = b,
         NEW M, M[p] = Touch(Give(N[p], D)), M[a] = Touch(Take(N[a], N[b], C)),
         M[b] = Dead(N[b]), \A x \in Bids \ {p, a, b} : M[x] = N[x]
  PROVE  /\ Map(M, r, rleaf)
         /\ p # a /\ p # b
         /\ \A x, k \in Bids : Kid(M, x, k) <=>
              \/ x = a /\ Kid(N, b, k)
              \/ Kid(N, x, k) /\ x # b /\ ~(x = p /\ k = b)
         /\ \A x \in Bids : Ver(M, x) =
              IF x = b THEN None ELSE IF x \in {p, a} THEN Bump(Ver(N, x)) ELSE Ver(N, x)
<1>1. /\ Forest(N, r) /\ Here(N, r) /\ Here(N, a) /\ Here(N, b) /\ p # a /\ p # b /\ r # b
      /\ \A k \in Bids : Kid(N, b, k) => ~Kid(N, a, k)
      /\ \A k \in Bids : Kid(N, k, b) => k = p
  BY DEF Map, Forest
<1>2. /\ \A x \in {p, a, b} : /\ N[x] \in Node /\ \A k \in Bids : Entry(N, x, k) = N[x].cpos[k]
                              /\ N[x].live /\ Pos(N, x) = N[x].pos /\ Ver(N, x) = N[x].ver
      /\ \A k \in Bids : k \in C <=> Kid(N, b, k)
  BY <1>1, ChildrenAreKids DEF Here, Pos, Ver
<1>3. /\ Here(M, p) /\ Pos(M, p) = Pos(N, p) /\ Ver(M, p) = Bump(Ver(N, p))
      /\ \A k \in Bids : Entry(M, p, k) = IF k = b THEN NoPos ELSE Entry(N, p, k)
  <2>1. N[p] \in Node /\ N[p].live /\ M[p] = Touch(Give(N[p], D))
    BY <1>2
  <2>2. /\ Here(M, p) /\ Pos(M, p) = N[p].pos /\ Ver(M, p) = Bump(N[p].ver)
        /\ \A k \in Bids : Entry(M, p, k) = IF k \in D THEN NoPos ELSE N[p].cpos[k]
    BY ONLY <2>1, GiveNode
  <2> QED BY <1>2, <2>2
<1>4. /\ Here(M, a) /\ Pos(M, a) = Pos(N, a) /\ Ver(M, a) = Bump(Ver(N, a))
      /\ \A k \in Bids : Entry(M, a, k) = IF Kid(N, b, k) THEN Entry(N, b, k) ELSE Entry(N, a, k)
  <2>1. N[a] \in Node /\ N[a].live
    BY <1>2
  <2>3. N[b] \in Node
    BY <1>2
  <2>4. M[a] = Touch(Take(N[a], N[b], C))
    OBVIOUS
  <2>2. /\ Here(M, a) /\ Pos(M, a) = N[a].pos /\ Ver(M, a) = Bump(N[a].ver)
        /\ \A k \in Bids : Entry(M, a, k) = IF k \in C THEN N[b].cpos[k] ELSE N[a].cpos[k]
    BY ONLY <2>1, <2>3, <2>4, C \in SUBSET Bids, TakeNode
  <2> QED BY <1>2, <2>2
<1>5. ~Here(M, b) /\ Ver(M, b) = None /\ \A k \in Bids : Entry(M, b, k) = NoPos
  BY <1>2, DeadNode
<1>6. Untouched(N, M, Bids \ {p, a, b})
  BY UntouchedNodes
<1>7. \A x \in Bids : /\ Here(M, x) <=> Here(N, x) /\ x # b
                      /\ x # b => Pos(M, x) = Pos(N, x)
                      /\ Ver(M, x) = IF x = b THEN None
                                     ELSE IF x \in {p, a} THEN Bump(Ver(N, x)) ELSE Ver(N, x)
  BY <1>1, <1>3, <1>4, <1>5, <1>6 DEF Untouched
<1>8. \A x, k \in Bids : Entry(M, x, k) =
        IF x = b \/ (x = p /\ k = b) THEN NoPos
        ELSE IF x = a /\ Kid(N, b, k) THEN Entry(N, b, k)
        ELSE Entry(N, x, k)
  BY <1>1, <1>3, <1>4, <1>5, <1>6 DEF Untouched
<1>9. \A x, k \in Bids : Kid(M, x, k) <=> \/ x = a /\ Kid(N, b, k)
                                          \/ Kid(N, x, k) /\ x # b /\ ~(x = p /\ k = b)
  BY <1>1, <1>8 DEF Kid
<1>10. \A k \in Bids : Kid(N, b, k) => k # a /\ k # b /\ k # r
  BY <1>1 DEF Forest
<1>11. Forest(M, r)
  BY <1>1, <1>7, <1>9, <1>10 DEF Forest
<1>12. \A x, k \in Bids : Kid(M, x, k) => Pos(M, k) = Entry(M, x, k)
  <2>1. \A x, k \in Bids : Kid(N, x, k) => Pos(N, k) = Entry(N, x, k)
    BY DEF Map
  <2> QED BY <1>1, <1>7, <1>8, <1>9, <1>10, <2>1
<1> QED BY <1>1, <1>7, <1>9, <1>11, <1>12 DEF Map

LEMMA MapCollapse ==
  ASSUME NEW N \in CacheType, NEW r \in Bids, NEW rleaf, Map(N, r, rleaf),
         NEW c \in Bids, Kid(N, r, c),
         NEW M, M[r] = Dead(N[r]), \A x \in Bids \ {r} : M[x] = N[x]
  PROVE  /\ Map(M, c, Entry(N, r, c))
         /\ \A x, k \in Bids : Kid(M, x, k) <=> Kid(N, x, k) /\ x # r
         /\ \A x \in Bids : Ver(M, x) = IF x = r THEN None ELSE Ver(N, x)
<1>1. Forest(N, r) /\ Here(N, r) /\ Here(N, c) /\ r # c
  BY DEF Map, Forest
<1>2. N[r] \in Node
  BY <1>1, ChildrenAreKids
<1>3. ~Here(M, r) /\ Ver(M, r) = None /\ \A k \in Bids : Entry(M, r, k) = NoPos
  BY <1>2, DeadNode
<1>4. Untouched(N, M, Bids \ {r})
  BY UntouchedNodes
<1>5. \A x \in Bids : /\ Here(M, x) <=> Here(N, x) /\ x # r
                      /\ x # r => Pos(M, x) = Pos(N, x)
                      /\ Ver(M, x) = IF x = r THEN None ELSE Ver(N, x)
  BY <1>3, <1>4 DEF Untouched
<1>6. \A x, k \in Bids : Entry(M, x, k) = IF x = r THEN NoPos ELSE Entry(N, x, k)
  BY <1>3, <1>4 DEF Untouched
<1>7. \A x, k \in Bids : Kid(M, x, k) <=> Kid(N, x, k) /\ x # r
  BY <1>6 DEF Kid
<1>8. Forest(M, c)
  BY <1>1, <1>5, <1>7 DEF Forest
<1>9. Pos(N, c) = Entry(N, r, c) /\ \A x, k \in Bids : Kid(N, x, k) => Pos(N, k) = Entry(N, x, k)
  BY DEF Map
<1>10. \A x, k \in Bids : Kid(M, x, k) => Pos(M, k) = Entry(M, x, k)
  BY <1>1, <1>5, <1>6, <1>7, <1>9 DEF Forest
<1> QED BY <1>1, <1>5, <1>7, <1>8, <1>9, <1>10 DEF Map
-----------------------------------------------------------------------------
(***************************************************************************)
(* What the actions do to the current copies of the nodes.                 *)
(***************************************************************************)
LEMMA NodesType ==
  ASSUME TypeOK
  PROVE  /\ Nodes \in CacheType
         /\ \A x \in Bids : Nodes[x] = CurrentNode(x)
         /\ \A x \in Bids : Cached(x) => Nodes[x] = cache[x]
BY CurrentType DEF Nodes, CacheType, CurrentNode

\* A node the B-tree holds, seen in the tree.
LEMMA HeldNode ==
  ASSUME TypeOK, NEW x \in Bids, Held(x)
  PROVE  /\ Cached(x) /\ Nodes[x] = cache[x] /\ cache[x] \in Node /\ Here(Nodes, x)
         /\ Children(cache[x]) = {k \in Bids : Kid(Nodes, x, k)}
         /\ \A k \in Bids : Entry(Nodes, x, k) = cache[x].cpos[k]
<1>1. Cached(x) /\ Nodes[x] = cache[x] /\ Here(Nodes, x)
  BY NodesType DEF Held, Cached, Here
<1> QED BY <1>1, NodesType, ChildrenAreKids

\* A step that changes cached nodes in place.
LEMMA InPlaceNodes ==
  ASSUME UNCHANGED <<store, readviewmap, writeviewmap>>, NEW x \in Bids
  PROVE  /\ cache'[x] = cache[x] => Nodes'[x] = Nodes[x]
         /\ cache'[x] # None => Nodes'[x] = cache'[x]
BY DEF Nodes, CurrentNode, Holders, Current, Pending, Cached

\* A step that fetches paths into a cache d and then writes nodes there.
LEMMA FetchedNodes ==
  ASSUME UNCHANGED store, writeviewmap = {}, writeviewmap' = {}, NEW x \in Bids,
         NEW d, CurrentWith(d, readviewmap', x) = CurrentWith(cache, readviewmap, x)
  PROVE  /\ cache'[x] = d[x] => Nodes'[x] = Nodes[x]
         /\ cache'[x] # None => Nodes'[x] = cache'[x]
<1>1. Nodes[x] = CurrentWith(cache, readviewmap, x)
  BY CurrentIsWith DEF Nodes
<1>2. Nodes'[x] = CurrentWith(cache', readviewmap', x)
  BY DEF Nodes, CurrentNode, CurrentWith, CopyIn, HoldersWith, Holders, Current, Pending, Cached
<1> QED BY <1>1, <1>2 DEF CurrentWith

LEMMA UpdateTree ==
  ASSUME IInv, Map(Nodes, brootKey, brootPos), NEW x \in Bids, Update(x)
  PROVE  /\ Map(Nodes', brootKey', brootPos')
         /\ \A y \in Bids : Cached(y) => Cached(y)'
         /\ Here(Nodes, x)
         /\ \A p, c \in Bids : Entry(Nodes', p, c) = Entry(Nodes, p, c)
         /\ \A y \in Bids : Ver(Nodes', y) =
              IF y = x THEN Bump(Ver(Nodes, y)) ELSE Ver(Nodes, y)
<1> USE DEF IInv
<1>1. /\ UNCHANGED <<store, readviewmap, writeviewmap, brootKey, brootPos>>
      /\ cache' = [cache EXCEPT ![x] = Touch(@)] /\ Held(x)
  BY DEF Update, WriteInPlace, viewVars, rootVars
<1>2. Nodes[x] = cache[x] /\ cache[x] \in Node /\ Here(Nodes, x) /\ Nodes \in CacheType
  BY <1>1, HeldNode, NodesType
<1>3. cache'[x] = Touch(cache[x]) /\ cache'[x] # None /\ \A y \in Bids \ {x} : cache'[y] = cache[y]
  BY <1>1, <1>2, TouchFields, NodeFields DEF TypeOK
<1>4. Nodes'[x] = Touch(Nodes[x]) /\ \A y \in Bids \ {x} : Nodes'[y] = Nodes[y]
  BY <1>1, <1>2, <1>3, InPlaceNodes
<1>5. brootKey \in Bids
  BY DEF TypeOK
<1>6. \A y \in Bids : Cached(y) => Cached(y)'
  BY <1>3 DEF Cached
<1> QED BY <1>1, <1>2, <1>4, <1>5, <1>6, MapUpdate

LEMMA BorrowTree ==
  ASSUME IInv, Map(Nodes, brootKey, brootPos),
         NEW p \in Bids, NEW a \in Bids, NEW b \in Bids, Borrow(p, a, b)
  PROVE  /\ Map(Nodes', brootKey', brootPos')
         /\ \A x \in Bids : Cached(x) => Cached(x)'
         /\ p # a /\ p # b /\ Kid(Nodes, p, a) /\ Kid(Nodes, p, b)
         /\ \E C \in SUBSET Bids :
              /\ \A k \in C : Kid(Nodes, a, k)
              /\ \A x, k \in Bids : Kid(Nodes', x, k) <=>
                   (x = b /\ k \in C) \/ (Kid(Nodes, x, k) /\ ~(x = a /\ k \in C))
         /\ \A x \in Bids : Ver(Nodes', x) =
              IF x \in {p, a, b} THEN Bump(Ver(Nodes, x)) ELSE Ver(Nodes, x)
<1> USE DEF IInv
<1>1. /\ UNCHANGED <<store, readviewmap, writeviewmap, brootKey, brootPos>>
      /\ Held(p) /\ Held(a) /\ Held(b) /\ a # b
      /\ a \in Children(cache[p]) /\ b \in Children(cache[p])
  BY DEF Borrow, WriteInPlace, viewVars, rootVars
<1>2. PICK C \in SUBSET Children(cache[a]) :
        cache' = [cache EXCEPT ![p] = Touch(@), ![a] = Touch(Give(@, C)),
                               ![b] = Touch(Take(@, cache[a], C))]
  BY DEF Borrow
<1>3. /\ \A x \in {p, a, b} : Nodes[x] = cache[x] /\ cache[x] \in Node
      /\ Here(Nodes, p) /\ Nodes \in CacheType
      /\ Kid(Nodes, p, a) /\ Kid(Nodes, p, b)
      /\ \A k \in C : k \in Bids /\ Kid(Nodes, a, k)
  BY <1>1, HeldNode, NodesType
<1>4. p # a /\ p # b
  BY <1>3 DEF Map, Forest
<1>5. /\ cache'[p] = Touch(cache[p]) /\ cache'[a] = Touch(Give(cache[a], C))
      /\ cache'[b] = Touch(Take(cache[b], cache[a], C))
      /\ \A x \in Bids \ {p, a, b} : cache'[x] = cache[x]
  BY <1>1, <1>2, <1>4 DEF TypeOK
<1>6. \A x \in {p, a, b} : cache'[x] # None
  BY <1>3, <1>5, TouchFields, GiveFields, TakeFields, NodeFields
<1>7. /\ Nodes'[p] = Touch(Nodes[p]) /\ Nodes'[a] = Touch(Give(Nodes[a], C))
      /\ Nodes'[b] = Touch(Take(Nodes[b], Nodes[a], C))
      /\ \A x \in Bids \ {p, a, b} : Nodes'[x] = Nodes[x]
  BY <1>1, <1>3, <1>5, <1>6, InPlaceNodes
<1>8. C \in SUBSET Children(Nodes[a]) /\ brootKey \in Bids
  BY <1>3 DEF TypeOK
<1>9. /\ Map(Nodes', brootKey, brootPos)
      /\ \A x, k \in Bids : Kid(Nodes', x, k) <=>
           (x = b /\ k \in C) \/ (Kid(Nodes, x, k) /\ ~(x = a /\ k \in C))
      /\ \A x \in Bids : Ver(Nodes', x) =
           IF x \in {p, a, b} THEN Bump(Ver(Nodes, x)) ELSE Ver(Nodes, x)
  BY <1>1, <1>3, <1>7, <1>8, MapBorrow
<1>10. \A x \in Bids : Cached(x) => Cached(x)'
  BY <1>5, <1>6 DEF Cached
<1> QED BY <1>1, <1>3, <1>4, <1>9, <1>10

LEMMA MergeTree ==
  ASSUME IInv, Map(Nodes, brootKey, brootPos),
         NEW p \in Bids, NEW a \in Bids, NEW b \in Bids, Merge(p, a, b)
  PROVE  /\ Map(Nodes', brootKey', brootPos')
         /\ \A x \in Bids : Cached(x) => Cached(x)'
         /\ p # a /\ p # b /\ Kid(Nodes, p, a) /\ Kid(Nodes, p, b)
         /\ \A x, k \in Bids : Kid(Nodes', x, k) <=>
              \/ x = a /\ Kid(Nodes, b, k)
              \/ Kid(Nodes, x, k) /\ x # b /\ ~(x = p /\ k = b)
         /\ \A x \in Bids : Ver(Nodes', x) =
              IF x = b THEN None ELSE IF x \in {p, a} THEN Bump(Ver(Nodes, x)) ELSE Ver(Nodes, x)
<1> USE DEF IInv
<1>0. PICK C \in SUBSET Bids, D \in SUBSET Bids : C = Children(cache[b]) /\ D = {b}
  BY DEF Children
<1>1. /\ UNCHANGED <<store, readviewmap, writeviewmap, brootKey, brootPos>>
      /\ Held(p) /\ Held(a) /\ Held(b) /\ a # b
      /\ a \in Children(cache[p]) /\ b \in Children(cache[p])
  BY DEF Merge, WriteInPlace, viewVars, rootVars
<1>2. cache' = [cache EXCEPT ![p] = Touch(Give(@, D)),
                             ![a] = Touch(Take(@, cache[b], C)),
                             ![b] = [@ EXCEPT !.live = FALSE]]
  BY <1>0 DEF Merge
<1>3. /\ \A x \in {p, a, b} : Nodes[x] = cache[x] /\ cache[x] \in Node
      /\ Here(Nodes, p) /\ Nodes \in CacheType
      /\ Kid(Nodes, p, a) /\ Kid(Nodes, p, b)
  BY <1>1, HeldNode, NodesType
<1>4. p # a /\ p # b
  BY <1>3 DEF Map, Forest
<1>5. /\ cache'[p] = Touch(Give(cache[p], D))
      /\ cache'[a] = Touch(Take(cache[a], cache[b], C))
      /\ cache'[b] = Dead(cache[b])
      /\ \A x \in Bids \ {p, a, b} : cache'[x] = cache[x]
  BY <1>1, <1>2, <1>4 DEF TypeOK, Dead
<1>6. cache'[p] # None /\ cache'[a] # None /\ cache'[b] # None
  <2>1. cache'[p] # None
    BY <1>3, <1>5, TouchFields, GiveFields, NodeFields
  <2>2. cache'[a] # None
    BY <1>3, <1>5, TouchFields, TakeFields, NodeFields
  <2>3. cache'[b] # None
    BY <1>3, <1>5, DeadFields, NodeFields
  <2> QED BY <2>1, <2>2, <2>3
<1>7. /\ Nodes'[p] = Touch(Give(Nodes[p], D))
      /\ Nodes'[a] = Touch(Take(Nodes[a], Nodes[b], C))
      /\ Nodes'[b] = Dead(Nodes[b])
      /\ \A x \in Bids \ {p, a, b} : Nodes'[x] = Nodes[x]
  <2>1. Nodes'[p] = cache'[p] /\ Nodes'[a] = cache'[a] /\ Nodes'[b] = cache'[b]
    BY <1>1, <1>6, InPlaceNodes
  <2>2. \A x \in Bids \ {p, a, b} : Nodes'[x] = Nodes[x]
    BY <1>1, <1>5, InPlaceNodes
  <2> QED BY <1>3, <1>5, <2>1, <2>2
<1>8. brootKey \in Bids
  BY DEF TypeOK
<1>9. /\ Map(Nodes', brootKey, brootPos)
      /\ \A x, k \in Bids : Kid(Nodes', x, k) <=>
           \/ x = a /\ Kid(Nodes, b, k)
           \/ Kid(Nodes, x, k) /\ x # b /\ ~(x = p /\ k = b)
      /\ \A x \in Bids : Ver(Nodes', x) =
           IF x = b THEN None ELSE IF x \in {p, a} THEN Bump(Ver(Nodes, x)) ELSE Ver(Nodes, x)
  <2>1. Nodes \in CacheType /\ Here(Nodes, p) /\ Kid(Nodes, p, a) /\ Kid(Nodes, p, b) /\ a # b
    BY <1>1, <1>3
  <2>2. C = Children(Nodes[b])
    BY <1>0, <1>3
  <2>3. \A k \in Bids : k \in D <=> k = b
    BY <1>0
  <2> QED
    BY <2>1, <2>2, <2>3, <1>7, <1>8, MapMerge
<1>10. \A x \in Bids : Cached(x) => Cached(x)'
  BY <1>5, <1>6 DEF Cached
<1> QED BY <1>1, <1>3, <1>4, <1>9, <1>10

LEMMA CollapseTree ==
  ASSUME IInv, Map(Nodes, brootKey, brootPos), NEW c \in Bids, CollapseRoot(c)
  PROVE  /\ Map(Nodes', brootKey', brootPos')
         /\ \A x \in Bids : Cached(x) => Cached(x)'
         /\ \A k \in Bids : Kid(Nodes, brootKey, k) <=> k = c
         /\ \A x, k \in Bids : Kid(Nodes', x, k) <=> Kid(Nodes, x, k) /\ x # brootKey
         /\ \A x \in Bids : Ver(Nodes', x) = IF x = brootKey THEN None ELSE Ver(Nodes, x)
<1> USE DEF IInv
<1>1. /\ UNCHANGED <<store, readviewmap, writeviewmap>>
      /\ Held(brootKey) /\ Children(cache[brootKey]) = {c} /\ brootKey \in Bids
      /\ brootKey' = c /\ brootPos' = cache[brootKey].cpos[c]
      /\ cache' = [cache EXCEPT ![brootKey].live = FALSE]
  BY DEF CollapseRoot, viewVars, TypeOK
<1>2. /\ Nodes[brootKey] = cache[brootKey] /\ cache[brootKey] \in Node /\ Nodes \in CacheType
      /\ \A k \in Bids : Kid(Nodes, brootKey, k) <=> k = c
      /\ brootPos' = Entry(Nodes, brootKey, c)
  BY <1>1, HeldNode, NodesType
<1>3. /\ cache'[brootKey] = Dead(cache[brootKey])
      /\ \A x \in Bids \ {brootKey} : cache'[x] = cache[x]
  BY <1>1 DEF TypeOK, Dead
<1>4. cache'[brootKey] # None
  BY <1>2, <1>3, DeadFields, NodeFields
<1>5. /\ Nodes'[brootKey] = Dead(Nodes[brootKey])
      /\ \A x \in Bids \ {brootKey} : Nodes'[x] = Nodes[x]
  BY <1>1, <1>2, <1>3, <1>4, InPlaceNodes
<1>6. /\ Map(Nodes', c, Entry(Nodes, brootKey, c))
      /\ \A x, k \in Bids : Kid(Nodes', x, k) <=> Kid(Nodes, x, k) /\ x # brootKey
      /\ \A x \in Bids : Ver(Nodes', x) = IF x = brootKey THEN None ELSE Ver(Nodes, x)
  BY <1>1, <1>2, <1>5, MapCollapse
<1>7. \A x \in Bids : Cached(x) => Cached(x)'
  BY <1>3, <1>4 DEF Cached
<1> QED BY <1>1, <1>2, <1>6, <1>7

\* A bid that was not handed out yet is no node of the tree.
LEMMA FreshBid ==
  ASSUME IInv, NEW x \in Bids, x > nextbid
  PROVE  ~Here(Nodes, x)
BY DEF IInv, Locations, NewBidsAreFresh, Here, Nodes, CurrentNode, Cached, Holders, Current

LEMMA SplitChildTree ==
  ASSUME IInv, Map(Nodes, brootKey, brootPos), NEW p \in Bids, NEW y \in Bids,
         NEW z \in Bids, NEW leaf \in Leaves, SplitChild(p, y, z, leaf), IInv'
  PROVE  /\ Map(Nodes', brootKey', brootPos')
         /\ \A x \in Bids : Cached(x) \/ x \in {p, y, z} => Cached(x)'
         /\ p # y /\ p # z /\ y # z /\ Kid(Nodes, p, y) /\ ~Here(Nodes, z)
         /\ \E K \in SUBSET Bids :
              /\ \A k \in K : Kid(Nodes, y, k)
              /\ \A x, k \in Bids : Kid(Nodes', x, k) <=>
                   \/ x = p /\ k = z
                   \/ x = z /\ k \in K
                   \/ Kid(Nodes, x, k) /\ ~(x = y /\ k \in K)
         /\ \A x \in Bids : Ver(Nodes', x) =
              IF x = z THEN 0
              ELSE IF x \in {p, y} THEN Bump(Ver(Nodes, x)) ELSE Ver(Nodes, x)
<1> DEFINE d == FetchPath(cache, readviewmap, leaf)
<1> USE DEF IInv
<1>1. /\ UNCHANGED <<store, brootKey, brootPos>> /\ phase = "insert" /\ phase' = "insert"
      /\ Held(p) /\ Held(y) /\ y \in Children(cache[p]) /\ z > nextbid
      /\ readviewmap' = readviewmap \cup Path(leaf)
  BY BidsAssumption DEF SplitChild, TypeOK
<1>2. writeviewmap = {} /\ writeviewmap' = {}
  BY <1>1 DEF Bookkeeping, InOp
<1>3. /\ Nodes[p] = cache[p] /\ cache[p] \in Node /\ Nodes[y] = cache[y] /\ cache[y] \in Node
      /\ Here(Nodes, p) /\ Kid(Nodes, p, y) /\ Nodes \in CacheType
  BY <1>1, HeldNode, NodesType
<1>4. ~Here(Nodes, z)
  BY <1>1, FreshBid
<1>5. p # y /\ p # z /\ y # z
  BY <1>3, <1>4 DEF Map, Forest
<1>6. /\ d \in CacheType
      /\ \A x \in Bids : CurrentWith(d, readviewmap', x) = CurrentWith(cache, readviewmap, x)
  BY <1>1, <1>2, InOpCopies, FetchPathType, FetchKeepsCurrent DEF TypeOK, CacheType, Locations
<1>15. \A x \in Bids : cache[x] # None => d[x] # None
  BY FetchPathSource DEF TypeOK, CacheType
<1> HIDE DEF d
<1>7. PICK K \in SUBSET Children(cache[y]) :
        cache' = [d EXCEPT ![p] = Touch(SetChild(cache[p], z, leaf)),
                           ![y] = Touch(Give(cache[y], K)),
                           ![z] = Take(NewNode(leaf), cache[y], K)]
  BY DEF SplitChild, SplitSets, d
<1>8. /\ cache'[p] = Touch(SetChild(cache[p], z, leaf)) /\ cache'[y] = Touch(Give(cache[y], K))
      /\ cache'[z] = Take(NewNode(leaf), cache[y], K)
      /\ \A x \in Bids \ {p, y, z} : cache'[x] = d[x]
  BY <1>5, <1>6, <1>7 DEF CacheType
<1>9. cache'[p] # None /\ cache'[y] # None /\ cache'[z] # None
  <2>1. cache'[p] # None
    BY <1>3, <1>8, TouchFields, SetChildFields, NodeFields
  <2>2. cache'[y] # None
    BY <1>3, <1>8, TouchFields, GiveFields, NodeFields
  <2>3. cache'[z] # None
    BY <1>3, <1>8, NewNodeFields, TakeFields, NodeFields
  <2> QED BY <2>1, <2>2, <2>3
<1>10. /\ Nodes'[p] = cache'[p] /\ Nodes'[y] = cache'[y] /\ Nodes'[z] = cache'[z]
       /\ \A x \in Bids \ {p, y, z} : Nodes'[x] = Nodes[x]
  BY <1>1, <1>2, <1>6, <1>8, <1>9, FetchedNodes
<1>11. K \in SUBSET Children(Nodes[y]) /\ brootKey \in Bids
  BY <1>3 DEF TypeOK
<1>12. /\ Nodes'[p] = Touch(SetChild(Nodes[p], z, leaf)) /\ Nodes'[y] = Touch(Give(Nodes[y], K))
       /\ Nodes'[z] = Take(NewNode(leaf), Nodes[y], K)
  BY <1>3, <1>8, <1>10
<1>13. /\ Map(Nodes', brootKey, brootPos)
       /\ \A x, k \in Bids : Kid(Nodes', x, k) <=>
            \/ x = p /\ k = z
            \/ x = z /\ k \in K
            \/ Kid(Nodes, x, k) /\ ~(x = y /\ k \in K)
       /\ \A x \in Bids : Ver(Nodes', x) =
            IF x = z THEN 0
            ELSE IF x \in {p, y} THEN Bump(Ver(Nodes, x)) ELSE Ver(Nodes, x)
  BY <1>3, <1>4, <1>10, <1>11, <1>12, MapSplitChild
<1>14. K \in SUBSET Bids /\ \A k \in K : Kid(Nodes, y, k)
  BY <1>1, HeldNode
<1>16. \A x \in Bids : Cached(x) \/ x \in {p, y, z} => Cached(x)'
  BY <1>8, <1>9, <1>15 DEF Cached
<1> QED BY <1>1, <1>3, <1>4, <1>5, <1>13, <1>14, <1>16

LEMMA SplitRootTree ==
  ASSUME IInv, Map(Nodes, brootKey, brootPos), NEW s \in Bids, NEW z \in Bids,
         NEW sleaf \in Leaves, NEW zleaf \in Leaves, SplitRoot(s, z, sleaf, zleaf), IInv'
  PROVE  /\ Map(Nodes', brootKey', brootPos')
         /\ \A x \in Bids : Cached(x) \/ x \in {brootKey, s, z} => Cached(x)'
         /\ brootKey' = s /\ s # z /\ brootKey # s /\ brootKey # z
         /\ ~Here(Nodes, s) /\ ~Here(Nodes, z) /\ Here(Nodes, brootKey)
         /\ \E K \in SUBSET Bids :
              /\ \A k \in K : Kid(Nodes, brootKey, k)
              /\ \A x, k \in Bids : Kid(Nodes', x, k) <=>
                   \/ x = s /\ k \in {brootKey, z}
                   \/ x = z /\ k \in K
                   \/ Kid(Nodes, x, k) /\ ~(x = brootKey /\ k \in K)
         /\ \A x \in Bids : Ver(Nodes', x) =
              IF x \in {s, z} THEN 0
              ELSE IF x = brootKey THEN Bump(Ver(Nodes, x)) ELSE Ver(Nodes, x)
<1> DEFINE seen == readviewmap \cup Path(zleaf)
           f == FetchPath(cache, readviewmap, zleaf)
           d == FetchPath(f, seen, sleaf)
<1> USE DEF IInv
<1>1. /\ UNCHANGED store /\ phase = "insert" /\ phase' = "insert"
      /\ brootKey \in Bids /\ brootKey' = s /\ brootPos' = sleaf
      /\ Held(brootKey) /\ s > nextbid /\ z > nextbid /\ s # z
      /\ readviewmap' = seen \cup Path(sleaf)
  BY BidsAssumption DEF SplitRoot, TypeOK
<1>2. writeviewmap = {} /\ writeviewmap' = {}
  BY <1>1 DEF Bookkeeping, InOp
<1> DEFINE r == brootKey
<1>3. /\ Nodes[r] = cache[r] /\ cache[r] \in Node /\ Here(Nodes, r) /\ Nodes \in CacheType
      /\ Children(cache[r]) = {k \in Bids : Kid(Nodes, r, k)}
  BY <1>1, HeldNode, NodesType
<1>4. ~Here(Nodes, s) /\ ~Here(Nodes, z) /\ r # s /\ r # z
  BY <1>1, <1>3, FreshBid
<1>5. /\ d \in CacheType
      /\ \A x \in Bids : CurrentWith(d, readviewmap', x) = CurrentWith(cache, readviewmap, x)
      /\ \A x \in Bids : cache[x] # None => d[x] # None
  <2>1. cache \in CacheType /\ OneCopyWith(cache, readviewmap)
    BY <1>2, InOpCopies DEF TypeOK, CacheType, Locations
  <2>2. /\ f \in CacheType /\ OneCopyWith(f, seen)
        /\ \A x \in Bids : CurrentWith(f, seen, x) = CurrentWith(cache, readviewmap, x)
        /\ \A x \in Bids : cache[x] # None => f[x] # None
    BY <2>1, FetchPathType, FetchPathOneCopy, FetchPathSource, FetchKeepsCurrent
  <2> HIDE DEF f
  <2>3. /\ d \in CacheType
        /\ \A x \in Bids : CurrentWith(d, seen \cup Path(sleaf), x) = CurrentWith(f, seen, x)
        /\ \A x \in Bids : f[x] # None => d[x] # None
    BY <2>2, FetchPathType, FetchPathSource, FetchKeepsCurrent
  <2> QED BY <1>1, <2>2, <2>3
<1>6. PICK K \in SUBSET Children(cache[r]) :
        cache' = [d EXCEPT
                   ![r] = Touch(Give(cache[r], K)),
                   ![z] = Take(NewNode(zleaf), cache[r], K),
                   ![s] = SetChild(SetChild(NewNode(sleaf), r, cache[r].pos), z, zleaf)]
  BY DEF SplitRoot, SplitSets
<1> HIDE DEF d, r
<1>7. /\ cache'[r] = Touch(Give(cache[r], K)) /\ cache'[z] = Take(NewNode(zleaf), cache[r], K)
      /\ cache'[s] = SetChild(SetChild(NewNode(sleaf), r, cache[r].pos), z, zleaf)
      /\ \A x \in Bids \ {r, s, z} : cache'[x] = d[x]
  BY <1>1, <1>4, <1>5, <1>6 DEF CacheType, r
<1>8. cache'[r] # None /\ cache'[z] # None /\ cache'[s] # None
  <2>1. cache'[r] # None
    BY <1>3, <1>7, TouchFields, GiveFields, NodeFields
  <2>2. cache'[z] # None
    BY <1>3, <1>7, NewNodeFields, TakeFields, NodeFields
  <2>3. cache[r].pos \in Leaves /\ r \in Bids
    BY <1>1, <1>3, NodeFields DEF r
  <2>4. Here(cache', s)
    BY <1>7, <2>3, RootNode
  <2> QED BY <2>1, <2>2, <2>4 DEF Here
<1>9. /\ Nodes'[r] = cache'[r] /\ Nodes'[z] = cache'[z] /\ Nodes'[s] = cache'[s]
      /\ \A x \in Bids \ {r, s, z} : Nodes'[x] = Nodes[x]
  BY <1>1, <1>2, <1>5, <1>7, <1>8, FetchedNodes DEF r
<1>10. /\ Nodes'[r] = Touch(Give(Nodes[r], K)) /\ Nodes'[z] = Take(NewNode(zleaf), Nodes[r], K)
       /\ Nodes'[s] = SetChild(SetChild(NewNode(sleaf), r, Nodes[r].pos), z, zleaf)
  BY <1>3, <1>7, <1>9
<1>11. K \in SUBSET Children(Nodes[r]) /\ r \in Bids /\ Map(Nodes, r, brootPos) /\ s # z
  BY <1>1, <1>3 DEF r
<1>12. /\ Map(Nodes', s, sleaf)
       /\ \A x, k \in Bids : Kid(Nodes', x, k) <=>
            \/ x = s /\ k \in {r, z}
            \/ x = z /\ k \in K
            \/ Kid(Nodes, x, k) /\ ~(x = r /\ k \in K)
       /\ \A x \in Bids : Ver(Nodes', x) =
            IF x \in {s, z} THEN 0 ELSE IF x = r THEN Bump(Ver(Nodes, x)) ELSE Ver(Nodes, x)
  BY <1>3, <1>4, <1>9, <1>10, <1>11, MapSplitRoot
<1>13. K \in SUBSET Bids /\ \A k \in K : Kid(Nodes, r, k)
  BY <1>3, <1>6
<1>14. \A x \in Bids : Cached(x) \/ x \in {r, s, z} => Cached(x)'
  BY <1>5, <1>7, <1>8 DEF Cached
<1> QED BY <1>1, <1>3, <1>4, <1>12, <1>13, <1>14 DEF r

\* A read and the fetch of a random path change no node, and a read cannot fail:
\* the node is in the cache or on the path of the leaf recorded for it.
LEMMA ReadTree ==
  ASSUME IInv, phase \in {"insert", "remove"}, NEW c \in Bids, NEW leaf \in Leaves, NEW mh,
         Here(Nodes, c), Pos(Nodes, c) = leaf, ReadBTreeNode(c, leaf, mh)
  PROVE  Nodes' = Nodes /\ Found(c, mh) /\ \A x \in Bids : Cached(x) \/ x = c => Cached(x)'
<1> USE DEF IInv
<1>1. UNCHANGED <<store, writeviewmap>> /\ writeviewmap = {}
  BY DEF ReadBTreeNode, Bookkeeping, InOp
<1>2. CASE ReadCached(c, mh)
  <2>1. Nodes' = Nodes
    BY <1>1, <1>2 DEF ReadCached, Nodes, CurrentNode, Holders, Current, Pending, Cached
  <2> QED BY <1>2, <2>1 DEF ReadCached, Cached
<1>3. CASE ReadFetched(c, leaf, mh)
  <2>1. cache' = FetchPath(cache, readviewmap, leaf) /\ readviewmap' = readviewmap \cup Path(leaf)
    BY <1>3 DEF ReadFetched
  <2>2. cache \in CacheType /\ OneCopyWith(cache, readviewmap)
    BY <1>1, InOpCopies DEF TypeOK, CacheType, Locations
  <2>3. \A x \in Bids : CurrentWith(cache', readviewmap', x) = CurrentWith(cache, readviewmap, x)
    BY <2>1, <2>2, FetchKeepsCurrent
  <2>4. \A x \in Bids : Nodes'[x] = Nodes[x]
    BY <1>1, <2>3, FetchedNodes
  <2>5. Nodes' = Nodes
    BY <2>4 DEF Nodes
  <2>6. \A x \in Bids : cache[x] # None => cache'[x] # None
    BY <2>1, <2>2, FetchPathSource
  <2>7. cache[c] = None /\ Nodes[c] = CurrentWith(cache, readviewmap, c) /\ Nodes[c] # None
    BY <1>1, <1>3, CurrentIsWith DEF ReadFetched, Cached, Nodes, Here
  <2>8. PICK b \in HoldersWith(readviewmap, c) : Nodes[c] = store[b][c]
    BY <2>7 DEF CurrentWith, CopyIn
  <2>9. b \in Path(leaf) \ readviewmap /\ store[b][c] # None
    <3>1. b \in Current /\ store[b][c] # None
      BY <1>1, <2>8 DEF HoldersWith, Current, Pending
    <3>2. b \in Path(store[b][c].pos)
      BY <3>1 DEF Locations, OnItsPath
    <3> QED BY <2>8, <3>1, <3>2 DEF HoldersWith, Pos
  <2>10. cache'[c] # None
    <3>1. b \in Sources(readviewmap, leaf, c)
      BY <2>9 DEF Sources
    <3>2. (CHOOSE s \in Sources(readviewmap, leaf, c) : TRUE) \in Sources(readviewmap, leaf, c)
      BY <3>1
    <3>3. cache'[c] = store[CHOOSE s \in Sources(readviewmap, leaf, c) : TRUE][c]
      BY <2>1, <2>7, <3>1 DEF FetchPath
    <3> QED BY <3>2, <3>3 DEF Sources
  <2> QED BY <1>3, <2>5, <2>6, <2>10 DEF ReadFetched, Cached
<1> QED BY <1>2, <1>3 DEF ReadBTreeNode

LEMMA PadTree ==
  ASSUME IInv, NEW rnd \in Leaves, PadPath(rnd)
  PROVE  Nodes' = Nodes /\ \A x \in Bids : Cached(x) => Cached(x)'
<1>1. Nodes' = Nodes
  BY PadContent DEF Nodes
<1>2. cache \in CacheType /\ cache' = FetchPath(cache, readviewmap, rnd)
  BY DEF PadPath, IInv, TypeOK, CacheType
<1> QED BY <1>1, <1>2, FetchPathSource DEF Cached

\* A turn of the remapping loop draws new leaves for some cached nodes, and
\* records in them the leaves of their cached children.
LEMMA RemapTree ==
  ASSUME IInv, NEW newPos \in [Remapped(level) -> Leaves], RemapHeight(newPos)
  PROVE  /\ \A x \in Bids : Cached(x)' <=> Cached(x)
         /\ \A x \in Bids : /\ Here(Nodes', x) <=> Here(Nodes, x)
                            /\ Ver(Nodes', x) = Ver(Nodes, x)
                            /\ x \notin Remapped(level) => Pos(Nodes', x) = Pos(Nodes, x)
         /\ \A x, k \in Bids :
              Entry(Nodes', x, k) =
                IF x \in Remapped(level) /\ Kid(Nodes, x, k) /\ Cached(k)
                THEN Pos(Nodes, k) ELSE Entry(Nodes, x, k)
<1> USE DEF IInv
<1>1. UNCHANGED <<store, readviewmap, writeviewmap>>
  BY DEF RemapHeight, viewVars
<1>2. ASSUME NEW x \in Bids, x \notin Remapped(level)
      PROVE  /\ Cached(x)' <=> Cached(x)
             /\ Here(Nodes', x) <=> Here(Nodes, x)
             /\ Ver(Nodes', x) = Ver(Nodes, x) /\ Pos(Nodes', x) = Pos(Nodes, x)
             /\ \A k \in Bids : Entry(Nodes', x, k) = Entry(Nodes, x, k)
  <2>1. cache'[x] = cache[x]
    BY <1>2 DEF RemapHeight
  <2>2. Nodes'[x] = Nodes[x]
    BY <1>1, <2>1, InPlaceNodes
  <2> QED BY <2>1, <2>2, SameNode DEF Cached
<1>3. ASSUME NEW x \in Remapped(level), NEW q, 
             q = [k \in Bids |-> IF cache[x].cpos[k] # NoPos /\ Cached(k) THEN cache[k].pos
                                                                       ELSE cache[x].cpos[k]]
      PROVE  /\ x \in Bids
             /\ Cached(x) /\ Cached(x)'
             /\ Here(Nodes', x) <=> Here(Nodes, x)
             /\ Ver(Nodes', x) = Ver(Nodes, x)
             /\ \A k \in Bids : Entry(Nodes', x, k) =
                  IF Kid(Nodes, x, k) /\ Cached(k) THEN Pos(Nodes, k) ELSE Entry(Nodes, x, k)
  <2>1. x \in Bids /\ Cached(x) /\ cache[x] \in Node /\ newPos[x] \in Leaves
    BY <1>3 DEF Remapped, Cached, TypeOK
  <2>2. \A k \in Bids : Cached(k) => cache[k].pos \in Leaves /\ Pos(Nodes, k) = cache[k].pos
    BY NodesType DEF Cached, TypeOK, Node, Pos
  <2>3. cache'[x] = [cache[x] EXCEPT !.pos = newPos[x], !.cpos = q]
    BY <1>3, <2>1 DEF RemapHeight
  <2>4. /\ q \in [Bids -> Leaves \cup {NoPos}]
        /\ \A k \in Bids : q[k] = IF cache[x].cpos[k] # NoPos /\ Cached(k) THEN cache[k].pos
                                                                         ELSE cache[x].cpos[k]
    BY <1>3, <2>1, <2>2 DEF Node
  <2>5. /\ cache'[x] \in Node /\ cache'[x].cpos = q
        /\ cache'[x].live = cache[x].live /\ cache'[x].ver = cache[x].ver
    BY <2>1, <2>3, <2>4 DEF Node
  <2>6. cache'[x] # None
    BY <2>5, NodeFields
  <2>7. Nodes[x] = cache[x] /\ Nodes'[x] = cache'[x]
    BY <1>1, <2>1, <2>6, InPlaceNodes, NodesType
  <2>8. /\ Here(Nodes', x) <=> Here(Nodes, x)
        /\ Ver(Nodes', x) = Ver(Nodes, x)
        /\ Here(Nodes, x) => \A k \in Bids : /\ Entry(Nodes, x, k) = cache[x].cpos[k]
                                             /\ Entry(Nodes', x, k) = q[k]
        /\ ~Here(Nodes, x) => \A k \in Bids : Entry(Nodes, x, k) = NoPos /\ Entry(Nodes', x, k) = NoPos
    BY <2>1, <2>5, <2>6, <2>7, NodeFields DEF Here, Ver, Entry
  <2>9. \A k \in Bids : Entry(Nodes', x, k) =
          IF Kid(Nodes, x, k) /\ Cached(k) THEN Pos(Nodes, k) ELSE Entry(Nodes, x, k)
    BY <2>2, <2>4, <2>8 DEF Kid
  <2> QED BY <2>1, <2>6, <2>8, <2>9 DEF Cached
<1> QED BY <1>2, <1>3

LEMMA WriteTree ==
  ASSUME IInv, IInv', WriteLevel
  PROVE  \A x \in Bids : /\ Here(Nodes', x) <=> Here(Nodes, x)
                         /\ Ver(Nodes', x) = Ver(Nodes, x)
                         /\ Here(Nodes, x) => Pos(Nodes', x) = Pos(Nodes, x)
                         /\ \A k \in Bids : Entry(Nodes', x, k) = Entry(Nodes, x, k)
<1> SUFFICES ASSUME NEW x \in Bids
             PROVE  /\ Here(Nodes', x) <=> Here(Nodes, x)
                    /\ Ver(Nodes', x) = Ver(Nodes, x)
                    /\ Here(Nodes, x) => Pos(Nodes', x) = Pos(Nodes, x)
                    /\ \A k \in Bids : Entry(Nodes', x, k) = Entry(Nodes, x, k)
  OBVIOUS
<1>1. \/ Nodes'[x] = Nodes[x]
      \/ Nodes[x] # None /\ ~Nodes[x].live /\ Nodes'[x] = None
  <2>1. Nodes[x] = CurrentNode(x) /\ Nodes'[x] = CurrentNode(x)'
    BY DEF Nodes
  <2> QED BY <2>1, WriteNode
<1> QED BY <1>1 DEF Here, Ver, Pos, Entry
-----------------------------------------------------------------------------
(***************************************************************************)
(* The invariant.                                                          *)
(***************************************************************************)
\* An insertion passes no heights: none of its nodes is remapped.
LEMMA InsertHeights ==
  ASSUME TypeOK', Heights, phase = "insert", phase' = "insert", UNCHANGED hstash,
         \A x \in modified' : Cached(x)'
  PROVE  Heights'
<1>1. \A x \in Bids : hstash'[x] = None
  BY DEF Heights
<1>2. \A x \in Bids : ~HeightKnown(x)'
  BY <1>1 DEF HeightKnown
<1> QED BY <1>1, <1>2 DEF Heights

\* A node that changes its parent moves to one read at the same height.
LEMMA SameHeights ==
  ASSUME Heights, UNCHANGED <<hstash, modified>>, InOp, InOp', modified \subseteq Bids,
         \A x \in Bids : Cached(x) => Cached(x)',
         phase' \in {"insert", "remove"} => phase' = phase /\ brootKey' = brootKey,
         \A p, c \in Bids : Kid(Nodes', p, c) /\ HeightKnown(c) =>
           \E q \in Bids : /\ Kid(Nodes, q, c)
                           /\ HeightKnown(q) => HeightKnown(p) /\ hstash[p] = hstash[q]
  PROVE  Heights'
<1>1. \A x : HeightKnown(x)' <=> HeightKnown(x)
  BY DEF HeightKnown
<1>2. /\ phase' = "insert" => \A x \in Bids : hstash'[x] = None
      /\ phase' = "remove" /\ HeightKnown(brootKey)' => hstash'[brootKey'] = maxHeight
  BY DEF Heights, HeightKnown
<1>3. /\ \A x \in modified' : Cached(x)'
      /\ \A x \in Bids : HeightKnown(x)' => hstash'[x] <= maxHeight
  BY <1>1 DEF Heights
<1>4. ASSUME NEW p \in Bids, NEW c \in Bids, Kid(Nodes', p, c), HeightKnown(c)
      PROVE  HeightKnown(p) /\ hstash[p] = hstash[c] + 1
  <2>1. PICK q \in Bids : /\ Kid(Nodes, q, c)
                          /\ HeightKnown(q) => HeightKnown(p) /\ hstash[p] = hstash[q]
    BY <1>4
  <2>2. HeightKnown(q) /\ hstash[q] = hstash[c] + 1
    BY <1>4, <2>1 DEF Heights
  <2> QED BY <2>1, <2>2
<1> QED BY <1>1, <1>2, <1>3, <1>4 DEF Heights

LEMMA ReadStep ==
  ASSUME IInv, IInv', TreeInv, ReadRoot \/ \E p, c \in Bids : ReadChild(p, c)
  PROVE  TreeInv' /\ Nodes' = Nodes /\ UNCHANGED brootKey
<1> USE DEF IInv
<1>1. phase \in {"insert", "remove"} /\ ~failed /\ Map(Nodes, brootKey, brootPos) /\ brootKey \in Bids
  BY DEF ReadRoot, ReadChild, TreeInv, LeavesAreKnown, TypeOK
\* What is read: the root at the height of the tree, or the child of a node
\* read before at the height below.
<1> DEFINE IsRead(c, leaf, mh) ==
      /\ Here(Nodes, c) /\ Pos(Nodes, c) = leaf /\ ReadBTreeNode(c, leaf, mh)
      /\ \/ c = brootKey /\ mh = maxHeight
         \/ \E p \in Bids : Kid(Nodes, p, c) /\ mh = hstash[p] - 1 /\ p \in modified
<1>0. PICK c \in Bids, leaf \in Leaves : \E mh : IsRead(c, leaf, mh)
  <2>1. CASE ReadRoot
    <3>1. Here(Nodes, brootKey) /\ Pos(Nodes, brootKey) = brootPos /\ brootPos \in Leaves
      BY <1>1 DEF Map, Forest, TypeOK
    <3>2. IsRead(brootKey, brootPos, maxHeight)
      BY <2>1, <3>1 DEF ReadRoot
    <3> QED BY <1>1, <3>1, <3>2
  <2>2. ASSUME NEW p \in Bids, NEW c \in Bids, ReadChild(p, c)
        PROVE  cache[p].cpos[c] \in Leaves /\ IsRead(c, cache[p].cpos[c], hstash[p] - 1)
    <3>1. Held(p) /\ c \in Children(cache[p]) /\ ReadBTreeNode(c, cache[p].cpos[c], hstash[p] - 1)
      BY <2>2 DEF ReadChild, ChildHeight
    <3>2. Kid(Nodes, p, c) /\ Entry(Nodes, p, c) = cache[p].cpos[c] /\ cache[p] \in Node
      BY <3>1, HeldNode
    <3>3. Here(Nodes, c) /\ Pos(Nodes, c) = cache[p].cpos[c]
      BY <1>1, <3>2 DEF Map, Forest
    <3>4. cache[p].cpos[c] \in Leaves
      BY <3>2, NodeFields DEF Kid
    <3> QED BY <3>1, <3>2, <3>3, <3>4 DEF Held
  <2> HIDE DEF IsRead
  <2> QED BY <2>1, <2>2
<1>2. PICK mh : IsRead(c, leaf, mh)
  BY <1>0
<1>3. /\ Nodes' = Nodes /\ Found(c, mh) /\ \A x \in Bids : Cached(x) \/ x = c => Cached(x)'
      /\ UNCHANGED <<brootKey, brootPos, phase>>
  BY <1>1, <1>2, ReadTree DEF ReadBTreeNode, rootVars
<1>4. LeavesAreKnown' /\ ~failed'
  BY <1>1, <1>3 DEF LeavesAreKnown, Found
<1>5. modified' = modified \cup {c} /\ \A x \in modified' : Cached(x)'
  BY <1>1, <1>3 DEF Found, TreeInv, Heights, InOp, TypeOK
<1>6. ASSUME phase = "insert"
      PROVE  Heights'
  BY <1>3, <1>5, <1>6, InsertHeights DEF Found, TreeInv
<1>7. ASSUME phase = "remove"
      PROVE  Heights'
  <2>1. hstash' = [hstash EXCEPT ![c] = mh]
    BY <1>3, <1>7 DEF Found
  <2>2. \A x \in modified : hstash[x] \in Int /\ HeightKnown(x)
    BY <1>7, NoneAssumption DEF Bookkeeping, HeightKnown
  <2>3. \A p, k \in Bids : Kid(Nodes, p, k) /\ HeightKnown(k) =>
          HeightKnown(p) /\ hstash[p] = hstash[k] + 1
    BY <1>7 DEF TreeInv, Heights, InOp
  <2>4. \A x \in Bids : HeightKnown(x) => hstash[x] <= maxHeight /\ hstash[x] \in Int
    BY <1>7, <2>2 DEF TreeInv, Heights, InOp, HeightKnown
  <2>5. mh \in Int /\ mh <= maxHeight /\ (HeightKnown(c) => hstash[c] = mh)
    <3>1. CASE c = brootKey /\ mh = maxHeight
      BY <1>7, <3>1, NumbersAssumption DEF TreeInv, Heights
    <3>2. ASSUME NEW p \in Bids, Kid(Nodes, p, c), mh = hstash[p] - 1, p \in modified
          PROVE  mh \in Int /\ mh <= maxHeight /\ (HeightKnown(c) => hstash[c] = mh)
      BY <2>2, <2>3, <2>4, <3>2, NumbersAssumption
    <3> QED BY <1>2, <3>1, <3>2
  <2>6. \A x \in Bids : /\ HeightKnown(x)' <=> HeightKnown(x) \/ x = c
                        /\ HeightKnown(x) => hstash'[x] = hstash[x]
                        /\ hstash'[c] = mh
    BY <1>5, <2>1, <2>2, <2>5, NoneAssumption DEF HeightKnown, TypeOK
  <2>7. HeightKnown(brootKey)' => hstash'[brootKey'] = maxHeight
    <3>1. c = brootKey => mh = maxHeight
      BY <1>1, <1>2 DEF Map, Forest
    <3> QED BY <1>3, <1>7, <2>6, <3>1, <1>1 DEF TreeInv, Heights
  <2>8. ASSUME NEW p \in Bids, NEW k \in Bids, Kid(Nodes, p, k), HeightKnown(k)'
        PROVE  HeightKnown(p)' /\ hstash'[p] = hstash'[k] + 1
    <3>1. CASE HeightKnown(k)
      BY <2>3, <2>6, <2>8, <3>1
    <3>2. CASE k = c
      <4>1. PICK q \in Bids : Kid(Nodes, q, c) /\ mh = hstash[q] - 1 /\ q \in modified
        BY <1>1, <1>2, <2>8, <3>2 DEF Map, Forest
      <4>2. q = p
        BY <1>1, <2>8, <3>2, <4>1 DEF Map, Forest
      <4> QED BY <2>2, <2>6, <3>2, <4>1, <4>2
    <3> QED BY <2>6, <2>8, <3>1, <3>2
  <2>9. \A x \in Bids : HeightKnown(x)' => hstash'[x] <= maxHeight
    BY <2>4, <2>5, <2>6
  <2> QED BY <1>3, <1>5, <1>7, <2>7, <2>8, <2>9 DEF Heights
<1> QED BY <1>1, <1>3, <1>4, <1>6, <1>7 DEF TreeInv

\* The B-tree's operations, one by one.
LEMMA UpdateStep ==
  ASSUME IInv, TreeInv, NEW x \in Bids, Update(x)
  PROVE  TreeInv'
<1> USE DEF IInv
<1>1. /\ phase \in {"insert", "remove"} /\ ~failed /\ Map(Nodes, brootKey, brootPos)
      /\ UNCHANGED <<hstash, modified, failed, phase, brootKey>> /\ modified \subseteq Bids
  BY DEF Update, WriteInPlace, opVars, rootVars, TreeInv, LeavesAreKnown, TypeOK
<1>2. /\ Map(Nodes', brootKey', brootPos') /\ \A y \in Bids : Cached(y) => Cached(y)'
      /\ \A p, c \in Bids : Entry(Nodes', p, c) = Entry(Nodes, p, c)
  BY <1>1, UpdateTree
<1>3. \A p, c \in Bids : Kid(Nodes', p, c) <=> Kid(Nodes, p, c)
  BY <1>2 DEF Kid
<1>4. Heights'
  BY <1>1, <1>2, <1>3, SameHeights DEF TreeInv, InOp
<1> QED BY <1>1, <1>2, <1>4 DEF TreeInv, LeavesAreKnown

\* Siblings that were both read were read at the same height.
LEMMA SiblingHeights ==
  ASSUME IInv, TreeInv, phase = "remove", NEW p \in Bids, NEW a \in Bids, NEW b \in Bids,
         Held(p), Held(a), Held(b), Kid(Nodes, p, a), Kid(Nodes, p, b)
  PROVE  HeightKnown(a) /\ HeightKnown(b) /\ hstash[a] = hstash[b]
<1>1. /\ hstash[a] \in Int /\ hstash[b] \in Int /\ a \in modified /\ b \in modified
  BY DEF IInv, Bookkeeping, Held
<1>2. HeightKnown(a) /\ HeightKnown(b)
  BY <1>1, NoneAssumption DEF HeightKnown
<1>3. hstash[p] = hstash[a] + 1 /\ hstash[p] = hstash[b] + 1
  BY <1>2 DEF TreeInv, Heights, InOp
<1> QED BY <1>1, <1>2, <1>3

LEMMA BorrowStep ==
  ASSUME IInv, TreeInv, NEW p \in Bids, NEW a \in Bids, NEW b \in Bids, Borrow(p, a, b)
  PROVE  TreeInv'
<1> USE DEF IInv
<1>1. /\ phase = "remove" /\ ~failed /\ Map(Nodes, brootKey, brootPos)
      /\ UNCHANGED <<hstash, modified, failed, phase, brootKey>> /\ modified \subseteq Bids
      /\ Held(p) /\ Held(a) /\ Held(b)
  BY DEF Borrow, WriteInPlace, opVars, rootVars, TreeInv, LeavesAreKnown, TypeOK
<1>2. /\ Map(Nodes', brootKey', brootPos') /\ \A x \in Bids : Cached(x) => Cached(x)'
      /\ Kid(Nodes, p, a) /\ Kid(Nodes, p, b)
      /\ \A x, k \in Bids : Kid(Nodes', x, k) =>
           Kid(Nodes, x, k) \/ (x = b /\ Kid(Nodes, a, k))
  <2>1. /\ Map(Nodes', brootKey', brootPos') /\ \A x \in Bids : Cached(x) => Cached(x)'
        /\ Kid(Nodes, p, a) /\ Kid(Nodes, p, b)
    BY <1>1, BorrowTree
  <2>2. PICK C \in SUBSET Bids :
          /\ \A k \in C : Kid(Nodes, a, k)
          /\ \A x, k \in Bids : Kid(Nodes', x, k) <=>
               (x = b /\ k \in C) \/ (Kid(Nodes, x, k) /\ ~(x = a /\ k \in C))
    BY <1>1, BorrowTree
  <2>3. ASSUME NEW x \in Bids, NEW k \in Bids, Kid(Nodes', x, k)
        PROVE  Kid(Nodes, x, k) \/ (x = b /\ Kid(Nodes, a, k))
    BY <2>2, <2>3
  <2> QED BY <2>1, <2>3
<1>3. HeightKnown(a) /\ HeightKnown(b) /\ hstash[a] = hstash[b]
  BY <1>1, <1>2, SiblingHeights
<1>4. Heights'
  BY <1>1, <1>2, <1>3, SameHeights DEF TreeInv, InOp
<1> QED BY <1>1, <1>2, <1>4 DEF TreeInv, LeavesAreKnown

LEMMA MergeStep ==
  ASSUME IInv, TreeInv, NEW p \in Bids, NEW a \in Bids, NEW b \in Bids, Merge(p, a, b)
  PROVE  TreeInv'
<1> USE DEF IInv
<1>1. /\ phase = "remove" /\ ~failed /\ Map(Nodes, brootKey, brootPos)
      /\ UNCHANGED <<hstash, modified, failed, phase, brootKey>> /\ modified \subseteq Bids
      /\ Held(p) /\ Held(a) /\ Held(b)
  BY DEF Merge, WriteInPlace, opVars, rootVars, TreeInv, LeavesAreKnown, TypeOK
<1>2. /\ Map(Nodes', brootKey', brootPos') /\ \A x \in Bids : Cached(x) => Cached(x)'
      /\ Kid(Nodes, p, a) /\ Kid(Nodes, p, b)
      /\ \A x, k \in Bids : Kid(Nodes', x, k) =>
           Kid(Nodes, x, k) \/ (x = a /\ Kid(Nodes, b, k))
  <2>1. /\ Map(Nodes', brootKey', brootPos') /\ \A x \in Bids : Cached(x) => Cached(x)'
        /\ Kid(Nodes, p, a) /\ Kid(Nodes, p, b)
    BY <1>1, MergeTree
  <2>2. \A x, k \in Bids : Kid(Nodes', x, k) <=>
          \/ x = a /\ Kid(Nodes, b, k)
          \/ Kid(Nodes, x, k) /\ x # b /\ ~(x = p /\ k = b)
    BY <1>1, MergeTree
  <2>3. ASSUME NEW x \in Bids, NEW k \in Bids, Kid(Nodes', x, k)
        PROVE  Kid(Nodes, x, k) \/ (x = a /\ Kid(Nodes, b, k))
    BY <2>2, <2>3
  <2> QED BY <2>1, <2>3
<1>3. HeightKnown(a) /\ HeightKnown(b) /\ hstash[a] = hstash[b]
  BY <1>1, <1>2, SiblingHeights
<1>4. Heights'
  BY <1>1, <1>2, <1>3, SameHeights DEF TreeInv, InOp
<1> QED BY <1>1, <1>2, <1>4 DEF TreeInv, LeavesAreKnown

LEMMA CollapseStep ==
  ASSUME IInv, TreeInv, NEW c \in Bids, CollapseRoot(c)
  PROVE  TreeInv'
<1> USE DEF IInv
<1>1. /\ phase = "remove" /\ phase' = "pad" /\ ~failed /\ Map(Nodes, brootKey, brootPos)
      /\ UNCHANGED <<hstash, modified, failed>> /\ modified \subseteq Bids
  BY DEF CollapseRoot, opVars, TreeInv, LeavesAreKnown, TypeOK
<1>2. /\ Map(Nodes', brootKey', brootPos') /\ \A x \in Bids : Cached(x) => Cached(x)'
      /\ \A x, k \in Bids : Kid(Nodes', x, k) => Kid(Nodes, x, k)
  BY <1>1, CollapseTree
<1>3. Heights'
  BY <1>1, <1>2, SameHeights DEF TreeInv, InOp
<1> QED BY <1>1, <1>2, <1>3 DEF TreeInv, LeavesAreKnown

LEMMA SplitChildStep ==
  ASSUME IInv, IInv', TreeInv, NEW p \in Bids, NEW y \in Bids, NEW z \in Bids,
         NEW leaf \in Leaves, SplitChild(p, y, z, leaf)
  PROVE  TreeInv'
<1>1. /\ phase = "insert" /\ phase' = "insert" /\ ~failed /\ Map(Nodes, brootKey, brootPos)
      /\ UNCHANGED <<hstash, failed>> /\ modified' = modified \cup {p, y, z}
      /\ modified \subseteq Bids /\ \A x \in modified : Cached(x) /\ TypeOK'
  BY DEF SplitChild, TreeInv, LeavesAreKnown, Heights, InOp, IInv, TypeOK
<1>2. Map(Nodes', brootKey', brootPos') /\ \A x \in Bids : Cached(x) \/ x \in {p, y, z} => Cached(x)'
  BY <1>1, SplitChildTree
<1>3. Heights'
  BY <1>1, <1>2, InsertHeights DEF TreeInv, IInv
<1> QED BY <1>1, <1>2, <1>3 DEF TreeInv, LeavesAreKnown

LEMMA SplitRootStep ==
  ASSUME IInv, IInv', TreeInv, NEW s \in Bids, NEW z \in Bids,
         NEW sleaf \in Leaves, NEW zleaf \in Leaves, SplitRoot(s, z, sleaf, zleaf)
  PROVE  TreeInv'
<1>1. /\ phase = "insert" /\ phase' = "insert" /\ ~failed /\ Map(Nodes, brootKey, brootPos)
      /\ UNCHANGED <<hstash, failed>> /\ modified' = modified \cup {brootKey, s, z}
      /\ modified \subseteq Bids /\ \A x \in modified : Cached(x)
      /\ brootKey \in Bids
  BY DEF SplitRoot, TreeInv, LeavesAreKnown, Heights, InOp, IInv, TypeOK
<1>2. /\ Map(Nodes', brootKey', brootPos')
      /\ \A x \in Bids : Cached(x) \/ x \in {brootKey, s, z} => Cached(x)'
  BY <1>1, SplitRootTree
<1>3. \A x \in modified' : Cached(x)'
  BY <1>1, <1>2
<1>4. Heights'
  BY <1>1, <1>3, InsertHeights DEF TreeInv, IInv
<1> QED BY <1>1, <1>2, <1>4 DEF TreeInv, LeavesAreKnown

\* The nodes seen when nothing but bookkeeping changes.
LEMMA SameNodes ==
  ASSUME UNCHANGED <<store, cache, readviewmap, writeviewmap>>
  PROVE  Nodes' = Nodes /\ \A x \in Bids : Cached(x)' <=> Cached(x)
BY DEF Nodes, CurrentNode, Holders, Current, Pending, Cached

\* Nodes that are still there, with the same leaves and entries.
LEMMA MapSame ==
  ASSUME NEW N, NEW M, NEW r \in Bids, NEW leaf, Map(N, r, leaf),
         \A x \in Bids : /\ Here(M, x) <=> Here(N, x)
                         /\ Here(N, x) => Pos(M, x) = Pos(N, x)
                         /\ \A k \in Bids : Entry(M, x, k) = Entry(N, x, k)
  PROVE  Map(M, r, leaf)
<1>1. \A p, c \in Bids : Kid(M, p, c) <=> Kid(N, p, c)
  BY DEF Kid
<1> QED BY <1>1 DEF Map, Forest

LEMMA StartStep ==
  ASSUME IInv, TreeInv, NEW kind \in {"insert", "remove"}, Start(kind)
  PROVE  TreeInv' /\ Nodes' = Nodes /\ UNCHANGED brootKey
<1>1. /\ phase = "idle" /\ phase' = kind /\ ~failed' /\ modified = {} /\ modified' = {}
      /\ hstash' = [x \in Bids |-> None] /\ readviewmap' = {} /\ writeviewmap' = {}
      /\ UNCHANGED <<store, cache, brootKey, brootPos>>
  BY DEF Start, rootVars, IInv, Bookkeeping
<1>2. Pending = {} /\ Pending' = {}
  BY <1>1 DEF IInv, Locations, QuiescentWhenIdle, Pending, TreeInv
<1>3. Nodes' = Nodes
  BY <1>1, <1>2 DEF Nodes, CurrentNode, Holders, Current, Cached
<1>4. LeavesAreKnown'
  BY <1>1, <1>3 DEF TreeInv, LeavesAreKnown
<1>5. \A x : ~HeightKnown(x)'
  BY <1>1 DEF HeightKnown
<1>6. Heights'
  BY <1>1, <1>5 DEF Heights
<1> QED BY <1>1, <1>3, <1>4, <1>6 DEF TreeInv

LEMMA FinalizeStart ==
  ASSUME IInv, TreeInv, Finalize
  PROVE  TreeInv' /\ Nodes' = Nodes /\ UNCHANGED brootKey
<1>1. /\ phase \in {"insert", "remove"} /\ phase' = "pad" /\ ~failed'
      /\ UNCHANGED <<store, cache, readviewmap, writeviewmap, hstash, modified, brootKey, brootPos>>
      /\ modified \subseteq Bids
  BY DEF Finalize, viewVars, opVars, rootVars, TreeInv, IInv, TypeOK
<1>2. Nodes' = Nodes /\ \A x \in Bids : Cached(x)' <=> Cached(x)
  BY <1>1, SameNodes
<1>3. LeavesAreKnown'
  BY <1>1, <1>2 DEF TreeInv, LeavesAreKnown
<1>4. Heights'
  BY <1>1, <1>2, SameHeights DEF TreeInv, InOp
<1> QED BY <1>1, <1>2, <1>3, <1>4 DEF TreeInv

LEMMA PadStep ==
  ASSUME IInv, TreeInv, EndPad \/ \E rnd \in Leaves : PadPath(rnd)
  PROVE  TreeInv' /\ Nodes' = Nodes /\ UNCHANGED brootKey
<1>1. /\ phase = "pad" /\ phase' \in {"pad", "remap"} /\ ~failed' /\ modified \subseteq Bids
      /\ UNCHANGED <<hstash, modified, brootKey, brootPos>>
      /\ Map(Nodes, brootKey, brootPos)
  BY DEF EndPad, PadPath, opVars, rootVars, TreeInv, LeavesAreKnown, IInv, TypeOK
<1>2. Nodes' = Nodes /\ \A x \in Bids : Cached(x) => Cached(x)'
  BY PadTree, SameNodes DEF EndPad, viewVars
<1>3. LeavesAreKnown'
  BY <1>1, <1>2 DEF LeavesAreKnown, Map
<1>4. Heights'
  BY <1>1, <1>2, SameHeights DEF TreeInv, InOp
<1> QED BY <1>1, <1>2, <1>3, <1>4 DEF TreeInv

\* Heights are remapped from the leaves of the B-tree up.  A node remapped
\* now records the leaves its children got in the turn before; the parents of
\* the nodes remapped now were read one height above, and come next.
LEMMA RemapStep ==
  ASSUME IInv, TreeInv, NEW newPos \in [Remapped(level) -> Leaves], RemapHeight(newPos)
  PROVE  /\ TreeInv' /\ UNCHANGED brootKey
         /\ \A x \in Bids : Ver(Nodes', x) = Ver(Nodes, x)
         /\ \A p, c \in Bids : Kid(Nodes', p, c) <=> Kid(Nodes, p, c)
<1> USE DEF IInv
<1>1. /\ phase = "remap" /\ phase' = "remap" /\ ~failed' /\ level' = level + 1 /\ level \in Int
      /\ modified \subseteq Bids /\ brootKey \in Bids
      /\ UNCHANGED <<hstash, modified, brootKey, brootPos>>
  <2>1. /\ phase = "remap" /\ level' = level + 1
        /\ UNCHANGED <<hstash, modified, brootKey, brootPos, phase, failed>>
    BY DEF RemapHeight, opVars, rootVars
  <2> QED BY <2>1 DEF TreeInv, TypeOK, Bookkeeping
<1>2. /\ \A x \in Bids : Cached(x)' <=> Cached(x)
      /\ \A x \in Bids : /\ Here(Nodes', x) <=> Here(Nodes, x)
                         /\ Ver(Nodes', x) = Ver(Nodes, x)
                         /\ x \notin Remapped(level) => Pos(Nodes', x) = Pos(Nodes, x)
      /\ \A x, k \in Bids :
           Entry(Nodes', x, k) =
             IF x \in Remapped(level) /\ Kid(Nodes, x, k) /\ Cached(k)
             THEN Pos(Nodes, k) ELSE Entry(Nodes, x, k)
  BY RemapTree
<1>3. /\ Forest(Nodes, brootKey)
      /\ Pos(Nodes, brootKey) = brootPos \/ Cached(brootKey)
      /\ \A p, c \in Bids : Kid(Nodes, p, c) =>
           \/ Pos(Nodes, c) = Entry(Nodes, p, c)
           \/ HeightKnown(c) /\ hstash[c] = level - 1
  BY <1>1 DEF TreeInv, LeavesAreKnown
<1>4. /\ \A x \in modified : Cached(x)
      /\ \A p, c \in Bids : Kid(Nodes, p, c) /\ HeightKnown(c) =>
           HeightKnown(p) /\ hstash[p] = hstash[c] + 1
  BY <1>1 DEF TreeInv, Heights, InOp
<1>5. \A x \in Bids : Cached(x) => Pos(Nodes, x) \in Leaves
  BY NodesType, NodeFields DEF Cached, Pos, TypeOK
<1>6. \A p, c \in Bids : Kid(Nodes', p, c) <=> Kid(Nodes, p, c)
  BY <1>2, <1>5, LeafIsNotNoPos DEF Kid
<1>7. Forest(Nodes', brootKey)
  BY <1>1, <1>2, <1>3, <1>6 DEF Forest
<1>8. Pos(Nodes', brootKey) = brootPos \/ Cached(brootKey)'
  BY <1>1, <1>2, <1>3 DEF Remapped
<1>9. \A x \in Bids : x \in Remapped(level) <=> HeightKnown(x) /\ hstash[x] = level
  BY <1>1, <1>4, NoneAssumption DEF Remapped, HeightKnown
<1>10. ASSUME NEW p \in Bids, NEW c \in Bids, Kid(Nodes', p, c)
       PROVE  \/ Pos(Nodes', c) = Entry(Nodes', p, c)
              \/ HeightKnown(c) /\ hstash[c] = level
  <2>1. Kid(Nodes, p, c)
    BY <1>6, <1>10
  <2>2. SUFFICES ASSUME c \notin Remapped(level)
                 PROVE  Pos(Nodes', c) = Entry(Nodes', p, c)
    BY <1>9
  <2>3. Pos(Nodes', c) = Pos(Nodes, c)
    BY <1>2, <2>2
  <2>4. CASE p \in Remapped(level) /\ Cached(c)
    BY <1>2, <2>1, <2>3, <2>4
  <2>5. CASE p \in Remapped(level) /\ ~Cached(c)
    <3>1. ~HeightKnown(c)
      BY <1>4, <2>5 DEF HeightKnown
    <3> QED BY <1>2, <1>3, <2>1, <2>3, <2>5, <3>1
  <2>6. CASE p \notin Remapped(level)
    <3>1. ~(HeightKnown(c) /\ hstash[c] = level - 1)
      BY <1>1, <1>4, <1>9, <2>1, <2>6
    <3> QED BY <1>2, <1>3, <2>1, <2>3, <2>6, <3>1
  <2> QED BY <2>4, <2>5, <2>6
<1>11. LeavesAreKnown'
  <2>1. level' - 1 = level /\ \A c : HeightKnown(c)' <=> HeightKnown(c)
    BY <1>1 DEF HeightKnown
  <2> QED BY <1>1, <1>7, <1>8, <1>10, <2>1 DEF LeavesAreKnown
<1>12. Heights'
  BY <1>1, <1>2, <1>6, SameHeights DEF TreeInv, InOp
<1> QED BY <1>1, <1>2, <1>6, <1>11, <1>12 DEF TreeInv

\* No node was read above the root: at the end of the loop nothing is left to
\* record but the root's own leaf.
LEMMA RecordStep ==
  ASSUME IInv, TreeInv, RecordRoot
  PROVE  TreeInv' /\ Nodes' = Nodes /\ UNCHANGED brootKey
<1> USE DEF IInv
<1>1. /\ phase = "remap" /\ phase' = "evict" /\ ~failed' /\ level = maxHeight + 1
      /\ UNCHANGED <<store, cache, readviewmap, writeviewmap, brootKey>>
      /\ brootPos' = IF Cached(brootKey) THEN cache[brootKey].pos ELSE brootPos
      /\ brootKey \in Bids
  BY NumbersAssumption DEF RecordRoot, viewVars, TreeInv, TypeOK, Bookkeeping
<1>2. Nodes' = Nodes
  BY <1>1, SameNodes
<1>3. Pos(Nodes, brootKey) = brootPos'
  BY <1>1, NodesType DEF TreeInv, LeavesAreKnown, Pos
<1>4. ASSUME NEW p \in Bids, NEW c \in Bids, Kid(Nodes, p, c)
      PROVE  Pos(Nodes, c) = Entry(Nodes, p, c)
  <2>1. \/ Pos(Nodes, c) = Entry(Nodes, p, c)
        \/ HeightKnown(c) /\ hstash[c] = level - 1
    BY <1>1, <1>4 DEF TreeInv, LeavesAreKnown
  <2>2. HeightKnown(c) => hstash[p] = hstash[c] + 1 /\ hstash[p] <= maxHeight
    BY <1>1, <1>4 DEF TreeInv, Heights, InOp
  <2> QED BY <1>1, <2>1, <2>2, NumbersAssumption
<1>5. Map(Nodes, brootKey, brootPos')
  BY <1>1, <1>3, <1>4 DEF TreeInv, LeavesAreKnown, Map
<1>6. Heights'
  BY <1>1 DEF Heights, InOp
<1> QED BY <1>1, <1>2, <1>5, <1>6 DEF TreeInv, LeavesAreKnown

LEMMA WriteStep ==
  ASSUME IInv, IInv', TreeInv, WriteLevel
  PROVE  /\ TreeInv' /\ UNCHANGED brootKey
         /\ \A x \in Bids : Ver(Nodes', x) = Ver(Nodes, x)
         /\ \A p, c \in Bids : Kid(Nodes', p, c) <=> Kid(Nodes, p, c)
<1>1. /\ phase = "evict" /\ phase' = "evict" /\ ~failed'
      /\ UNCHANGED <<brootKey, brootPos>> /\ brootKey \in Bids
      /\ Map(Nodes, brootKey, brootPos)
  BY DEF WriteLevel, rootVars, TreeInv, LeavesAreKnown, IInv, TypeOK
<1>2. \A x \in Bids : /\ Here(Nodes', x) <=> Here(Nodes, x)
                      /\ Ver(Nodes', x) = Ver(Nodes, x)
                      /\ Here(Nodes, x) => Pos(Nodes', x) = Pos(Nodes, x)
                      /\ \A k \in Bids : Entry(Nodes', x, k) = Entry(Nodes, x, k)
  BY WriteTree
<1>3. Map(Nodes', brootKey, brootPos)
  BY <1>1, <1>2, MapSame
<1>4. Heights'
  BY <1>1 DEF Heights, InOp
<1> QED BY <1>1, <1>2, <1>3, <1>4 DEF TreeInv, LeavesAreKnown, Kid

LEMMA FinishStep ==
  ASSUME IInv, TreeInv, Finish
  PROVE  TreeInv' /\ Nodes' = Nodes /\ UNCHANGED brootKey
<1>1. /\ phase = "evict" /\ phase' = "idle" /\ ~failed'
      /\ UNCHANGED <<store, cache, readviewmap, writeviewmap, brootKey, brootPos>>
  BY DEF Finish, viewVars, rootVars, TreeInv
<1>2. Nodes' = Nodes
  BY <1>1, SameNodes
<1>3. Heights'
  BY <1>1 DEF Heights, InOp
<1> QED BY <1>1, <1>2, <1>3 DEF TreeInv, LeavesAreKnown

LEMMA StutterStep ==
  ASSUME TreeInv, UNCHANGED vars
  PROVE  TreeInv' /\ Nodes' = Nodes /\ UNCHANGED brootKey
<1>1. Nodes' = Nodes /\ UNCHANGED <<phase, hstash, modified, failed, brootKey, brootPos, level, cache>>
  BY SameNodes DEF vars, serverVars, viewVars, opVars, rootVars
<1> QED BY <1>1 DEF TreeInv, LeavesAreKnown, Heights, HeightKnown, InOp, Cached

\* The tree that setup builds.
LEMMA InitTreeOfNodes ==
  ASSUME Init
  PROVE  /\ Map(Nodes, brootKey, brootPos)
         /\ \A x \in Bids : Ver(Nodes, x) = IF x \in Nodes0 THEN 0 ELSE None
         /\ \A x, k \in Bids : Kid(Nodes, x, k) <=> x \in Nodes0 /\ k \in InitTree[x]
<1>1. PICK p \in [Nodes0 -> Leaves], rank \in Orders(Nodes0) :
        /\ SetupFits(p, rank)
        /\ store = [b \in Buckets |-> [x \in Bids |->
                     IF x \in Nodes0 /\ b = OnPath(p[x], SetupLevel(p, rank, x))
                     THEN SetupNode(p, x) ELSE None]]
        /\ brootPos = p[1]
  BY DEF Init
<1>2. /\ brootKey = 1 /\ 1 \in Nodes0 /\ Nodes0 \subseteq Bids
      /\ Current = Buckets /\ \A x \in Bids : ~Cached(x)
  BY InitTreeAssumption DEF Init, Current, Pending, Cached, Nodes0
<1>3. \A x \in Nodes0 : \A k \in InitTree[x] : k \in Nodes0 /\ k \in Bids /\ k # x /\ k # 1
  BY InitTreeAssumption DEF Nodes0
<1>4. \A x \in Nodes0 :
        /\ SetupNode(p, x) \in Node /\ SetupNode(p, x).live /\ SetupNode(p, x).ver = 0
        /\ SetupNode(p, x).pos = p[x]
        /\ \A k \in Bids : SetupNode(p, x).cpos[k] = IF k \in InitTree[x] THEN p[k] ELSE NoPos
  <2> SUFFICES ASSUME NEW x \in Nodes0
               PROVE  /\ SetupNode(p, x) \in Node /\ SetupNode(p, x).live /\ SetupNode(p, x).ver = 0
                      /\ SetupNode(p, x).pos = p[x]
                      /\ \A k \in Bids : SetupNode(p, x).cpos[k] =
                           IF k \in InitTree[x] THEN p[k] ELSE NoPos
    OBVIOUS
  <2>1. [k \in Bids |-> IF k \in InitTree[x] THEN p[k] ELSE NoPos] \in [Bids -> Leaves \cup {NoPos}]
    BY <1>3
  <2> QED BY <2>1, NumbersAssumption DEF SetupNode, Node
<1>5. \A x \in Nodes0 : Nodes[x] = SetupNode(p, x)
  <2> SUFFICES ASSUME NEW x \in Nodes0
               PROVE  Nodes[x] = SetupNode(p, x)
    OBVIOUS
  <2> DEFINE b0 == OnPath(p[x], SetupLevel(p, rank, x))
  <2>1. b0 \in Buckets
    BY <1>1, SetupLevels, PathAssumption
  <2>2. SetupNode(p, x) # None
    BY <1>4, NodeFields
  <2> HIDE DEF b0
  <2>3. \A b \in Buckets : store[b][x] = IF b = b0 THEN SetupNode(p, x) ELSE None
    BY <1>1, <1>2 DEF b0
  <2>4. Holders(x) = {b0}
    BY <1>2, <2>1, <2>2, <2>3 DEF Holders
  <2> QED BY <1>2, <2>1, <2>3, <2>4 DEF Nodes, CurrentNode
<1>6. \A x \in Bids \ Nodes0 : Nodes[x] = None
  <2>1. \A x \in Bids \ Nodes0 : Holders(x) = {}
    BY <1>1, <1>2 DEF Holders
  <2> QED BY <1>2, <2>1 DEF Nodes, CurrentNode
<1>7. \A x \in Bids : Here(Nodes, x) <=> x \in Nodes0
  BY <1>4, <1>5, <1>6, NodeFields DEF Here
<1>8. /\ \A x \in Bids : Ver(Nodes, x) = IF x \in Nodes0 THEN 0 ELSE None
      /\ \A x \in Nodes0 : Pos(Nodes, x) = p[x]
  BY <1>4, <1>5, <1>7 DEF Ver, Pos
<1>9. \A x, k \in Bids : Entry(Nodes, x, k) =
        IF x \in Nodes0 /\ k \in InitTree[x] THEN p[k] ELSE NoPos
  BY <1>4, <1>5, <1>7 DEF Entry
<1>10. \A x, k \in Bids : Kid(Nodes, x, k) <=> x \in Nodes0 /\ k \in InitTree[x]
  BY <1>3, <1>9, LeafIsNotNoPos DEF Kid
<1>11. Forest(Nodes, brootKey)
  <2>1. \A x, y \in Nodes0 : \A k : k \in InitTree[x] /\ k \in InitTree[y] => x = y
    BY InitTreeAssumption DEF Nodes0
  <2> QED BY <1>2, <1>3, <1>7, <1>10, <2>1 DEF Forest
<1>12. \A x, k \in Bids : Kid(Nodes, x, k) => Pos(Nodes, k) = Entry(Nodes, x, k)
  BY <1>3, <1>8, <1>9, <1>10
<1>13. Pos(Nodes, brootKey) = brootPos
  BY <1>1, <1>2, <1>8
<1> QED BY <1>8, <1>10, <1>11, <1>12, <1>13 DEF Map

LEMMA InitTreeInv == Init => TreeInv
<1> SUFFICES ASSUME Init PROVE TreeInv
  OBVIOUS
<1>1. phase = "idle" /\ ~failed
  BY DEF Init
<1>2. LeavesAreKnown
  BY <1>1, InitTreeOfNodes DEF LeavesAreKnown
<1>3. Heights
  BY <1>1 DEF Heights, InOp
<1> QED BY <1>1, <1>2, <1>3 DEF TreeInv

LEMMA TreeInductive == Spec => [](IInv /\ TreeInv)
<1>1. Init => TreeInv
  BY InitTreeInv
<1>2. IInv /\ IInv' /\ TreeInv /\ [Next]_vars => TreeInv'
  <2> SUFFICES ASSUME IInv, IInv', TreeInv, [Next]_vars PROVE TreeInv'
    OBVIOUS
  <2>1. CASE Client
    <3>1. ASSUME ReadRoot \/ \E p, c \in Bids : ReadChild(p, c)
          PROVE  TreeInv'
      BY <3>1, ReadStep
    <3>2. ASSUME \E x \in Bids : Update(x)
          PROVE  TreeInv'
      BY <3>2, UpdateStep
    <3>3. ASSUME \E p, y, z \in Bids, leaf \in Leaves : SplitChild(p, y, z, leaf)
          PROVE  TreeInv'
      BY <3>3, SplitChildStep
    <3>4. ASSUME \E s, z \in Bids, sleaf, zleaf \in Leaves : SplitRoot(s, z, sleaf, zleaf)
          PROVE  TreeInv'
      BY <3>4, SplitRootStep
    <3>5. ASSUME NEW p \in Bids, NEW a \in Bids, NEW b \in Bids, Borrow(p, a, b) \/ Merge(p, a, b)
          PROVE  TreeInv'
      BY <3>5, BorrowStep, MergeStep
    <3>6. ASSUME \E c \in Bids : CollapseRoot(c)
          PROVE  TreeInv'
      BY <3>6, CollapseStep
    <3> QED BY <2>1, <3>1, <3>2, <3>3, <3>4, <3>5, <3>6 DEF Client
  <2>2. CASE FinalizeStep
    BY <2>2, PadStep, RemapStep, RecordStep, WriteStep, FinishStep DEF FinalizeStep
  <2>3. CASE Finalize
    BY <2>3, FinalizeStart
  <2>4. CASE \E kind \in {"insert", "remove"} : Start(kind)
    BY <2>4, StartStep
  <2>5. CASE UNCHANGED vars
    BY <2>5, StutterStep
  <2> QED BY <2>1, <2>2, <2>3, <2>4, <2>5 DEF Next
<1> QED BY <1>1, <1>2, Inductive, PTL DEF Spec

\* Outside the remapping loop every leaf recorded for a node is the node's,
\* whatever the operations of the B-tree and the leaves drawn.
THEOREM LeavesRecordedAreRight == Spec => []PositionMap
<1>1. IInv /\ TreeInv => PositionMap
  <2> SUFFICES ASSUME IInv, TreeInv, phase # "remap"
               PROVE  /\ Live(brootKey) /\ CurrentNode(brootKey).pos = brootPos
                      /\ \A p \in Bids : Live(p) =>
                           \A c \in Children(CurrentNode(p)) :
                              Live(c) /\ CurrentNode(c).pos = CurrentNode(p).cpos[c]
    BY DEF PositionMap
  <2>1. Map(Nodes, brootKey, brootPos) /\ Nodes \in CacheType /\ brootKey \in Bids
    BY NodesType DEF TreeInv, LeavesAreKnown, IInv, TypeOK
  <2>2. \A x \in Bids : /\ CurrentNode(x) = Nodes[x] /\ (Live(x) <=> Here(Nodes, x))
                        /\ CurrentNode(x).pos = Pos(Nodes, x)
    BY DEF Nodes, Live, Here, Pos
  <2>3. ASSUME NEW p \in Bids, Live(p), NEW c \in Children(CurrentNode(p))
        PROVE  Live(c) /\ CurrentNode(c).pos = CurrentNode(p).cpos[c]
    <3>1. c \in Bids /\ Kid(Nodes, p, c) /\ Entry(Nodes, p, c) = CurrentNode(p).cpos[c]
      BY <2>1, <2>2, <2>3, ChildrenAreKids
    <3> QED BY <2>1, <2>2, <3>1 DEF Map, Forest
  <2> QED BY <2>1, <2>2, <2>3 DEF Map, Forest
<1> QED BY <1>1, TreeInductive, PTL

\* The B-tree never asks for a node that the client does not hold and the
\* path of its recorded leaf does not bring.
THEOREM NoReadThrows == Spec => []ReadsSucceed
BY TreeInductive, PTL DEF TreeInv, ReadsSucceed

-----------------------------------------------------------------------------
(***************************************************************************)
(* BRAM implements NodeTree: seen through the current copies of its nodes, *)
(* every action of the B-tree changes the tree as the same operation on    *)
(* nodes in memory does, and every other step leaves it as it is.          *)
(***************************************************************************)
VersionsOf(N) == [x \in Bids |-> Ver(N, x)]
KidsOf(N) == [x \in Bids |-> {k \in Bids : Kid(N, x, k)}]

\* The refinement mapping, in terms of Nodes.
LEMMA TreeView ==
  /\ [x \in Bids |-> Version(x)] = VersionsOf(Nodes)
  /\ [x \in Bids |-> ChildrenOf(x)] = KidsOf(Nodes)
  /\ [x \in Bids |-> Version(x)]' = VersionsOf(Nodes')
  /\ [x \in Bids |-> ChildrenOf(x)]' = KidsOf(Nodes')
<1>1. \A x \in Bids : /\ Version(x) = Ver(Nodes, x)
                      /\ ChildrenOf(x) = {k \in Bids : Kid(Nodes, x, k)}
  BY DEF Version, Live, Ver, Here, Nodes, ChildrenOf, Children, Kid, Entry
<1>2. \A x \in Bids : /\ Version(x)' = Ver(Nodes', x)
                      /\ ChildrenOf(x)' = {k \in Bids : Kid(Nodes', x, k)}
  BY DEF Version, Live, Ver, Here, Nodes, ChildrenOf, Children, Kid, Entry
<1> QED BY <1>1, <1>2 DEF VersionsOf, KidsOf

\* Two sets of children with the same members are the same.
LEMMA KidsAre ==
  ASSUME NEW N, NEW K \in [Bids -> SUBSET Bids],
         \A x, k \in Bids : k \in K[x] <=> Kid(N, x, k)
  PROVE  KidsOf(N) = K
<1>1. \A x \in Bids : K[x] \subseteq Bids
  OBVIOUS
<1>2. \A x \in Bids : K[x] = {k \in Bids : Kid(N, x, k)}
  BY <1>1
<1> QED BY <1>2 DEF KidsOf

\* A node of the tree has a version.
LEMMA PresentIsHere ==
  ASSUME IInv, NEW x \in Bids
  PROVE  Ver(Nodes, x) # None <=> Here(Nodes, x)
<1>1. Here(Nodes, x) => Nodes[x].ver \in Int
  BY NodesType, ChildrenAreKids, NodeFields DEF IInv
<1> QED BY <1>1, NoneAssumption DEF Ver

LEMMA RootIsNotNone == IInv => brootKey # None
BY BidsAssumption, NoneAssumption DEF IInv, TypeOK

LEMMA InitRefines == Init => Tree!Init
<1> SUFFICES ASSUME Init PROVE Tree!Init
  OBVIOUS
<1>1. /\ \A x \in Bids : Ver(Nodes, x) = IF x \in Nodes0 THEN 0 ELSE None
      /\ \A x, k \in Bids : Kid(Nodes, x, k) <=> x \in Nodes0 /\ k \in InitTree[x]
      /\ brootKey = 1
  BY InitTreeOfNodes DEF Init
<1>2. VersionsOf(Nodes) = [x \in Bids |-> IF x \in DOMAIN InitTree THEN 0 ELSE None]
  BY <1>1 DEF VersionsOf, Nodes0
<1>3. KidsOf(Nodes) = [x \in Bids |-> IF x \in DOMAIN InitTree THEN InitTree[x] ELSE {}]
  <2>1. \A x \in Nodes0 : InitTree[x] \subseteq Bids
    BY InitTreeAssumption DEF Nodes0
  <2>2. \A x \in Bids : {k \in Bids : Kid(Nodes, x, k)} =
          IF x \in DOMAIN InitTree THEN InitTree[x] ELSE {}
    BY <1>1, <2>1 DEF Nodes0
  <2> QED BY <2>2 DEF KidsOf
<1> QED BY <1>1, <1>2, <1>3, TreeView, InitTreeAssumption DEF Tree!Init

\* A step that leaves the versions and the children alone.
LEMMA StutterRefines ==
  ASSUME UNCHANGED brootKey,
         \A x \in Bids : Ver(Nodes', x) = Ver(Nodes, x),
         \A p, c \in Bids : Kid(Nodes', p, c) <=> Kid(Nodes, p, c)
  PROVE  UNCHANGED Tree!treeVars
<1>1. VersionsOf(Nodes') = VersionsOf(Nodes) /\ KidsOf(Nodes') = KidsOf(Nodes)
  BY DEF VersionsOf, KidsOf
<1> QED BY <1>1, TreeView DEF Tree!treeVars

LEMMA UpdateRefines ==
  ASSUME IInv, TreeInv, NEW x \in Bids, Update(x)
  PROVE  Tree!Next
<1>1. Map(Nodes, brootKey, brootPos)
  BY DEF Update, TreeInv, LeavesAreKnown
<1>2. /\ Here(Nodes, x)
      /\ \A p, c \in Bids : Entry(Nodes', p, c) = Entry(Nodes, p, c)
      /\ \A y \in Bids : Ver(Nodes', y) = IF y = x THEN Bump(Ver(Nodes, y)) ELSE Ver(Nodes, y)
      /\ UNCHANGED brootKey
  BY <1>1, UpdateTree DEF Update, WriteInPlace, rootVars
<1>3. VersionsOf(Nodes)[x] # None
  BY <1>2, PresentIsHere DEF VersionsOf
<1>4. VersionsOf(Nodes') = [y \in Bids |-> IF y \in {x} THEN (VersionsOf(Nodes)[y] + 1) % Versions
                                                       ELSE VersionsOf(Nodes)[y]]
  BY <1>2 DEF VersionsOf, Bump
<1>5. KidsOf(Nodes') = KidsOf(Nodes)
  BY <1>2 DEF KidsOf, Kid
<1>6. Tree!Update(x)
  BY <1>2, <1>3, <1>4, <1>5, TreeView DEF Tree!Update, Tree!Touch, Tree!Present
<1> QED BY <1>6 DEF Tree!Next

LEMMA BorrowRefines ==
  ASSUME IInv, TreeInv, NEW p \in Bids, NEW a \in Bids, NEW b \in Bids, Borrow(p, a, b)
  PROVE  Tree!Next
<1>1. Map(Nodes, brootKey, brootPos) /\ a # b /\ UNCHANGED brootKey
  BY DEF Borrow, WriteInPlace, rootVars, TreeInv, LeavesAreKnown
<1>2. PICK C \in SUBSET Bids :
        /\ \A k \in C : Kid(Nodes, a, k)
        /\ \A x, k \in Bids : Kid(Nodes', x, k) <=>
             (x = b /\ k \in C) \/ (Kid(Nodes, x, k) /\ ~(x = a /\ k \in C))
  BY <1>1, BorrowTree
<1>3. /\ Kid(Nodes, p, a) /\ Kid(Nodes, p, b)
      /\ \A x \in Bids : Ver(Nodes', x) =
           IF x \in {p, a, b} THEN Bump(Ver(Nodes, x)) ELSE Ver(Nodes, x)
  BY <1>1, BorrowTree
<1> DEFINE K == KidsOf(Nodes)
           V == VersionsOf(Nodes)
<1>4. VersionsOf(Nodes') = [x \in Bids |-> IF x \in {p, a, b} THEN (V[x] + 1) % Versions ELSE V[x]]
  BY <1>3 DEF VersionsOf, Bump
<1>5. \A x, k \in Bids : k \in K[x] <=> Kid(Nodes, x, k)
  BY DEF KidsOf
<1>6. /\ K \in [Bids -> SUBSET Bids] /\ a \in K[p] /\ b \in K[p] /\ C \in SUBSET K[a]
  BY <1>2, <1>3, <1>5 DEF KidsOf
<1>7. KidsOf(Nodes') = [K EXCEPT ![a] = @ \ C, ![b] = @ \cup C]
  <2> DEFINE L == [K EXCEPT ![a] = @ \ C, ![b] = @ \cup C]
  <2>1. /\ L \in [Bids -> SUBSET Bids]
        /\ \A x \in Bids : L[x] = IF x = a THEN K[a] \ C ELSE IF x = b THEN K[b] \cup C ELSE K[x]
    <3> HIDE DEF K
    <3> QED BY <1>1, <1>6
  <2> HIDE DEF K, L
  <2>2. \A x, k \in Bids : k \in L[x] <=> Kid(Nodes', x, k)
    BY <1>1, <1>2, <1>5, <2>1
  <2>3. KidsOf(Nodes') = L
    BY <2>1, <2>2, KidsAre
  <2> QED BY <2>3 DEF L
<1> HIDE DEF K, V
<1>8. [x \in Bids |-> ChildrenOf(x)] = K /\ [x \in Bids |-> Version(x)] = V
  BY TreeView DEF K, V
<1>9. Tree!Borrow(p, a, b, C)
  BY <1>1, <1>4, <1>6, <1>7, <1>8, TreeView DEF Tree!Borrow, Tree!Touch
<1> QED BY <1>6, <1>8, <1>9 DEF Tree!Next

LEMMA MergeRefines ==
  ASSUME IInv, TreeInv, NEW p \in Bids, NEW a \in Bids, NEW b \in Bids, Merge(p, a, b)
  PROVE  Tree!Next
<1>1. Map(Nodes, brootKey, brootPos) /\ a # b /\ UNCHANGED brootKey
  BY DEF Merge, WriteInPlace, rootVars, TreeInv, LeavesAreKnown
<1>2. /\ p # a /\ p # b /\ Kid(Nodes, p, a) /\ Kid(Nodes, p, b)
      /\ \A x, k \in Bids : Kid(Nodes', x, k) <=>
           \/ x = a /\ Kid(Nodes, b, k)
           \/ Kid(Nodes, x, k) /\ x # b /\ ~(x = p /\ k = b)
      /\ \A x \in Bids : Ver(Nodes', x) =
           IF x = b THEN None ELSE IF x \in {p, a} THEN Bump(Ver(Nodes, x)) ELSE Ver(Nodes, x)
  BY <1>1, MergeTree
<1> DEFINE K == KidsOf(Nodes)
           V == VersionsOf(Nodes)
<1>3. VersionsOf(Nodes') =
        [[x \in Bids |-> IF x \in {p, a} THEN (V[x] + 1) % Versions ELSE V[x]] EXCEPT ![b] = None]
  BY <1>2 DEF VersionsOf, Bump
<1>4. /\ K \in [Bids -> SUBSET Bids] /\ a \in K[p] /\ b \in K[p]
  BY <1>2 DEF KidsOf
<1>5. KidsOf(Nodes') = [K EXCEPT ![p] = @ \ {b}, ![a] = @ \cup K[b], ![b] = {}]
  <2> DEFINE L == [K EXCEPT ![p] = @ \ {b}, ![a] = @ \cup K[b], ![b] = {}]
  <2>1. /\ L \in [Bids -> SUBSET Bids]
        /\ \A x \in Bids : L[x] = IF x = p THEN K[p] \ {b}
                                    ELSE IF x = a THEN K[a] \cup K[b]
                                    ELSE IF x = b THEN {} ELSE K[x]
    <3> HIDE DEF K
    <3> QED BY <1>1, <1>2, <1>4
  <2>2. \A x, k \in Bids : k \in K[x] <=> Kid(Nodes, x, k)
    BY DEF KidsOf
  <2> HIDE DEF K, L
  <2>3. \A x, k \in Bids : k \in L[x] <=> Kid(Nodes', x, k)
    BY <1>1, <1>2, <2>1, <2>2
  <2>4. KidsOf(Nodes') = L
    BY <2>1, <2>3, KidsAre
  <2> QED BY <2>4 DEF L
<1> HIDE DEF K, V
<1>6. [x \in Bids |-> ChildrenOf(x)] = K /\ [x \in Bids |-> Version(x)] = V
  BY TreeView DEF K, V
<1>7. Tree!Merge(p, a, b)
  BY <1>1, <1>3, <1>4, <1>5, <1>6, TreeView DEF Tree!Merge, Tree!Touch
<1> QED BY <1>4, <1>6, <1>7 DEF Tree!Next

LEMMA CollapseRefines ==
  ASSUME IInv, TreeInv, NEW c \in Bids, CollapseRoot(c)
  PROVE  Tree!Next
<1>1. Map(Nodes, brootKey, brootPos) /\ brootKey' = c /\ brootKey \in Bids
  BY DEF CollapseRoot, TreeInv, LeavesAreKnown, IInv, TypeOK
<1>2. /\ \A k \in Bids : Kid(Nodes, brootKey, k) <=> k = c
      /\ \A x, k \in Bids : Kid(Nodes', x, k) <=> Kid(Nodes, x, k) /\ x # brootKey
      /\ \A x \in Bids : Ver(Nodes', x) = IF x = brootKey THEN None ELSE Ver(Nodes, x)
  BY <1>1, CollapseTree
<1> DEFINE K == KidsOf(Nodes)
           V == VersionsOf(Nodes)
<1>3. VersionsOf(Nodes') = [V EXCEPT ![brootKey] = None]
  BY <1>2 DEF VersionsOf
<1>4. K[brootKey] = {c}
  BY <1>1, <1>2 DEF KidsOf
<1>5. KidsOf(Nodes') = [K EXCEPT ![brootKey] = {}]
  <2> DEFINE L == [K EXCEPT ![brootKey] = {}]
  <2>1. K \in [Bids -> SUBSET Bids] /\ \A x, k \in Bids : k \in K[x] <=> Kid(Nodes, x, k)
    BY DEF KidsOf
  <2> HIDE DEF K
  <2>2. /\ L \in [Bids -> SUBSET Bids]
        /\ \A x \in Bids : L[x] = IF x = brootKey THEN {} ELSE K[x]
    BY <2>1
  <2> HIDE DEF L
  <2>3. \A x, k \in Bids : k \in L[x] <=> Kid(Nodes', x, k)
    BY <1>2, <2>1, <2>2
  <2>4. KidsOf(Nodes') = L
    BY <2>2, <2>3, KidsAre
  <2> QED BY <2>4 DEF L
<1> HIDE DEF K, V
<1>6. [x \in Bids |-> ChildrenOf(x)] = K /\ [x \in Bids |-> Version(x)] = V
  BY TreeView DEF K, V
<1>7. Tree!CollapseRoot
  BY <1>1, <1>3, <1>4, <1>5, <1>6, TreeView, RootIsNotNone DEF Tree!CollapseRoot
<1> QED BY <1>7 DEF Tree!Next

LEMMA SplitChildRefines ==
  ASSUME IInv, IInv', TreeInv, NEW p \in Bids, NEW y \in Bids, NEW z \in Bids,
         NEW leaf \in Leaves, SplitChild(p, y, z, leaf)
  PROVE  Tree!Next
<1>1. Map(Nodes, brootKey, brootPos) /\ UNCHANGED brootKey
  BY DEF SplitChild, TreeInv, LeavesAreKnown
<1>2. PICK C \in SUBSET Bids :
        /\ \A k \in C : Kid(Nodes, y, k)
        /\ \A x, k \in Bids : Kid(Nodes', x, k) <=>
             \/ x = p /\ k = z
             \/ x = z /\ k \in C
             \/ Kid(Nodes, x, k) /\ ~(x = y /\ k \in C)
  BY <1>1, SplitChildTree
<1>3. /\ p # y /\ p # z /\ y # z /\ Kid(Nodes, p, y) /\ ~Here(Nodes, z)
      /\ \A x \in Bids : Ver(Nodes', x) =
           IF x = z THEN 0 ELSE IF x \in {p, y} THEN Bump(Ver(Nodes, x)) ELSE Ver(Nodes, x)
  BY <1>1, SplitChildTree
<1> DEFINE K == KidsOf(Nodes)
           V == VersionsOf(Nodes)
<1>4. VersionsOf(Nodes') =
        [[x \in Bids |-> IF x \in {p, y} THEN (V[x] + 1) % Versions ELSE V[x]] EXCEPT ![z] = 0]
  BY <1>3 DEF VersionsOf, Bump
<1>5. V[z] = None
  BY <1>3, PresentIsHere DEF VersionsOf
<1>6. /\ K \in [Bids -> SUBSET Bids] /\ y \in K[p] /\ C \in SUBSET K[y]
  BY <1>2, <1>3 DEF KidsOf
<1>7. \A k \in Bids : ~Kid(Nodes, z, k)
  BY <1>3 DEF Kid, Entry
<1>8. KidsOf(Nodes') = [K EXCEPT ![p] = @ \cup {z}, ![y] = @ \ C, ![z] = C]
  <2> DEFINE L == [K EXCEPT ![p] = @ \cup {z}, ![y] = @ \ C, ![z] = C]
  <2>1. /\ L \in [Bids -> SUBSET Bids]
        /\ \A x \in Bids : L[x] = IF x = p THEN K[p] \cup {z}
                                    ELSE IF x = y THEN K[y] \ C
                                    ELSE IF x = z THEN C ELSE K[x]
    <3> HIDE DEF K
    <3> QED BY <1>3, <1>6
  <2>2. \A x, k \in Bids : k \in K[x] <=> Kid(Nodes, x, k)
    BY DEF KidsOf
  <2> HIDE DEF K, L
  <2>3. \A x, k \in Bids : k \in L[x] <=> Kid(Nodes', x, k)
    BY <1>2, <1>3, <1>7, <2>1, <2>2
  <2>4. KidsOf(Nodes') = L
    BY <2>1, <2>3, KidsAre
  <2> QED BY <2>4 DEF L
<1> HIDE DEF K, V
<1>9. [x \in Bids |-> ChildrenOf(x)] = K /\ [x \in Bids |-> Version(x)] = V
  BY TreeView DEF K, V
<1>10. Tree!Split(p, y, C, z) /\ ~Tree!Present(z)
  BY <1>1, <1>4, <1>5, <1>6, <1>8, <1>9, TreeView DEF Tree!Split, Tree!Touch, Tree!Present
<1> QED BY <1>6, <1>9, <1>10, RootIsNotNone DEF Tree!Next

LEMMA SplitRootRefines ==
  ASSUME IInv, IInv', TreeInv, NEW s \in Bids, NEW z \in Bids,
         NEW sleaf \in Leaves, NEW zleaf \in Leaves, SplitRoot(s, z, sleaf, zleaf)
  PROVE  Tree!Next
<1> DEFINE r == brootKey
<1>1. Map(Nodes, brootKey, brootPos) /\ r \in Bids
  BY DEF SplitRoot, TreeInv, LeavesAreKnown, IInv, TypeOK
<1>2. PICK C \in SUBSET Bids :
        /\ \A k \in C : Kid(Nodes, r, k)
        /\ \A x, k \in Bids : Kid(Nodes', x, k) <=>
             \/ x = s /\ k \in {r, z}
             \/ x = z /\ k \in C
             \/ Kid(Nodes, x, k) /\ ~(x = r /\ k \in C)
  BY <1>1, SplitRootTree
<1>3. /\ brootKey' = s /\ s # z /\ r # s /\ r # z
      /\ ~Here(Nodes, s) /\ ~Here(Nodes, z) /\ Here(Nodes, r)
      /\ \A x \in Bids : Ver(Nodes', x) =
           IF x \in {s, z} THEN 0 ELSE IF x = r THEN Bump(Ver(Nodes, x)) ELSE Ver(Nodes, x)
  BY <1>1, SplitRootTree
<1> DEFINE K == KidsOf(Nodes)
           V == VersionsOf(Nodes)
<1>4. VersionsOf(Nodes') =
        [[x \in Bids |-> IF x \in {r} THEN (V[x] + 1) % Versions ELSE V[x]]
           EXCEPT ![z] = 0, ![s] = 0]
  BY <1>3 DEF VersionsOf, Bump
<1>5. V[z] = None /\ V[s] = None
  BY <1>3, PresentIsHere DEF VersionsOf
<1>6. /\ K \in [Bids -> SUBSET Bids] /\ C \in SUBSET K[r]
  BY <1>1, <1>2 DEF KidsOf
<1>7. \A k \in Bids : ~Kid(Nodes, z, k) /\ ~Kid(Nodes, s, k)
  BY <1>3 DEF Kid, Entry
<1>8. KidsOf(Nodes') = [K EXCEPT ![r] = @ \ C, ![z] = C, ![s] = {r, z}]
  <2> DEFINE L == [K EXCEPT ![r] = @ \ C, ![z] = C, ![s] = {r, z}]
  <2>1. /\ L \in [Bids -> SUBSET Bids]
        /\ \A x \in Bids : L[x] = IF x = r THEN K[r] \ C
                                    ELSE IF x = z THEN C
                                    ELSE IF x = s THEN {r, z} ELSE K[x]
    <3> HIDE DEF K
    <3> QED BY <1>1, <1>3, <1>6
  <2>2. \A x, k \in Bids : k \in K[x] <=> Kid(Nodes, x, k)
    BY DEF KidsOf
  <2> HIDE DEF K, L
  <2>3. \A x, k \in Bids : k \in L[x] <=> Kid(Nodes', x, k)
    BY <1>1, <1>2, <1>3, <1>7, <2>1, <2>2
  <2>4. KidsOf(Nodes') = L
    BY <2>1, <2>3, KidsAre
  <2> QED BY <2>4 DEF L
<1> HIDE DEF K, V
<1>9. [x \in Bids |-> ChildrenOf(x)] = K /\ [x \in Bids |-> Version(x)] = V
  BY TreeView DEF K, V
<1>10. Tree!SplitRoot(C, z, s) /\ ~Tree!Present(z)
  BY <1>1, <1>3, <1>4, <1>5, <1>6, <1>8, <1>9, TreeView
     DEF Tree!SplitRoot, Tree!Touch, Tree!Present
<1> QED BY <1>6, <1>9, <1>10, RootIsNotNone DEF Tree!Next
-----------------------------------------------------------------------------
\* The nodes kept behind the ORAM are a tree of nodes in memory: no step of
\* the client or of finalize() shows in it but the B-tree's own.
THEOREM BehavesAsTree == Spec => NodeTreeSpec
<1>1. Init => Tree!Init
  BY InitRefines
<1>2. IInv /\ TreeInv /\ IInv' /\ [Next]_vars => [Tree!Next]_Tree!treeVars
  <2> SUFFICES ASSUME IInv, TreeInv, IInv', [Next]_vars
               PROVE  Tree!Next \/ UNCHANGED Tree!treeVars
    OBVIOUS
  <2>1. ASSUME Nodes' = Nodes /\ UNCHANGED brootKey
        PROVE  UNCHANGED Tree!treeVars
    BY <2>1, StutterRefines
  <2>2. CASE Client
    <3>1. ASSUME ReadRoot \/ \E p, c \in Bids : ReadChild(p, c)
          PROVE  UNCHANGED Tree!treeVars
      BY <2>1, <3>1, ReadStep
    <3>2. ASSUME \E x \in Bids : Update(x)
          PROVE  Tree!Next
      BY <3>2, UpdateRefines
    <3>3. ASSUME \E p, y, z \in Bids, leaf \in Leaves : SplitChild(p, y, z, leaf)
          PROVE  Tree!Next
      BY <3>3, SplitChildRefines
    <3>4. ASSUME \E s, z \in Bids, sleaf, zleaf \in Leaves : SplitRoot(s, z, sleaf, zleaf)
          PROVE  Tree!Next
      BY <3>4, SplitRootRefines
    <3>5. ASSUME NEW p \in Bids, NEW a \in Bids, NEW b \in Bids, Borrow(p, a, b) \/ Merge(p, a, b)
          PROVE  Tree!Next
      BY <3>5, BorrowRefines, MergeRefines
    <3>6. ASSUME \E c \in Bids : CollapseRoot(c)
          PROVE  Tree!Next
      BY <3>6, CollapseRefines
    <3> QED BY <2>2, <3>1, <3>2, <3>3, <3>4, <3>5, <3>6 DEF Client
  <2>3. CASE FinalizeStep
    <3>1. ASSUME EndPad \/ RecordRoot \/ Finish \/ \E rnd \in Leaves : PadPath(rnd)
          PROVE  UNCHANGED Tree!treeVars
      BY <2>1, <3>1, PadStep, RecordStep, FinishStep
    <3>2. ASSUME \E newPos \in [Remapped(level) -> Leaves] : RemapHeight(newPos)
          PROVE  UNCHANGED Tree!treeVars
      BY <3>2, RemapStep, StutterRefines
    <3>3. ASSUME WriteLevel
          PROVE  UNCHANGED Tree!treeVars
      BY <3>3, WriteStep, StutterRefines
    <3> QED BY <2>3, <3>1, <3>2, <3>3 DEF FinalizeStep
  <2>4. CASE Finalize
    BY <2>1, <2>4, FinalizeStart
  <2>5. CASE \E kind \in {"insert", "remove"} : Start(kind)
    BY <2>1, <2>5, StartStep
  <2>6. CASE UNCHANGED vars
    BY <2>1, <2>6, StutterStep
  <2> QED BY <2>2, <2>3, <2>4, <2>5, <2>6 DEF Next
<1> QED BY <1>1, <1>2, TreeInductive, PTL DEF Spec, NodeTreeSpec, Tree!Spec
=============================================================================

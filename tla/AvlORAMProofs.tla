--------------------------- MODULE AvlORAMProofs ----------------------------
(***************************************************************************)
(* Proofs about the AVL variants.                                          *)
(*                                                                         *)
(* First, about AvlORAM, for every bucket tree, every set of identifiers   *)
(* and every sequence of operations, where the path of a new node is       *)
(* fetched before it is written back (NewPathFetched).  The inductive      *)
(* invariant says of every node of the caller that its only up-to-date     *)
(* copy, in the cache or on its path, is the one the caller wants, and     *)
(* that the buckets fetched and not written back are those of the          *)
(* scheduled paths at the levels still to come.                            *)
(*                                                                         *)
(* Then, about AVLSteps (A), for every tree and every key: what insert()   *)
(* and the removal do at one node, and finilize(), given what the          *)
(* recursive call has left below, keeps the tree balanced, ordered, and    *)
(* every node where its parent says.                                       *)
(***************************************************************************)
EXTENDS AvlORAM, FiniteSetTheorems, TLAPS

\* Buckets whose content the cache has taken over.
Stale == IF phase = "idle" THEN {} ELSE Pending

\* The only copy of x, in cache c or in a bucket of st but those in seen, is n.
IsAt(c, st, seen, x, n) ==
  \/ c[x] = n /\ \A b \in Buckets \ seen : st[b][x] = None
  \/ /\ c[x] = None
     /\ \E b \in Path(n.pos) \ seen :
          /\ st[b][x] = n
          /\ \A b2 \in Buckets \ seen : st[b2][x] # None => b2 = b

\* There is no copy of x, but perhaps the node it was freed with.
Gone(c, st, seen, x) ==
  /\ c[x] # None => c[x] \in Node /\ c[x].ver = Dead
  /\ \A b \in Buckets \ seen : st[b][x] = None

Wanted(x) == [pos |-> leaf[x], ver |-> want[x]]

Places ==
  \A x \in Bids : IF leaf[x] = None THEN Gone(cache, store, Stale, x)
                  ELSE IsAt(cache, store, Stale, x, Wanted(x))

TypeOK ==
  /\ store \in [Buckets -> [Bids -> Node \cup {None}]]
  /\ cache \in [Bids -> Node \cup {None}]
  /\ leaf \in [Bids -> Leaves \cup {None}] /\ want \in [Bids -> Versions \cup {None}]
  /\ \A x \in Bids : leaf[x] # None => want[x] # None
  /\ leafList \in SUBSET Leaves /\ modified \in SUBSET Bids
  /\ phase \in Kinds \cup {"idle", "write"} /\ level \in -1 .. depth
  /\ readCnt \in Nat /\ emptyNodes \in Nat

\* The buckets scheduled at the levels up to n.
Scheduled(n) == {b \in Buckets : \E l \in leafList, d \in 0 .. n : b = OnPath(l, d)}

Views ==
  /\ phase \in Kinds => writeviewmap = {}
  /\ phase # "write" => level = depth
  /\ phase \notin Kinds => modified = {}
  /\ phase = "idle" => leafList = {}
  /\ phase # "idle" => Pending = Scheduled(level) \ writeviewmap
  /\ \A x \in modified : Cached(x)

IInv ==
  /\ TypeOK
  /\ IF failed = "no" THEN Views /\ Places /\ emptyNodes = MaxNodes - Used
     ELSE failed = "full" /\ phase \in Kinds /\ OneCopy /\ Used = MaxNodes + 1
-----------------------------------------------------------------------------
LEMMA PathInBuckets == \A l \in Leaves : Path(l) \subseteq Buckets
BY AvlORAMAssumption DEF Path

LEMMA NodeFacts ==
  /\ None \notin Node /\ None \notin Leaves /\ None \notin Versions
  /\ \A l \in Leaves, v \in Versions : [pos |-> l, ver |-> v] \in Node /\ v # Dead
  /\ \A l \in Leaves : [pos |-> l, ver |-> Dead] \in Node
  /\ \A n \in Node : n.pos \in Leaves /\ n = [pos |-> n.pos, ver |-> n.ver]
BY AvlORAMAssumption DEF Node, Dead

LEMMA WantedIsNode ==
  ASSUME TypeOK, NEW x \in Bids, leaf[x] # None
  PROVE  /\ Wanted(x) \in Node /\ Wanted(x) # None
         /\ Wanted(x).pos = leaf[x] /\ Wanted(x).ver = want[x] /\ want[x] # Dead
         /\ leaf[x] \in Leaves /\ want[x] \in Versions
<1>1. leaf[x] \in Leaves /\ want[x] \in Versions
  BY DEF TypeOK
<1> QED BY <1>1, NodeFacts DEF Wanted

\* A path fetched keeps every node's only copy the one it was.
LEMMA FetchKeepsPlace ==
  ASSUME TypeOK, NEW l \in Leaves, NEW x \in Bids, NEW n \in Node,
         IsAt(cache, store, readviewmap, x, n)
  PROVE  IsAt(FetchPath(l), store, readviewmap \cup Path(l), x, n)
<1> DEFINE f == FetchPath(l)
           seen == readviewmap \cup Path(l)
<1>0. n # None /\ Path(l) \subseteq Buckets /\ Path(n.pos) \subseteq Buckets
  BY NodeFacts, PathInBuckets
<1>1. CASE cache[x] # None
  <2>1. cache[x] = n /\ \A b \in Buckets \ readviewmap : store[b][x] = None
    BY <1>1 DEF IsAt
  <2>2. f[x] = n
    BY <1>1, <2>1 DEF FetchPath, Cached
  <2> QED BY <2>1, <2>2 DEF IsAt
<1>2. CASE cache[x] = None
  <2>1. PICK b \in Path(n.pos) \ readviewmap :
          /\ store[b][x] = n
          /\ \A b2 \in Buckets \ readviewmap : store[b2][x] # None => b2 = b
    BY <1>0, <1>2 DEF IsAt
  <2>2. CASE b \in Path(l)
    <3>1. Fetched(l, x) = {b}
      BY <2>1, <2>2, <1>0 DEF Fetched
    <3>2. f[x] = n
      BY <1>2, <2>1, <3>1 DEF FetchPath, Cached
    <3>3. \A b2 \in Buckets \ seen : store[b2][x] = None
      BY <2>1, <2>2
    <3> QED BY <3>2, <3>3 DEF IsAt
  <2>3. CASE b \notin Path(l)
    <3>1. Fetched(l, x) = {}
      BY <2>1, <2>3, <1>0 DEF Fetched
    <3>2. f[x] = None
      BY <1>2, <3>1 DEF FetchPath, Cached
    <3> QED BY <2>1, <2>3, <3>2 DEF IsAt
  <2> QED BY <2>2, <2>3
<1> QED BY <1>1, <1>2

LEMMA FetchKeepsGone ==
  ASSUME NEW l \in Leaves, NEW x \in Bids, Gone(cache, store, readviewmap, x)
  PROVE  Gone(FetchPath(l), store, readviewmap \cup Path(l), x)
<1>1. Fetched(l, x) = {}
  BY PathInBuckets DEF Gone, Fetched
<1> QED BY <1>1 DEF Gone, FetchPath, Cached

\* What IInv says between two steps of an operation's calls.
LEMMA WorkingFacts ==
  ASSUME IInv, Working
  PROVE  /\ TypeOK /\ Views /\ Places /\ emptyNodes = MaxNodes - Used
         /\ phase \in Kinds /\ failed = "no" /\ writeviewmap = {} /\ level = depth
         /\ Stale = readviewmap /\ readviewmap = Scheduled(depth)
<1>1. TypeOK /\ Views /\ Places /\ emptyNodes = MaxNodes - Used /\ phase \in Kinds /\ failed = "no"
  BY DEF IInv, Working
<1>2. phase # "idle" /\ phase # "write"
  BY <1>1 DEF Kinds
<1> QED BY <1>1, <1>2 DEF Views, Stale, Pending

LEMMA FetchPlaces ==
  ASSUME IInv, Working, NEW l \in Leaves
  PROVE  /\ FetchPath(l) \in [Bids -> Node \cup {None}]
         /\ \A x \in Bids : Cached(x) => FetchPath(l)[x] = cache[x]
         /\ \A x \in Bids :
              IF leaf[x] = None THEN Gone(FetchPath(l), store, readviewmap \cup Path(l), x)
              ELSE IsAt(FetchPath(l), store, readviewmap \cup Path(l), x, Wanted(x))
<1>1. TypeOK /\ Places /\ Stale = readviewmap
  BY WorkingFacts
<1>2. ASSUME NEW x \in Bids
      PROVE  IF leaf[x] = None THEN Gone(FetchPath(l), store, readviewmap \cup Path(l), x)
             ELSE IsAt(FetchPath(l), store, readviewmap \cup Path(l), x, Wanted(x))
  <2>1. CASE leaf[x] = None
    <3>1. Gone(cache, store, readviewmap, x)
      BY <1>1, <2>1 DEF Places
    <3> QED BY <2>1, <3>1, FetchKeepsGone
  <2>2. CASE leaf[x] # None
    <3>1. IsAt(cache, store, readviewmap, x, Wanted(x)) /\ Wanted(x) \in Node
      BY <1>1, <2>2, WantedIsNode DEF Places
    <3> QED BY <1>1, <2>2, <3>1, FetchKeepsPlace
  <2> QED BY <2>1, <2>2
<1>3. ASSUME NEW x \in Bids PROVE FetchPath(l)[x] \in Node \cup {None}
  BY <1>1, <1>2, WantedIsNode DEF Gone, IsAt
<1>4. FetchPath(l) \in [Bids -> Node \cup {None}]
  BY <1>3 DEF FetchPath
<1> QED BY <1>2, <1>4 DEF FetchPath

\* Scheduling the path that was fetched.
LEMMA FetchScheduled ==
  ASSUME NEW l \in Leaves, leafList' = leafList \cup {l}
  PROVE  Scheduled(depth)' = Scheduled(depth) \cup Path(l)
BY PathInBuckets DEF Scheduled, Path

\* A node whose only copy is known is in one place.
HoldersIn(st, seen, x) == {b \in Buckets \ seen : st[b][x] # None}

LEMMA PlaceIsOne ==
  ASSUME NEW c, NEW st, NEW seen, NEW x \in Bids, NEW n, n # None,
         IsAt(c, st, seen, x, n) \/ Gone(c, st, seen, x)
  PROVE  /\ Cardinality(HoldersIn(st, seen, x)) \in {0, 1}
         /\ c[x] # None => Cardinality(HoldersIn(st, seen, x)) = 0
<1> DEFINE H == HoldersIn(st, seen, x)
<1>1. CASE H = {}
  BY <1>1, FS_EmptySet
<1>2. CASE H # {}
  <2>1. c[x] = None /\ \E b : H \subseteq {b}
    BY <1>2 DEF IsAt, Gone, HoldersIn
  <2>2. PICK b : H = {b}
    BY <1>2, <2>1
  <2> HIDE DEF H
  <2>3. Cardinality(H) = 1
    BY <2>2, FS_Singleton
  <2> QED BY <2>1, <2>3 DEF H
<1> QED BY <1>1, <1>2
-----------------------------------------------------------------------------
(***************************************************************************)
(* One lemma per action.                                                   *)
(***************************************************************************)
LEMMA InitInv == Init => IInv
<1> SUFFICES ASSUME Init PROVE IInv
  OBVIOUS
<1>1. TypeOK
  BY AvlORAMAssumption DEF Init, TypeOK
<1>2. Places
  BY DEF Init, Places, Gone
<1>3. Views
  BY DEF Init, Views, Kinds
<1>4. Used = 0
  <2>1. {x \in Bids : leaf[x] # None} = {}
    BY DEF Init
  <2> QED BY <2>1, FS_EmptySet DEF Used
<1> QED BY <1>1, <1>2, <1>3, <1>4, AvlORAMAssumption DEF Init, IInv

LEMMA StartInv ==
  ASSUME IInv, NEW kind \in Kinds, Start(kind)
  PROVE  IInv'
<1>1. TypeOK /\ Views /\ Places /\ emptyNodes = MaxNodes - Used /\ phase = "idle" /\ failed = "no"
  BY DEF IInv, Start
<1>2. kind # "idle" /\ kind # "write"
  BY DEF Kinds
<1>3. Stale = {} /\ Stale' = {} /\ Pending' = {}
  BY <1>1, <1>2 DEF Start, Stale, Pending
<1>4. TypeOK'
  BY <1>1 DEF Start, TypeOK
<1>5. Places'
  BY <1>1, <1>3 DEF Start, Places, Gone, IsAt, Wanted
<1>6. Scheduled(level)' = {}
  BY <1>1 DEF Start, Views, Scheduled
<1>7. Views'
  BY <1>1, <1>2, <1>3, <1>6 DEF Start, Views, Cached, Kinds
<1>8. (emptyNodes = MaxNodes - Used)'
  BY <1>1 DEF Start, Used
<1> QED BY <1>1, <1>4, <1>5, <1>7, <1>8 DEF Start, IInv

\* A path fetched and scheduled keeps the invariant.
LEMMA FetchInv ==
  ASSUME IInv, Working, NEW l \in Leaves, cache' = FetchPath(l), leafList' = leafList \cup {l},
         readviewmap' = readviewmap \cup Path(l), readCnt' \in Nat,
         modified' \in SUBSET Bids, \A x \in modified' : x \in modified \/ cache'[x] # None,
         UNCHANGED <<store, writeviewmap, emptyNodes, phase, level, leaf, want, failed>>
  PROVE  IInv'
<1>1. /\ TypeOK /\ Views /\ Places /\ emptyNodes = MaxNodes - Used
      /\ phase \in Kinds /\ failed = "no" /\ writeviewmap = {} /\ level = depth
      /\ readviewmap = Scheduled(depth)
  BY WorkingFacts
<1>2. phase # "idle" /\ phase # "write"
  BY <1>1 DEF Kinds
<1>3. Stale' = readviewmap \cup Path(l) /\ Pending' = readviewmap \cup Path(l)
  BY <1>1, <1>2 DEF Stale, Pending
<1>4. TypeOK'
  BY <1>1, FetchPlaces DEF TypeOK
<1>5. Places'
  BY <1>1, <1>3, FetchPlaces DEF Places, Wanted, IsAt, Gone
<1>6. Pending' = Scheduled(level)'
  BY <1>1, <1>3, FetchScheduled DEF Scheduled
<1>7. \A x \in modified' : Cached(x)'
  BY <1>1, FetchPlaces DEF Views, Cached
<1>8. Views'
  BY <1>1, <1>2, <1>6, <1>7 DEF Views
<1>9. (emptyNodes = MaxNodes - Used)'
  BY <1>1 DEF Used
<1> QED BY <1>1, <1>4, <1>5, <1>8, <1>9 DEF IInv

LEMMA PadInv ==
  ASSUME IInv, NEW rnd \in Leaves, PadPath(rnd)
  PROVE  IInv'
<1>1. Working /\ TypeOK
  BY DEF PadPath, IInv
<1> QED BY <1>1, FetchInv DEF PadPath, TypeOK

\* A node the caller has is found, where and as the caller has it.
LEMMA ReadFinds ==
  ASSUME IInv, NEW x \in Bids, ReadNode(x)
  PROVE  LET c == IF Cached(x) /\ leaf[x] \in leafList THEN cache ELSE FetchPath(leaf[x])
         IN  c[x] = Wanted(x) /\ [c EXCEPT ![x].pos = leaf[x]] = c
<1> DEFINE c == IF Cached(x) /\ leaf[x] \in leafList THEN cache ELSE FetchPath(leaf[x])
<1>1. Working /\ leaf[x] # None
  BY DEF ReadNode
<1>2. TypeOK /\ Places
  BY <1>1, WorkingFacts
<1>3. Wanted(x) \in Node /\ Wanted(x).pos = leaf[x] /\ leaf[x] \in Leaves /\ Wanted(x) # None
  BY <1>1, <1>2, WantedIsNode
<1>4. c[x] = Wanted(x)
  <2>1. CASE Cached(x) /\ leaf[x] \in leafList
    <3>1. IsAt(cache, store, Stale, x, Wanted(x)) /\ cache[x] # None
      BY <1>1, <1>2, <2>1 DEF Places, Cached
    <3> QED BY <2>1, <3>1 DEF IsAt
  <2>2. CASE ~(Cached(x) /\ leaf[x] \in leafList)
    <3>1. IsAt(FetchPath(leaf[x]), store, readviewmap \cup Path(leaf[x]), x, Wanted(x))
      BY <1>1, <1>3, FetchPlaces
    <3> QED BY <1>3, <2>2, <3>1 DEF IsAt
  <2> QED BY <2>1, <2>2
<1>5. c \in [Bids -> Node \cup {None}]
  BY <1>1, <1>2, <1>3, FetchPlaces DEF TypeOK
<1>6. [c[x] EXCEPT !.pos = leaf[x]] = c[x]
  BY <1>3, <1>4 DEF Wanted
<1>7. [c EXCEPT ![x].pos = leaf[x]] = c
  BY <1>5, <1>6
<1> QED BY <1>4, <1>7

LEMMA ReadInv ==
  ASSUME IInv, NEW x \in Bids, ReadNode(x)
  PROVE  IInv'
<1> DEFINE c == IF Cached(x) /\ leaf[x] \in leafList THEN cache ELSE FetchPath(leaf[x])
<1>1. Working /\ leaf[x] # None
  BY DEF ReadNode
<1>2. TypeOK /\ leaf[x] \in Leaves /\ Wanted(x) # None /\ Wanted(x).ver # Dead
  BY <1>1, WorkingFacts, WantedIsNode
<1>3. c[x] = Wanted(x) /\ [c EXCEPT ![x].pos = leaf[x]] = c
  BY ReadFinds
<1>4. /\ cache' = c /\ leafList' = leafList \cup {leaf[x]} /\ modified' = modified \cup {x}
      /\ UNCHANGED <<store, writeviewmap, emptyNodes, phase, level, leaf, want, failed>>
  BY <1>2, <1>3 DEF ReadNode
<1>5. CASE Cached(x) /\ leaf[x] \in leafList
  <2>1. UNCHANGED <<cache, leafList, readviewmap, readCnt>>
    BY <1>4, <1>5 DEF ReadNode
  <2>2. TypeOK /\ Views /\ Places /\ emptyNodes = MaxNodes - Used /\ failed = "no" /\ phase \in Kinds
    BY <1>1, WorkingFacts
  <2>3. TypeOK'
    BY <1>4, <2>1, <2>2 DEF TypeOK
  <2>4. Views'
    BY <1>4, <1>5, <2>1, <2>2 DEF Views, Cached, Pending, Scheduled
  <2>5. Places'
    BY <1>4, <2>1, <2>2 DEF Places, Stale, Pending, Gone, IsAt, Wanted
  <2>6. (emptyNodes = MaxNodes - Used)'
    BY <1>4, <2>2 DEF Used
  <2> QED BY <1>4, <2>2, <2>3, <2>4, <2>5, <2>6 DEF IInv
<1>6. CASE ~(Cached(x) /\ leaf[x] \in leafList)
  <2>1. cache' = FetchPath(leaf[x]) /\ cache'[x] # None
    BY <1>2, <1>3, <1>4, <1>6
  <2>2. readviewmap' = readviewmap \cup Path(leaf[x]) /\ readCnt' \in Nat
    BY <1>2, <1>6 DEF ReadNode, TypeOK
  <2>3. modified' \in SUBSET Bids
    BY <1>2, <1>4 DEF TypeOK
  <2> QED BY <1>1, <1>2, <1>4, <2>1, <2>2, <2>3, FetchInv
<1> QED BY <1>5, <1>6

\* What a node's copy is does not depend on the other nodes.
LEMMA PlacesOfOthers ==
  ASSUME NEW x \in Bids, NEW y \in Bids \ {x}, NEW c, NEW seen, NEW n,
         cache'[y] = c[y], store' = store, Stale' = seen
  PROVE  /\ Gone(c, store, seen, y) => Gone(cache', store', Stale', y)
         /\ IsAt(c, store, seen, y, n) => IsAt(cache', store', Stale', y, n)
BY DEF Gone, IsAt

LEMMA UpdateInv ==
  ASSUME IInv, NEW x \in Bids, NEW v \in Versions, Update(x, v)
  PROVE  IInv'
<1>1. /\ Working /\ x \in modified /\ leaf[x] # None
      /\ cache' = [cache EXCEPT ![x].ver = v] /\ want' = [want EXCEPT ![x] = v]
      /\ UNCHANGED <<store, leafList, modified, readviewmap, writeviewmap, readCnt, emptyNodes,
                     phase, level, leaf, failed>>
  BY DEF Update
<1>2. TypeOK /\ Views /\ Places /\ emptyNodes = MaxNodes - Used /\ failed = "no" /\ phase \in Kinds
  BY <1>1, WorkingFacts
<1>3. /\ cache[x] = Wanted(x) /\ \A b \in Buckets \ Stale : store[b][x] = None
      /\ leaf[x] \in Leaves
  BY <1>1, <1>2, WantedIsNode DEF Views, Places, IsAt, Cached
<1>4. cache'[x] = [pos |-> leaf[x], ver |-> v] /\ \A y \in Bids \ {x} : cache'[y] = cache[y]
  BY <1>1, <1>2, <1>3 DEF TypeOK, Wanted
<1>5. want'[x] = v /\ \A y \in Bids \ {x} : want'[y] = want[y]
  BY <1>1, <1>2 DEF TypeOK
<1>6. cache'[x] \in Node /\ cache'[x] # None /\ v # None
  BY <1>3, <1>4, NodeFacts
<1>7. TypeOK'
  <2>1. cache' \in [Bids -> Node \cup {None}]
    BY <1>1, <1>2, <1>4, <1>6 DEF TypeOK
  <2>2. want' \in [Bids -> Versions \cup {None}] /\ \A y \in Bids : leaf'[y] # None => want'[y] # None
    BY <1>1, <1>2, <1>5, <1>6 DEF TypeOK
  <2> QED BY <1>1, <1>2, <2>1, <2>2 DEF TypeOK
<1>8. Stale' = Stale /\ Pending' = Pending /\ Scheduled(level)' = Scheduled(level)
  BY <1>1 DEF Stale, Pending, Scheduled
<1>9. Views'
  BY <1>1, <1>2, <1>4, <1>6, <1>8 DEF Views, Cached
<1>10. Places'
  <2> SUFFICES ASSUME NEW y \in Bids
               PROVE  (IF leaf[y] = None THEN Gone(cache, store, Stale, y)
                       ELSE IsAt(cache, store, Stale, y, Wanted(y)))'
    BY DEF Places
  <2>1. CASE y = x
    <3>1. Wanted(x)' = cache'[x] /\ leaf'[x] # None
      BY <1>1, <1>4, <1>5 DEF Wanted
    <3> QED BY <2>1, <3>1, <1>1, <1>3, <1>8 DEF IsAt
  <2>2. CASE y # x
    <3>1. Wanted(y)' = Wanted(y) /\ leaf'[y] = leaf[y] /\ cache'[y] = cache[y]
      BY <1>1, <1>4, <1>5, <2>2 DEF Wanted
    <3>2. IF leaf[y] = None THEN Gone(cache, store, Stale, y)
          ELSE IsAt(cache, store, Stale, y, Wanted(y))
      BY <1>2 DEF Places
    <3>3. store' = store
      BY <1>1
    <3> QED BY <2>2, <3>1, <3>2, <3>3, <1>8, PlacesOfOthers
  <2> QED BY <2>1, <2>2
<1>11. (emptyNodes = MaxNodes - Used)'
  BY <1>1, <1>2 DEF Used
<1> QED BY <1>1, <1>2, <1>7, <1>9, <1>10, <1>11 DEF IInv

LEMMA CountOne ==
  ASSUME NEW x \in Bids, TypeOK
  PROVE  /\ Used \in Nat
         /\ leaf[x] = None /\ leaf'[x] # None /\ (\A y \in Bids \ {x} : leaf'[y] = leaf[y])
              => Used' = Used + 1
         /\ leaf[x] # None /\ leaf'[x] = None /\ (\A y \in Bids \ {x} : leaf'[y] = leaf[y])
              => Used' = Used - 1
<1> DEFINE U == {y \in Bids : leaf[y] # None}
           V == {y \in Bids : leaf'[y] # None}
<1>1. IsFiniteSet(U) /\ IsFiniteSet(V)
  BY AvlORAMAssumption, FS_Subset
<1>2. Used = Cardinality(U) /\ Used' = Cardinality(V) /\ Used \in Nat /\ Used' \in Nat
  BY <1>1, FS_CardinalityType DEF Used
<1>3. ASSUME leaf[x] = None, leaf'[x] # None, \A y \in Bids \ {x} : leaf'[y] = leaf[y]
      PROVE  Used' = Used + 1
  <2>1. V = U \cup {x} /\ x \notin U
    BY <1>3
  <2> HIDE DEF U, V
  <2> QED BY <1>1, <1>2, <2>1, FS_AddElement
<1>4. ASSUME leaf[x] # None, leaf'[x] = None, \A y \in Bids \ {x} : leaf'[y] = leaf[y]
      PROVE  Used' = Used - 1
  <2>1. U = V \cup {x} /\ x \notin V
    BY <1>4
  <2> HIDE DEF U, V
  <2>2. Used = Used' + 1
    BY <1>1, <1>2, <2>1, FS_AddElement
  <2> QED BY <2>2, <1>2
<1> QED BY <1>2, <1>3, <1>4

LEMMA DeleteInv ==
  ASSUME IInv, NEW x \in Bids, NEW l \in Leaves, DeleteNode(x, l)
  PROVE  IInv'
<1>1. /\ Working /\ x \in modified /\ leaf[x] # None
      /\ cache' = [cache EXCEPT ![x] = [pos |-> l, ver |-> Dead]] /\ emptyNodes' = emptyNodes + 1
      /\ leaf' = [leaf EXCEPT ![x] = None] /\ want' = [want EXCEPT ![x] = None]
      /\ UNCHANGED <<store, leafList, modified, readviewmap, writeviewmap, readCnt, phase, level, failed>>
  BY DEF DeleteNode, MoreEmpty
<1>2. TypeOK /\ Views /\ Places /\ emptyNodes = MaxNodes - Used /\ failed = "no" /\ phase \in Kinds
  BY <1>1, WorkingFacts
<1>3. \A b \in Buckets \ Stale : store[b][x] = None
  BY <1>1, <1>2 DEF Views, Places, IsAt, Cached
<1>4. cache'[x] = [pos |-> l, ver |-> Dead] /\ leaf'[x] = None /\ want'[x] = None
  BY <1>1, <1>2 DEF TypeOK
<1>5. \A y \in Bids \ {x} : cache'[y] = cache[y] /\ want'[y] = want[y] /\ leaf'[y] = leaf[y]
  BY <1>1, <1>2 DEF TypeOK
<1>6. cache'[x] \in Node /\ cache'[x] # None
  BY <1>4, NodeFacts
<1>7. TypeOK'
  <2>1. cache' \in [Bids -> Node \cup {None}]
    BY <1>1, <1>2, <1>5, <1>6 DEF TypeOK
  <2>2. /\ want' \in [Bids -> Versions \cup {None}] /\ leaf' \in [Bids -> Leaves \cup {None}]
        /\ \A y \in Bids : leaf'[y] # None => want'[y] # None
    BY <1>1, <1>2, <1>4, <1>5 DEF TypeOK
  <2> QED BY <1>1, <1>2, <2>1, <2>2 DEF TypeOK
<1>8. Stale' = Stale /\ Pending' = Pending /\ Scheduled(level)' = Scheduled(level)
  BY <1>1 DEF Stale, Pending, Scheduled
<1>9. Views'
  BY <1>1, <1>2, <1>5, <1>6, <1>8 DEF Views, Cached
<1>10. Places'
  <2> SUFFICES ASSUME NEW y \in Bids
               PROVE  (IF leaf[y] = None THEN Gone(cache, store, Stale, y)
                       ELSE IsAt(cache, store, Stale, y, Wanted(y)))'
    BY DEF Places
  <2>1. CASE y = x
    BY <2>1, <1>1, <1>3, <1>4, <1>6, <1>8 DEF Gone
  <2>2. CASE y # x
    <3>1. Wanted(y)' = Wanted(y) /\ leaf'[y] = leaf[y] /\ cache'[y] = cache[y]
      BY <1>5, <2>2 DEF Wanted
    <3>2. IF leaf[y] = None THEN Gone(cache, store, Stale, y)
          ELSE IsAt(cache, store, Stale, y, Wanted(y))
      BY <1>2 DEF Places
    <3>3. store' = store
      BY <1>1
    <3> QED BY <2>2, <3>1, <3>2, <3>3, <1>8, PlacesOfOthers
  <2> QED BY <2>1, <2>2
<1>11. (emptyNodes = MaxNodes - Used)'
  <2>1. Used' = Used - 1 /\ Used \in Nat
    BY <1>1, <1>2, <1>4, <1>5, CountOne
  <2> QED BY <2>1, <1>1, <1>2, AvlORAMAssumption
<1> QED BY <1>1, <1>2, <1>7, <1>9, <1>10, <1>11 DEF IInv

\* A new node is put into the cache after its path was fetched, or the
\* store is full.
LEMMA NewInv ==
  ASSUME NewPathFetched, IInv, NEW x \in Bids, NEW l \in Leaves, ~Cached(x), WriteNode(x, l)
  PROVE  IInv'
<1> DEFINE v == CHOOSE v \in Versions : TRUE
           c == FetchPath(l)
           seen == readviewmap \cup Path(l)
<1>1. /\ Working /\ leaf[x] = None
      /\ leaf' = [leaf EXCEPT ![x] = l] /\ want' = [want EXCEPT ![x] = v]
      /\ modified' = modified \cup {x}
      /\ readviewmap' = seen /\ readCnt' = readCnt + 1
      /\ IF emptyNodes > 0
         THEN /\ cache' = [c EXCEPT ![x] = [pos |-> l, ver |-> v]]
              /\ emptyNodes' = emptyNodes - 1 /\ leafList' = leafList \cup {l} /\ UNCHANGED failed
         ELSE cache' = c /\ failed' = "full" /\ UNCHANGED <<emptyNodes, leafList>>
      /\ UNCHANGED <<store, writeviewmap, phase, level>>
  <2>1. FetchNew
    BY DEF FetchNew
  <2>2. /\ Working /\ leaf[x] = None
        /\ leaf' = [leaf EXCEPT ![x] = l] /\ want' = [want EXCEPT ![x] = v]
        /\ modified' = modified \cup {x}
        /\ UNCHANGED <<store, writeviewmap, phase, level>>
    BY DEF WriteNode
  <2>3. /\ readviewmap' = seen /\ readCnt' = readCnt + 1
        /\ IF emptyNodes > 0
           THEN /\ cache' = [c EXCEPT ![x] = [pos |-> l, ver |-> v]]
                /\ emptyNodes' = emptyNodes - 1 /\ leafList' = leafList \cup {l} /\ UNCHANGED failed
           ELSE cache' = c /\ failed' = "full" /\ UNCHANGED <<emptyNodes, leafList>>
    BY <2>1 DEF WriteNode, ScheduledNew
  <2> QED BY <2>2, <2>3
<1>2. /\ TypeOK /\ Views /\ Places /\ emptyNodes = MaxNodes - Used /\ phase \in Kinds /\ failed = "no"
      /\ writeviewmap = {} /\ level = depth /\ Stale = readviewmap /\ readviewmap = Scheduled(depth)
  BY <1>1, WorkingFacts
<1>3. /\ c \in [Bids -> Node \cup {None}] /\ \A y \in Bids : Cached(y) => c[y] = cache[y]
      /\ \A y \in Bids : IF leaf[y] = None THEN Gone(c, store, seen, y)
                         ELSE IsAt(c, store, seen, y, Wanted(y))
  BY <1>1, FetchPlaces
<1>4. v \in Versions
  BY AvlORAMAssumption
<1> HIDE DEF v, c, seen
<1>5. /\ [pos |-> l, ver |-> v] \in Node /\ v # Dead /\ [pos |-> l, ver |-> v] # None
      /\ l # None /\ v # None
  BY <1>4, NodeFacts
<1>6. leaf'[x] = l /\ want'[x] = v /\ \A y \in Bids \ {x} : leaf'[y] = leaf[y] /\ want'[y] = want[y]
  BY <1>1, <1>2 DEF TypeOK
<1>7. phase # "idle" /\ phase # "write" /\ Stale' = seen /\ Pending' = seen
  BY <1>1, <1>2 DEF Stale, Pending, Kinds
<1>8. Used' = Used + 1 /\ Used \in Nat
  BY <1>1, <1>2, <1>5, <1>6, CountOne
<1>9. /\ leaf' \in [Bids -> Leaves \cup {None}] /\ want' \in [Bids -> Versions \cup {None}]
      /\ \A y \in Bids : leaf'[y] # None => want'[y] # None
  BY <1>1, <1>2, <1>4, <1>5, <1>6 DEF TypeOK
<1>10. CASE emptyNodes > 0
  <2>1. /\ cache'[x] = [pos |-> l, ver |-> v] /\ \A y \in Bids \ {x} : cache'[y] = c[y]
        /\ cache' \in [Bids -> Node \cup {None}]
    BY <1>1, <1>3, <1>5, <1>10
  <2>2. TypeOK'
    BY <1>1, <1>2, <1>9, <1>10, <2>1 DEF TypeOK
  <2>3. Places'
    <3> SUFFICES ASSUME NEW y \in Bids
                 PROVE  (IF leaf[y] = None THEN Gone(cache, store, Stale, y)
                         ELSE IsAt(cache, store, Stale, y, Wanted(y)))'
      BY DEF Places
    <3>1. CASE y = x
      <4>1. \A b \in Buckets \ seen : store[b][x] = None
        BY <1>1, <1>3 DEF Gone
      <4>2. Wanted(x)' = cache'[x] /\ leaf'[x] # None
        BY <1>5, <1>6, <2>1 DEF Wanted
      <4> QED BY <3>1, <4>1, <4>2, <1>1, <1>7 DEF IsAt
    <3>2. CASE y # x
      <4>1. Wanted(y)' = Wanted(y) /\ leaf'[y] = leaf[y] /\ cache'[y] = c[y]
        BY <1>6, <2>1, <3>2 DEF Wanted
      <4>2. IF leaf[y] = None THEN Gone(c, store, seen, y) ELSE IsAt(c, store, seen, y, Wanted(y))
        BY <1>3
      <4>3. store' = store
        BY <1>1
      <4> QED BY <3>2, <4>1, <4>2, <4>3, <1>7, PlacesOfOthers
    <3> QED BY <3>1, <3>2
  <2>4. Pending' = Scheduled(level)'
    BY <1>1, <1>2, <1>7, <1>10, FetchScheduled DEF Scheduled, seen
  <2>5. \A y \in modified' : Cached(y)'
    <3> SUFFICES ASSUME NEW y \in modified' PROVE cache'[y] # None
      BY DEF Cached
    <3>1. CASE y = x
      BY <3>1, <1>5, <2>1
    <3>2. CASE y # x
      BY <3>2, <1>1, <1>2, <1>3, <2>1 DEF Views, Cached, TypeOK
    <3> QED BY <3>1, <3>2
  <2>6. Views'
    BY <1>1, <1>2, <1>7, <2>4, <2>5 DEF Views
  <2>7. (emptyNodes = MaxNodes - Used)'
    BY <1>1, <1>2, <1>8, <1>10, AvlORAMAssumption
  <2> QED BY <1>1, <1>2, <1>10, <2>2, <2>3, <2>6, <2>7 DEF IInv
<1>11. CASE ~(emptyNodes > 0)
  <2>1. cache' = c /\ failed' = "full" /\ emptyNodes' = emptyNodes /\ leafList' = leafList
    BY <1>1, <1>2, <1>11 DEF TypeOK
  <2>2. TypeOK'
    BY <1>1, <1>2, <1>3, <1>9, <2>1 DEF TypeOK
  <2>3. Used' = MaxNodes + 1
    <3>1. emptyNodes = 0
      BY <1>2, <1>11 DEF TypeOK
    <3> QED BY <3>1, <1>2, <1>8, AvlORAMAssumption
  <2>4. OneCopy'
    <3> SUFFICES ASSUME NEW y \in Bids
                 PROVE  (Cardinality(Holders(y)) + (IF Cached(y) THEN 1 ELSE 0) <= 1)'
      BY DEF OneCopy
    <3> DEFINE n == IF leaf[y] = None THEN [pos |-> l, ver |-> v] ELSE Wanted(y)
    <3>1. n # None /\ (IsAt(c, store, seen, y, n) \/ Gone(c, store, seen, y))
      BY <1>2, <1>3, <1>5, WantedIsNode
    <3>2. /\ Cardinality(HoldersIn(store, seen, y)) \in {0, 1}
          /\ c[y] # None => Cardinality(HoldersIn(store, seen, y)) = 0
      <4> HIDE DEF n
      <4>1. y \in Bids /\ n # None /\ (IsAt(c, store, seen, y, n) \/ Gone(c, store, seen, y))
        BY <3>1
      <4> QED BY ONLY <4>1, PlaceIsOne
    <3>3. Holders(y)' = HoldersIn(store, seen, y)
      BY <1>1, <1>7 DEF Holders, HoldersIn
    <3> QED BY <3>2, <3>3, <2>1 DEF Cached
  <2> QED BY <1>1, <1>2, <2>1, <2>2, <2>3, <2>4 DEF IInv
<1> QED BY <1>10, <1>11

\* New leaves: the caller's record and the copy in the cache agree.
LEMMA FinilizeInv ==
  ASSUME IInv, Finilize
  PROVE  IInv'
<1>1. /\ Working /\ phase' = "write" /\ modified' = {}
      /\ UNCHANGED <<store, leafList, readviewmap, writeviewmap, readCnt, emptyNodes, level, want, failed>>
  BY DEF Finilize
<1>2. /\ TypeOK /\ Views /\ Places /\ emptyNodes = MaxNodes - Used /\ phase \in Kinds /\ failed = "no"
      /\ writeviewmap = {} /\ level = depth /\ Stale = readviewmap /\ readviewmap = Scheduled(depth)
  BY <1>1, WorkingFacts
<1>3. PICK newPos \in [Remapped -> Leaves] :
        /\ cache' = [x \in Bids |-> IF x \in Remapped THEN [cache[x] EXCEPT !.pos = newPos[x]]
                                                      ELSE cache[x]]
        /\ leaf' = Recorded(newPos)
  BY DEF Finilize
<1>4. ASSUME NEW x \in Remapped
      PROVE  /\ x \in Bids /\ leaf[x] # None /\ cache[x] = Wanted(x)
             /\ \A b \in Buckets \ Stale : store[b][x] = None
  <2>1. x \in Bids /\ cache[x] # None /\ cache[x].ver # Dead
    BY <1>2 DEF Remapped, Cached, TypeOK
  <2>2. leaf[x] # None
    BY <1>2, <2>1 DEF Places, Gone
  <2> QED BY <1>2, <2>1, <2>2 DEF Places, IsAt
<1>5. ASSUME NEW x \in Remapped
      PROVE  /\ leaf'[x] = newPos[x] /\ newPos[x] \in Leaves
             /\ cache'[x] = [pos |-> newPos[x], ver |-> want[x]]
  <2>1. cache'[x] = [cache[x] EXCEPT !.pos = newPos[x]] /\ leaf'[x] = newPos[x]
    BY <1>3, <1>4 DEF Recorded
  <2>2. cache[x] = [pos |-> leaf[x], ver |-> want[x]]
    BY <1>4 DEF Wanted
  <2> QED BY <2>1, <2>2
<1>6. \A x \in Bids \ Remapped : cache'[x] = cache[x] /\ leaf'[x] = leaf[x]
  BY <1>3 DEF Recorded
<1>7. ASSUME NEW x \in Remapped PROVE cache'[x] \in Node /\ leaf'[x] # None /\ want[x] # None
  <2>1. want[x] \in Versions
    BY <1>2, <1>4, WantedIsNode
  <2> QED BY <2>1, <1>5, NodeFacts
<1>8. TypeOK'
  <2>1. cache' \in [Bids -> Node \cup {None}]
    BY <1>2, <1>3, <1>6, <1>7 DEF TypeOK
  <2>2. leaf' \in [Bids -> Leaves \cup {None}] /\ \A x \in Bids : leaf'[x] # None => want'[x] # None
    BY <1>1, <1>2, <1>3, <1>5, <1>6, <1>7 DEF TypeOK, Recorded
  <2> QED BY <1>1, <1>2, <2>1, <2>2 DEF TypeOK
<1>9. Stale' = Stale /\ Pending' = Pending /\ Scheduled(level)' = Scheduled(level)
  <2>1. phase # "idle" /\ phase' # "idle"
    BY <1>1, <1>2 DEF Kinds
  <2> QED BY <2>1, <1>1 DEF Stale, Pending, Scheduled
<1>10. Views'
  <2>1. phase # "idle" /\ phase' \notin Kinds
    BY <1>1, <1>2 DEF Kinds
  <2> QED BY <2>1, <1>1, <1>2, <1>9 DEF Views
<1>11. Places'
  <2> SUFFICES ASSUME NEW y \in Bids
               PROVE  (IF leaf[y] = None THEN Gone(cache, store, Stale, y)
                       ELSE IsAt(cache, store, Stale, y, Wanted(y)))'
    BY DEF Places
  <2>1. CASE y \in Remapped
    <3>1. Wanted(y)' = cache'[y] /\ leaf'[y] # None
      BY <2>1, <1>1, <1>5, <1>7 DEF Wanted
    <3> QED BY <2>1, <3>1, <1>1, <1>4, <1>9 DEF IsAt
  <2>2. CASE y \notin Remapped
    <3>1. Wanted(y)' = Wanted(y) /\ leaf'[y] = leaf[y] /\ cache'[y] = cache[y]
      BY <1>1, <1>6, <2>2 DEF Wanted
    <3>2. IF leaf[y] = None THEN Gone(cache, store, Stale, y)
          ELSE IsAt(cache, store, Stale, y, Wanted(y))
      BY <1>2 DEF Places
    <3>3. store' = store
      BY <1>1
    <3> QED BY <3>1, <3>2, <3>3, <1>9 DEF Gone, IsAt
  <2> QED BY <2>1, <2>2
<1>12. (emptyNodes = MaxNodes - Used)'
  <2>1. {x \in Bids : leaf'[x] # None} = {x \in Bids : leaf[x] # None}
    BY <1>4, <1>6, <1>7
  <2> QED BY <2>1, <1>1, <1>2 DEF Used
<1> QED BY <1>1, <1>2, <1>8, <1>10, <1>11, <1>12 DEF IInv

\* A level written back: what leaves the cache is in one bucket of its path,
\* and the buckets overwritten were out of date.
LEMMA LevelInv ==
  ASSUME IInv, WriteLevel
  PROVE  IInv'
<1>1. /\ phase = "write" /\ phase' = "write" /\ level >= 0 /\ level' = level - 1
      /\ writeviewmap' = writeviewmap \cup ToWrite
      /\ UNCHANGED <<leafList, modified, readviewmap, readCnt, emptyNodes, leaf, want, failed>>
  BY DEF WriteLevel
<1>2. /\ TypeOK /\ Views /\ Places /\ emptyNodes = MaxNodes - Used /\ failed = "no"
      /\ modified = {} /\ level \in 0 .. depth
  <2>1. phase \notin Kinds
    BY <1>1 DEF Kinds
  <2> QED BY <2>1, <1>1, AvlORAMAssumption DEF IInv, Views, TypeOK
<1>3. PICK S \in SUBSET UNION {Intersecting(b) : b \in ToWrite} :
        /\ store' = [b \in Buckets |-> IF b \notin ToWrite THEN store[b]
             ELSE [x \in Bids |-> IF x \in S \cap Intersecting(b) /\ cache[x].ver # Dead
                                  THEN cache[x] ELSE None]]
        /\ cache' = [x \in Bids |-> IF x \in S THEN None ELSE cache[x]]
  BY DEF WriteLevel, LeftInCache
<1>4. ToWrite \subseteq Buckets
  BY <1>2, AvlORAMAssumption DEF ToWrite, TypeOK
<1>5. /\ Stale = Pending /\ Stale' = Pending' /\ Pending' = Pending \ ToWrite
      /\ ToWrite \subseteq Pending
  <2>1. Stale = Pending /\ Stale' = Pending' /\ Pending' = Pending \ ToWrite
    BY <1>1 DEF Stale, Pending
  <2>2. ToWrite \subseteq Scheduled(level) \ writeviewmap
    BY <1>2, <1>4 DEF ToWrite, Scheduled
  <2> QED BY <2>1, <2>2, <1>1, <1>2 DEF Views
<1>6. \A x \in Bids : x \in S =>
        cache[x] # None /\ OnPath(cache[x].pos, level) \in ToWrite
  BY <1>3 DEF Intersecting, Cached
<1>7. \A x \in Bids, b \in ToWrite :
        store'[b][x] = IF x \in S /\ OnPath(cache[x].pos, level) = b /\ cache[x].ver # Dead
                       THEN cache[x] ELSE None
  BY <1>3, <1>4, <1>6 DEF Intersecting, Cached
<1>8. \A x \in Bids, b \in Buckets \ ToWrite : store'[b][x] = store[b][x]
  BY <1>3
<1>9. \A x \in Bids : cache'[x] = IF x \in S THEN None ELSE cache[x]
  BY <1>3
<1>10. TypeOK'
  <2>1. store' \in [Buckets -> [Bids -> Node \cup {None}]]
    BY <1>2, <1>3 DEF TypeOK
  <2>2. cache' \in [Bids -> Node \cup {None}]
    BY <1>2, <1>3 DEF TypeOK
  <2>3. level' \in -1 .. depth
    BY <1>1, <1>2, AvlORAMAssumption
  <2> QED BY <1>1, <1>2, <2>1, <2>2, <2>3 DEF TypeOK
<1>11. Views'
  <2>1. Pending' = Scheduled(level)' \ writeviewmap'
    <3>1. Pending = Scheduled(level) \ writeviewmap
      BY <1>1, <1>2 DEF Views
    <3>2. ASSUME NEW b, b \notin writeviewmap \cup ToWrite
          PROVE  b \in Scheduled(level)' <=> b \in Scheduled(level)
      <4>1. \A l \in leafList : b # OnPath(l, level)
        BY <3>2 DEF ToWrite
      <4>2. \A d \in 0 .. level : d = level \/ d \in 0 .. (level - 1)
        BY <1>2
      <4>3. \A d \in 0 .. (level - 1) : d \in 0 .. level
        BY <1>2
      <4> QED BY <4>1, <4>2, <4>3, <1>1 DEF Scheduled
    <3> QED BY <3>1, <3>2, <1>1, <1>5
  <2>2. phase' \notin Kinds /\ phase' # "idle"
    BY <1>1 DEF Kinds
  <2> QED BY <2>1, <2>2, <1>1, <1>2 DEF Views
<1>12. Places'
  <2> SUFFICES ASSUME NEW x \in Bids
               PROVE  (IF leaf[x] = None THEN Gone(cache, store, Stale, x)
                       ELSE IsAt(cache, store, Stale, x, Wanted(x)))'
    BY DEF Places
  <2>1. leaf'[x] = leaf[x] /\ Wanted(x)' = Wanted(x) /\ Buckets \ Stale' = (Buckets \ Stale) \cup ToWrite
    BY <1>1, <1>4, <1>5 DEF Wanted
  <2>2. CASE leaf[x] = None
    <3>1. Gone(cache, store, Stale, x)
      BY <1>2, <2>2 DEF Places
    <3>2. \A b \in Buckets \ Stale' : store'[b][x] = None
      BY <3>1, <2>1, <1>5, <1>6, <1>7, <1>8 DEF Gone
    <3> QED BY <2>1, <2>2, <3>1, <3>2, <1>9 DEF Gone
  <2>3. CASE leaf[x] # None /\ cache[x] # None
    <3> DEFINE n == Wanted(x)
    <3>1. /\ cache[x] = n /\ \A b \in Buckets \ Stale : store[b][x] = None
          /\ n.ver # Dead /\ n # None /\ n.pos \in Leaves
      BY <1>2, <2>3, WantedIsNode DEF Places, IsAt
    <3> HIDE DEF n
    <3>2. CASE x \in S
      <4>1. OnPath(n.pos, level) \in ToWrite /\ OnPath(n.pos, level) \in Path(n.pos) \ Stale'
        BY <3>1, <3>2, <1>2, <1>5, <1>6 DEF Path
      <4>2. store'[OnPath(n.pos, level)][x] = n
        BY <3>1, <3>2, <4>1, <1>7
      <4>3. \A b \in Buckets \ Stale' : store'[b][x] # None => b = OnPath(n.pos, level)
        BY <3>1, <2>1, <1>5, <1>7, <1>8
      <4>4. IsAt(cache', store', Stale', x, n)
        BY <4>1, <4>2, <4>3, <3>2, <1>9 DEF IsAt
      <4> QED BY <4>4, <2>1, <2>3 DEF n
    <3>3. CASE x \notin S
      <4>1. \A b \in Buckets \ Stale' : store'[b][x] = None
        BY <3>1, <3>3, <2>1, <1>5, <1>7, <1>8
      <4>2. IsAt(cache', store', Stale', x, n)
        BY <4>1, <3>1, <3>3, <1>9 DEF IsAt
      <4> QED BY <4>2, <2>1, <2>3 DEF n
    <3> QED BY <3>2, <3>3
  <2>4. CASE leaf[x] # None /\ cache[x] = None
    <3> DEFINE n == Wanted(x)
    <3>1. n # None /\ IsAt(cache, store, Stale, x, n)
      BY <1>2, <2>4, WantedIsNode DEF Places
    <3> HIDE DEF n
    <3>2. PICK b \in Path(n.pos) \ Stale :
            store[b][x] = n /\ \A b2 \in Buckets \ Stale : store[b2][x] # None => b2 = b
      BY <3>1, <2>4 DEF IsAt
    <3>3. x \notin S /\ cache'[x] = None
      BY <2>4, <1>6, <1>9
    <3>4. b \in Buckets
      <4>1. Wanted(x).pos \in Leaves
        BY <1>2, <2>4, WantedIsNode
      <4> QED BY <4>1, PathInBuckets DEF n
    <3>5. b \notin ToWrite /\ b \notin Stale' /\ store'[b][x] = n
      BY <3>2, <3>4, <1>5, <1>8
    <3>6. \A b2 \in Buckets \ Stale' : store'[b2][x] # None => b2 = b
      BY <3>2, <3>3, <2>1, <1>7, <1>8
    <3>7. IsAt(cache', store', Stale', x, n)
      BY <3>2, <3>3, <3>5, <3>6 DEF IsAt
    <3> QED BY <3>7, <2>1, <2>4 DEF n
  <2> QED BY <2>2, <2>3, <2>4
<1>13. (emptyNodes = MaxNodes - Used)'
  BY <1>1, <1>2 DEF Used
<1> QED BY <1>1, <1>2, <1>10, <1>11, <1>12, <1>13 DEF IInv

LEMMA FinishInv ==
  ASSUME IInv, Finish
  PROVE  IInv'
<1>1. /\ phase = "write" /\ phase' = "idle" /\ level < 0 /\ level' = depth /\ leafList' = {}
      /\ UNCHANGED <<store, cache, modified, readviewmap, writeviewmap, readCnt, emptyNodes, leaf, want, failed>>
  BY DEF Finish
<1>2. /\ TypeOK /\ Views /\ Places /\ emptyNodes = MaxNodes - Used /\ failed = "no" /\ modified = {}
  <2>1. phase \notin Kinds
    BY <1>1 DEF Kinds
  <2> QED BY <2>1, <1>1 DEF IInv, Views
<1>3. Stale = {} /\ Stale' = {}
  <2>1. 0 .. level = {}
    BY <1>1, <1>2 DEF TypeOK
  <2>2. Pending = {}
    BY <1>1, <1>2, <2>1 DEF Views, Scheduled
  <2> QED BY <1>1, <2>2 DEF Stale
<1>4. TypeOK'
  BY <1>1, <1>2, AvlORAMAssumption DEF TypeOK
<1>5. Views'
  BY <1>1, <1>2 DEF Views, Kinds
<1>6. Places'
  BY <1>1, <1>2, <1>3 DEF Places, Gone, IsAt, Wanted
<1>7. (emptyNodes = MaxNodes - Used)'
  BY <1>1, <1>2 DEF Used
<1> QED BY <1>1, <1>2, <1>4, <1>5, <1>6, <1>7 DEF IInv
-----------------------------------------------------------------------------
(***************************************************************************)
(* The theorems.                                                           *)
(***************************************************************************)
LEMMA NextInv ==
  ASSUME NewPathFetched, IInv, [Next]_vars
  PROVE  IInv'
<1>1. CASE \E kind \in Kinds : Start(kind)
  BY <1>1, StartInv
<1>2. CASE \E x \in Bids : ReadNode(x)
  BY <1>2, ReadInv
<1>3. CASE \E x \in Bids, v \in Versions : Update(x, v)
  BY <1>3, UpdateInv
<1>4. CASE \E x \in Bids, l \in Leaves : DeleteNode(x, l)
  BY <1>4, DeleteInv
<1>5. CASE \E rnd \in Leaves : PadPath(rnd)
  BY <1>5, PadInv
<1>6. CASE \E x \in Bids, l \in Leaves : ~Cached(x) /\ WriteNode(x, l)
  BY <1>6, NewInv
<1>7. CASE Finilize \/ WriteLevel \/ Finish
  BY <1>7, FinilizeInv, LevelInv, FinishInv
<1>8. CASE UNCHANGED vars
  <2>1. Stale' = Stale /\ Scheduled(level)' = Scheduled(level) /\ Pending' = Pending
    BY <1>8 DEF vars, Stale, Pending, Scheduled
  <2>2. TypeOK' = TypeOK /\ Used' = Used
    BY <1>8 DEF vars, TypeOK, Used
  <2>3. Places' = Places
    BY <1>8, <2>1 DEF vars, Places, Gone, IsAt, Wanted
  <2>4. Views' = Views
    BY <1>8, <2>1 DEF vars, Views, Cached
  <2>5. OneCopy' = OneCopy
    BY <1>8, <2>1 DEF vars, OneCopy, Holders, Cached
  <2> QED BY <1>8, <2>2, <2>3, <2>4, <2>5 DEF vars, IInv
<1> QED BY <1>1, <1>2, <1>3, <1>4, <1>5, <1>6, <1>7, <1>8 DEF Next

LEMMA Inductive ==
  ASSUME NewPathFetched
  PROVE  Spec => []IInv
<1>1. Init => IInv
  BY InitInv
<1>2. IInv /\ [Next]_vars => IInv'
  BY NextInv
<1> QED BY <1>1, <1>2, PTL DEF Spec

\* However nodes are inserted, read, changed and deleted: a node is in one
\* up-to-date place, in the cache or in one bucket (FetchPath, WritePath).
THEOREM NoDuplicates ==
  ASSUME NewPathFetched
  PROVE  Spec => []OneCopy
<1>1. ASSUME IInv PROVE OneCopy
  <2>1. CASE failed = "no"
    <3> SUFFICES ASSUME NEW x \in Bids
                 PROVE  Cardinality(Holders(x)) + (IF Cached(x) THEN 1 ELSE 0) <= 1
      BY DEF OneCopy
    <3>1. TypeOK /\ Places
      BY <1>1, <2>1 DEF IInv
    <3>2. \E n : n # None /\ (IsAt(cache, store, Stale, x, n) \/ Gone(cache, store, Stale, x))
      <4>1. CASE leaf[x] = None
        <5>1. Gone(cache, store, Stale, x)
          BY <3>1, <4>1 DEF Places
        <5>2. \E n : n # None
          BY AvlORAMAssumption
        <5> QED BY <5>1, <5>2
      <4>2. CASE leaf[x] # None
        BY <3>1, <4>2, WantedIsNode DEF Places
      <4> QED BY <4>1, <4>2
    <3>3. PICK n : n # None /\ (IsAt(cache, store, Stale, x, n) \/ Gone(cache, store, Stale, x))
      BY <3>2
    <3>4. /\ Cardinality(HoldersIn(store, Stale, x)) \in {0, 1}
          /\ cache[x] # None => Cardinality(HoldersIn(store, Stale, x)) = 0
      BY ONLY <3>3, x \in Bids, PlaceIsOne
    <3>5. Holders(x) = HoldersIn(store, Stale, x)
      BY DEF Holders, HoldersIn, Stale
    <3> QED BY <3>4, <3>5 DEF Cached
  <2> QED BY <1>1, <2>1 DEF IInv
<1>2. IInv => OneCopy
  BY <1>1
<1> QED BY <1>2, Inductive, PTL

\* And what the caller wrote last is there, on the leaf the caller records,
\* and what it deleted is not (ReadNode, WriteNode, DeleteNode, finilize).
THEOREM ContentIsKept ==
  ASSUME NewPathFetched
  PROVE  Spec => []ContentKept
<1>1. ASSUME IInv PROVE ContentKept
  <2> SUFFICES ASSUME failed = "no", NEW x \in Bids
               PROVE  IF leaf[x] = None THEN Current(x) = None \/ Current(x).ver = Dead
                      ELSE Current(x) = [pos |-> leaf[x], ver |-> want[x]]
    BY DEF ContentKept
  <2>1. TypeOK /\ Places /\ Holders(x) = {b \in Buckets \ Stale : store[b][x] # None}
    BY <1>1 DEF IInv, Holders, Stale
  <2>2. CASE leaf[x] = None
    BY <2>1, <2>2 DEF Places, Gone, Current, Cached
  <2>3. CASE leaf[x] # None
    <3>1. Wanted(x) # None /\ Wanted(x).pos \in Leaves /\ IsAt(cache, store, Stale, x, Wanted(x))
      BY <2>1, <2>3, WantedIsNode DEF Places
    <3>2. CASE cache[x] # None
      BY <2>3, <3>1, <3>2 DEF IsAt, Current, Cached, Wanted
    <3>3. CASE cache[x] = None
      <4>1. PICK b \in Path(Wanted(x).pos) \ Stale :
              /\ store[b][x] = Wanted(x)
              /\ \A b2 \in Buckets \ Stale : store[b2][x] # None => b2 = b
        BY <3>1, <3>3 DEF IsAt
      <4>2. Holders(x) = {b}
        BY <2>1, <3>1, <4>1, PathInBuckets
      <4>3. Current(x) = Wanted(x)
        BY <3>3, <4>1, <4>2 DEF Current, Cached
      <4> QED BY <2>3, <4>3 DEF Wanted
    <3> QED BY <3>2, <3>3
  <2> QED BY <2>2, <2>3
<1>2. IInv => ContentKept
  BY <1>1
<1> QED BY <1>2, Inductive, PTL

\* And no read misses its node, and no insertion is refused while there is
\* space (ReadNode, WriteData, DeleteData).
THEOREM NothingElseFails ==
  ASSUME NewPathFetched
  PROVE  Spec => []FailsOnlyWhenFull
<1>1. IInv => FailsOnlyWhenFull
  BY DEF IInv, FailsOnlyWhenFull
<1> QED BY <1>1, Inductive, PTL
-----------------------------------------------------------------------------
(***************************************************************************)
(* One step of the AVL tree's methods.  Leaves are the ORAM's; the other   *)
(* parameters are those of AVLSteps.                                       *)
(***************************************************************************)
CONSTANTS Keys, Values, HeightBound, T2From
VARIABLE nodes

A == INSTANCE AVLSteps

(***************************************************************************)
(* The memory of an operation, and what reading does to it.                *)
(***************************************************************************)
IsMem(m) ==
  /\ m = [n |-> m.n, modified |-> m.modified, lost |-> m.lost]
  /\ DOMAIN m.n \subseteq Keys /\ m.n \in [DOMAIN m.n -> A!Node]

\* r has what m has, and a node m has not read is still on its leaf.
Keeps(m, r) ==
  /\ DOMAIN r.n = DOMAIN m.n /\ r.lost = m.lost /\ m.modified \subseteq r.modified
  /\ \A j : j \notin r.modified => A!Pos(r, j) = A!Pos(m, j)

\* Node j has the children and the height it had.
Same(m, r, j) ==
  /\ \A d \in A!Sides : A!Kid(r, j, d) = A!Kid(m, j, d) /\ A!KidPos(r, j, d) = A!KidPos(m, j, d)
  /\ A!Height(r, j) = A!Height(m, j)

\* Nothing but the nodes in X is touched.
Touches(m, r, X) ==
  \A j : j \notin X => (j \in DOMAIN m.n => r.n[j] = m.n[j]) /\ (j \in r.modified <=> j \in m.modified)

\* ReadNode() finds the child of k on side d.
LinkOK(m, k, d) ==
  LET c == A!Kid(m, k, d)
  IN  c = A!Null \/ (/\ c \in DOMAIN m.n /\ A!KidPos(m, k, d) \in Leaves
                     /\ c \in m.modified \/ A!KidPos(m, k, d) = A!Pos(m, c))

MaxOf(a, b) == IF a >= b THEN a ELSE b

LEMMA NodeFields ==
  ASSUME NEW m, IsMem(m), A!StepsAssumption
  PROVE  /\ A!Null \notin DOMAIN m.n
         /\ \A k : A!Height(m, k) \in Nat
         /\ \A k \in DOMAIN m.n : k \in Keys /\ A!Pos(m, k) \in Leaves
         /\ \A k, d : d \in A!Sides => /\ A!Kid(m, k, d) \in Keys \cup {A!Null}
                                       /\ A!KidPos(m, k, d) \in Leaves \cup {A!NoPos}
BY DEF IsMem, A!Node, A!Height, A!Kid, A!KidPos, A!Pos, A!StepsAssumption, A!Sides

LEMMA LinkKept ==
  ASSUME NEW m, NEW r, NEW k, NEW d, Keeps(m, r), LinkOK(m, k, d),
         A!Kid(r, k, d) = A!Kid(m, k, d), A!KidPos(r, k, d) = A!KidPos(m, k, d)
  PROVE  LinkOK(r, k, d)
BY DEF LinkOK, Keeps

LEMMA KeepsTwice ==
  ASSUME NEW m, NEW r, NEW q, Keeps(m, r), Keeps(r, q)
  PROVE  Keeps(m, q)
<1>1. ASSUME NEW j, j \notin q.modified PROVE A!Pos(q, j) = A!Pos(m, j)
  BY <1>1 DEF Keeps
<1> QED BY <1>1 DEF Keeps

LEMMA ReadNodeIs ==
  ASSUME NEW m, IsMem(m), A!StepsAssumption, NEW c \in DOMAIN m.n, NEW at \in Leaves,
         c \in m.modified \/ A!Pos(m, c) = at, NEW r, r = A!ReadNode(m, c, at)
  PROVE  /\ IsMem(r) /\ Keeps(m, r) /\ \A j : Same(m, r, j)
         /\ r.modified = m.modified \cup {c} /\ Touches(m, r, {c})
<1>1. /\ r = [m EXCEPT !.n[c].pos = at, !.modified = @ \cup {c}]
  <2>1. c # A!Null
    BY NodeFields
  <2>2. A!Pos(m, c) = m.n[c].pos
    BY DEF A!Pos
  <2> QED BY <2>1, <2>2 DEF A!ReadNode
<1>2. r.n = [m.n EXCEPT ![c].pos = at] /\ r.modified = m.modified \cup {c} /\ r.lost = m.lost
      /\ r = [n |-> r.n, modified |-> r.modified, lost |-> r.lost]
  BY <1>1 DEF IsMem
<1>3. /\ DOMAIN r.n = DOMAIN m.n /\ r.n[c] = [m.n[c] EXCEPT !.pos = at] /\ \A j \in DOMAIN m.n : j # c => r.n[j] = m.n[j]
  BY <1>2 DEF IsMem
<1>4. m.n[c] \in A!Node /\ r.n[c] \in A!Node /\ r.n[c].pos = at /\ r.n[c].kid = m.n[c].kid
      /\ r.n[c].kpos = m.n[c].kpos /\ r.n[c].height = m.n[c].height
  <2>1. m.n[c] \in A!Node
    BY DEF IsMem
  <2> QED BY <1>3, <2>1 DEF A!Node
<1>5. IsMem(r)
  <2>1. r.n \in [DOMAIN r.n -> A!Node]
    <3>1. \A j \in DOMAIN r.n : r.n[j] \in A!Node
      BY <1>3, <1>4 DEF IsMem
    <3>2. r.n = [j \in DOMAIN r.n |-> r.n[j]]
      BY <1>2 DEF IsMem
    <3> QED BY <3>1, <3>2
  <2> QED BY <1>2, <1>3, <2>1 DEF IsMem
<1>6. ASSUME NEW j PROVE Same(m, r, j)
  BY <1>3, <1>4 DEF Same, A!Kid, A!KidPos, A!Height
<1>7. ASSUME NEW j, j \notin r.modified PROVE A!Pos(r, j) = A!Pos(m, j)
  BY <1>2, <1>3, <1>4, <1>7 DEF A!Pos
<1>8. Touches(m, r, {c})
  BY <1>2, <1>3 DEF Touches
<1> QED BY <1>2, <1>3, <1>5, <1>6, <1>7, <1>8 DEF Keeps

\* r is m with c, on leaf, as the child of k on side d.
KidIsSet(m, r, k, d, c, at) ==
  /\ IsMem(r) /\ Keeps(m, r) /\ r.modified = m.modified /\ \A j : A!Pos(r, j) = A!Pos(m, j)
  /\ \A j : j # k => Same(m, r, j)
  /\ \A j : A!Height(r, j) = A!Height(m, j)
  /\ A!Kid(r, k, d) = c /\ A!KidPos(r, k, d) = at
  /\ \A e \in A!Sides : e # d => A!Kid(r, k, e) = A!Kid(m, k, e) /\ A!KidPos(r, k, e) = A!KidPos(m, k, e)
  /\ Touches(m, r, {k})

LEMMA SetKidIs ==
  ASSUME NEW m, IsMem(m), NEW k \in DOMAIN m.n, NEW d \in A!Sides, NEW c \in Keys \cup {A!Null},
         NEW at \in Leaves \cup {A!NoPos}, NEW r, r = A!SetKid(m, k, d, c, at)
  PROVE  KidIsSet(m, r, k, d, c, at)
<1>1. r.n = [m.n EXCEPT ![k].kid[d] = c, ![k].kpos[d] = at] /\ r.modified = m.modified /\ r.lost = m.lost
      /\ r = [n |-> r.n, modified |-> r.modified, lost |-> r.lost]
  BY DEF IsMem, A!SetKid
<1>2. /\ DOMAIN r.n = DOMAIN m.n /\ r.n[k] = [m.n[k] EXCEPT !.kid[d] = c, !.kpos[d] = at]
      /\ \A j \in DOMAIN m.n : j # k => r.n[j] = m.n[j]
  BY <1>1 DEF IsMem
<1>3. m.n[k] \in A!Node
  BY DEF IsMem
<1>4. /\ r.n[k].kid = [m.n[k].kid EXCEPT ![d] = c] /\ r.n[k].kpos = [m.n[k].kpos EXCEPT ![d] = at]
      /\ r.n[k].pos = m.n[k].pos /\ r.n[k].height = m.n[k].height /\ r.n[k] \in A!Node
  <2> DEFINE x == m.n[k]  y == r.n[k]  kid2 == [x.kid EXCEPT ![d] = c]  kpos2 == [x.kpos EXCEPT ![d] = at]
  <2>1. x = [val |-> x.val, kid |-> x.kid, kpos |-> x.kpos, height |-> x.height, pos |-> x.pos]
        /\ x.kid \in [A!Sides -> Keys \cup {A!Null}] /\ x.kpos \in [A!Sides -> Leaves \cup {A!NoPos}]
        /\ x.val \in Values /\ x.height \in Nat /\ x.pos \in Leaves
    BY <1>3 DEF A!Node
  <2>2. kid2 \in [A!Sides -> Keys \cup {A!Null}] /\ kpos2 \in [A!Sides -> Leaves \cup {A!NoPos}]
    BY <2>1
  <2>3. y = [x EXCEPT !.kid = kid2, !.kpos = kpos2]
    BY <1>2, <2>1
  <2> HIDE DEF kid2, kpos2, y
  <2>4. y = [val |-> x.val, kid |-> kid2, kpos |-> kpos2, height |-> x.height, pos |-> x.pos]
    BY <2>1, <2>3
  <2>5. y \in A!Node
    BY <2>1, <2>2, <2>4 DEF A!Node
  <2> QED BY <2>4, <2>5 DEF y, kid2, kpos2
<1>5. /\ r.n[k].kid[d] = c /\ r.n[k].kpos[d] = at
      /\ \A e \in A!Sides : e # d => r.n[k].kid[e] = m.n[k].kid[e] /\ r.n[k].kpos[e] = m.n[k].kpos[e]
  BY <1>3, <1>4 DEF A!Node
<1>6. IsMem(r)
  <2>1. r.n \in [DOMAIN r.n -> A!Node]
    <3>1. \A j \in DOMAIN r.n : r.n[j] \in A!Node
      BY <1>2, <1>4 DEF IsMem
    <3>2. r.n = [j \in DOMAIN r.n |-> r.n[j]]
      BY <1>1 DEF IsMem
    <3> QED BY <3>1, <3>2
  <2> QED BY <1>1, <1>2, <2>1 DEF IsMem
<1>7. ASSUME NEW j PROVE A!Pos(r, j) = A!Pos(m, j) /\ A!Height(r, j) = A!Height(m, j)
  BY <1>2, <1>4 DEF A!Pos, A!Height
<1>8. ASSUME NEW j, j # k PROVE Same(m, r, j)
  BY <1>2, <1>8 DEF Same, A!Kid, A!KidPos, A!Height
<1>9. Touches(m, r, {k})
  BY <1>1, <1>2 DEF Touches
<1>10. /\ A!Kid(r, k, d) = c /\ A!KidPos(r, k, d) = at
       /\ \A e \in A!Sides : e # d => A!Kid(r, k, e) = A!Kid(m, k, e) /\ A!KidPos(r, k, e) = A!KidPos(m, k, e)
  BY <1>2, <1>5 DEF A!Kid, A!KidPos
<1> QED BY <1>1, <1>2, <1>6, <1>7, <1>8, <1>9, <1>10 DEF Keeps, KidIsSet

\* Reading a child that is where its parent says.
LEMMA ReadKidIs ==
  ASSUME NEW m, IsMem(m), A!StepsAssumption, NEW k, NEW d \in A!Sides, LinkOK(m, k, d),
         NEW r, r = A!ReadKid(m, k, d)
  PROVE  /\ IsMem(r) /\ Keeps(m, r) /\ \A j : Same(m, r, j)
         /\ A!Kid(m, k, d) # A!Null => A!Kid(m, k, d) \in r.modified /\ A!Kid(m, k, d) \in DOMAIN r.n
         /\ Touches(m, r, {A!Kid(m, k, d)} \ {A!Null})
<1> DEFINE c == A!Kid(m, k, d)
<1>1. CASE c = A!Null
  <2>1. r = m
    BY <1>1 DEF A!ReadKid, A!ReadNode
  <2> QED BY <1>1, <2>1 DEF Keeps, Same, Touches
<1>2. CASE c # A!Null
  <2>1. /\ c \in DOMAIN m.n /\ A!KidPos(m, k, d) \in Leaves
        /\ c \in m.modified \/ A!Pos(m, c) = A!KidPos(m, k, d)
    BY <1>2 DEF LinkOK
  <2>2. r = A!ReadNode(m, c, A!KidPos(m, k, d))
    BY DEF A!ReadKid
  <2> HIDE DEF c
  <2>3. /\ IsMem(r) /\ Keeps(m, r) /\ \A j : Same(m, r, j)
        /\ r.modified = m.modified \cup {c} /\ Touches(m, r, {c})
    BY <2>1, <2>2, ReadNodeIs
  <2> QED BY <1>2, <2>1, <2>3 DEF c, Keeps
<1> QED BY <1>1, <1>2

LEMMA SameTwice ==
  ASSUME NEW m, NEW r, NEW q, NEW j, Same(m, r, j), Same(r, q, j)
  PROVE  Same(m, q, j)
BY DEF Same

LEMMA TouchesTwice ==
  ASSUME NEW m, NEW r, NEW q, NEW X, NEW Y, NEW W, Touches(m, r, X), Touches(r, q, Y), X \cup Y \subseteq W,
         DOMAIN r.n = DOMAIN m.n
  PROVE  Touches(m, q, W)
BY DEF Touches

LEMMA TouchesMore ==
  ASSUME NEW m, NEW r, NEW X, NEW Y, Touches(m, r, X), X \subseteq Y
  PROVE  Touches(m, r, Y)
BY DEF Touches

KidsOf(m, k) == {A!Kid(m, k, d) : d \in A!Sides} \ {A!Null}

LEMMA ReadKidsIs ==
  ASSUME NEW m, IsMem(m), A!StepsAssumption, NEW k, \A d \in A!Sides : LinkOK(m, k, d),
         NEW r, r = A!ReadKids(m, k)
  PROVE  /\ IsMem(r) /\ Keeps(m, r) /\ \A j : Same(m, r, j)
         /\ \A d \in A!Sides : LinkOK(r, k, d)
         /\ \A c \in KidsOf(m, k) : c \in r.modified /\ c \in DOMAIN r.n
         /\ Touches(m, r, KidsOf(m, k))
<1> DEFINE q == A!ReadKid(m, k, "left")
<1>0. A!Sides = {"left", "right"}
  BY DEF A!Sides
<1>1. /\ IsMem(q) /\ Keeps(m, q) /\ \A j : Same(m, q, j)
      /\ A!Kid(m, k, "left") # A!Null => A!Kid(m, k, "left") \in q.modified /\ A!Kid(m, k, "left") \in DOMAIN q.n
      /\ Touches(m, q, {A!Kid(m, k, "left")} \ {A!Null})
  BY <1>0, ReadKidIs
<1>2. r = A!ReadKid(q, k, "right")
  BY DEF A!ReadKids
<1> HIDE DEF q
<1>3. \A d \in A!Sides : A!Kid(q, k, d) = A!Kid(m, k, d) /\ A!KidPos(q, k, d) = A!KidPos(m, k, d)
  BY <1>1 DEF Same
<1>4. LinkOK(q, k, "right")
  BY <1>0, <1>1, <1>3, LinkKept
<1>5. /\ IsMem(r) /\ Keeps(q, r) /\ \A j : Same(q, r, j)
      /\ A!Kid(q, k, "right") # A!Null => A!Kid(q, k, "right") \in r.modified /\ A!Kid(q, k, "right") \in DOMAIN r.n
      /\ Touches(q, r, {A!Kid(q, k, "right")} \ {A!Null})
  BY <1>0, <1>1, <1>2, <1>4, ReadKidIs
<1>6. Keeps(m, r) /\ \A j : Same(m, r, j)
  BY <1>1, <1>5, KeepsTwice, SameTwice
<1>7. \A d \in A!Sides : LinkOK(r, k, d)
  BY <1>6, LinkKept DEF Same
<1>8. \A c \in KidsOf(m, k) : c \in r.modified /\ c \in DOMAIN r.n
  BY <1>0, <1>1, <1>3, <1>5 DEF KidsOf, Keeps
<1>9. Touches(m, r, KidsOf(m, k))
  <2>1. DOMAIN q.n = DOMAIN m.n
    BY <1>1 DEF Keeps
  <2>2. ({A!Kid(m, k, "left")} \ {A!Null}) \cup ({A!Kid(q, k, "right")} \ {A!Null}) \subseteq KidsOf(m, k)
    BY <1>0, <1>3 DEF KidsOf
  <2> QED BY <1>1, <1>5, <2>1, <2>2, TouchesTwice
<1> QED BY <1>5, <1>6, <1>7, <1>8, <1>9

\* The height a node should have.
RightHeight(m, k) == MaxOf(A!Height(m, A!Kid(m, k, "left")), A!Height(m, A!Kid(m, k, "right"))) + 1

\* r is m after the height of k has been set from its children.
HeightUpdated(m, r, k) ==
  /\ IsMem(r) /\ Keeps(m, r) /\ \A j : j # k => Same(m, r, j)
  /\ \A d \in A!Sides : A!Kid(r, k, d) = A!Kid(m, k, d) /\ A!KidPos(r, k, d) = A!KidPos(m, k, d)
                        /\ LinkOK(r, k, d)
  /\ A!Height(r, k) = RightHeight(m, k)
  /\ \A c \in KidsOf(m, k) : c \in r.modified
  /\ Touches(m, r, {k} \cup KidsOf(m, k))

LEMMA UpdateHeightIs ==
  ASSUME NEW m, IsMem(m), A!StepsAssumption, NEW k \in DOMAIN m.n, \A d \in A!Sides : LinkOK(m, k, d),
         NEW r, r = A!UpdateHeight(m, k)
  PROVE  HeightUpdated(m, r, k)
<1> DEFINE q == A!ReadKids(m, k)  h == A!Max({A!Height(q, A!Kid(q, k, d)) : d \in A!Sides}) + 1
<1>0. A!Sides = {"left", "right"}
  BY DEF A!Sides
<1>1. /\ IsMem(q) /\ Keeps(m, q) /\ \A j : Same(m, q, j) /\ \A d \in A!Sides : LinkOK(q, k, d)
      /\ \A c \in KidsOf(m, k) : c \in q.modified /\ c \in DOMAIN q.n
      /\ Touches(m, q, KidsOf(m, k))
  BY ReadKidsIs
<1>2. r = [q EXCEPT !.n[k].height = h]
  BY Zenon DEF A!UpdateHeight
<1> HIDE DEF q
<1>3. h = RightHeight(m, k) /\ h \in Nat
  <2> DEFINE a == A!Height(m, A!Kid(m, k, "left"))  b == A!Height(m, A!Kid(m, k, "right"))
  <2>1. \A d \in A!Sides : A!Height(q, A!Kid(q, k, d)) = A!Height(m, A!Kid(m, k, d))
    BY <1>1 DEF Same
  <2>2. {A!Height(q, A!Kid(q, k, d)) : d \in A!Sides} = {a, b}
    BY <1>0, <2>1
  <2>3. a \in Nat /\ b \in Nat
    BY NodeFields
  <2> HIDE DEF a, b
  <2>4. A!Max({a, b}) = MaxOf(a, b)
    <3>1. \E x \in {a, b} : \A y \in {a, b} : x >= y
      BY <2>3
    <3>2. A!Max({a, b}) \in {a, b} /\ \A y \in {a, b} : A!Max({a, b}) >= y
      BY <3>1 DEF A!Max
    <3> QED BY <2>3, <3>2 DEF MaxOf
  <2>5. MaxOf(a, b) \in Nat
    BY <2>3 DEF MaxOf
  <2> QED BY <2>2, <2>4, <2>5 DEF RightHeight, a, b
<1> HIDE DEF h
<1>4. DOMAIN q.n = DOMAIN m.n /\ q.lost = m.lost
  BY <1>1 DEF Keeps
<1>5. /\ r.n = [q.n EXCEPT ![k].height = h] /\ r.modified = q.modified /\ r.lost = q.lost
      /\ r = [n |-> r.n, modified |-> r.modified, lost |-> r.lost]
  BY <1>1, <1>2 DEF IsMem
<1>6. /\ DOMAIN r.n = DOMAIN m.n /\ r.n[k] = [q.n[k] EXCEPT !.height = h]
      /\ \A j \in DOMAIN m.n : j # k => r.n[j] = q.n[j]
  BY <1>1, <1>4, <1>5 DEF IsMem
<1>7. q.n[k] \in A!Node /\ r.n[k] \in A!Node /\ r.n[k].pos = q.n[k].pos /\ r.n[k].kid = q.n[k].kid
      /\ r.n[k].kpos = q.n[k].kpos /\ r.n[k].height = h
  <2>1. q.n[k] \in A!Node
    BY <1>1, <1>4 DEF IsMem
  <2> QED BY <1>3, <1>6, <2>1 DEF A!Node
<1>8. IsMem(r)
  <2>1. r.n \in [DOMAIN r.n -> A!Node]
    <3>1. \A j \in DOMAIN r.n : r.n[j] \in A!Node
      BY <1>1, <1>4, <1>6, <1>7 DEF IsMem
    <3>2. r.n = [j \in DOMAIN r.n |-> r.n[j]]
      BY <1>1, <1>5 DEF IsMem
    <3> QED BY <3>1, <3>2
  <2> QED BY <1>1, <1>4, <1>5, <1>6, <2>1 DEF IsMem
<1>9. ASSUME NEW j PROVE A!Pos(r, j) = A!Pos(q, j)
  BY <1>4, <1>6, <1>7 DEF A!Pos
<1>10. Keeps(q, r)
  BY <1>4, <1>5, <1>6, <1>9 DEF Keeps
<1>11. Keeps(m, r)
  BY <1>1, <1>10, KeepsTwice
<1>12. ASSUME NEW j, j # k PROVE Same(m, r, j)
  <2>1. Same(q, r, j)
    BY <1>4, <1>6, <1>12 DEF Same, A!Kid, A!KidPos, A!Height
  <2> QED BY <1>1, <2>1, SameTwice
<1>13. \A d \in A!Sides : A!Kid(r, k, d) = A!Kid(m, k, d) /\ A!KidPos(r, k, d) = A!KidPos(m, k, d)
  <2>1. \A d \in A!Sides : A!Kid(q, k, d) = A!Kid(m, k, d) /\ A!KidPos(q, k, d) = A!KidPos(m, k, d)
    BY <1>1 DEF Same
  <2>2. \A d \in A!Sides : A!Kid(r, k, d) = A!Kid(q, k, d) /\ A!KidPos(r, k, d) = A!KidPos(q, k, d)
    BY <1>4, <1>6, <1>7 DEF A!Kid, A!KidPos
  <2> QED BY <2>1, <2>2
<1>14. A!Height(r, k) = h
  BY <1>6, <1>7 DEF A!Height
<1>15. Touches(m, r, {k} \cup KidsOf(m, k))
  <2>1. Touches(q, r, {k})
    BY <1>4, <1>5, <1>6 DEF Touches
  <2> QED BY <1>1, <1>4, <2>1, TouchesTwice
<1>16. \A d \in A!Sides : LinkOK(r, k, d)
  BY <1>11, <1>13, LinkKept
<1>17. \A c \in KidsOf(m, k) : c \in r.modified
  BY <1>1, <1>5
<1> QED BY <1>3, <1>8, <1>11, <1>12, <1>13, <1>14, <1>15, <1>16, <1>17 DEF HeightUpdated

(***************************************************************************)
(* A rotation, node by node.                                               *)
(***************************************************************************)
LEMMA OtherSide ==
  /\ \A d \in A!Sides : A!Other(d) \in A!Sides /\ A!Other(d) # d /\ A!Other(A!Other(d)) = d
                        /\ A!Sides = {d, A!Other(d)}
  /\ \A d \in A!Sides, e \in A!Sides : e = d \/ e = A!Other(d)
BY DEF A!Sides, A!Other

LEMMA RightHeightSides ==
  ASSUME NEW m, IsMem(m), A!StepsAssumption, NEW k, NEW d \in A!Sides
  PROVE  RightHeight(m, k) = MaxOf(A!Height(m, A!Kid(m, k, d)), A!Height(m, A!Kid(m, k, A!Other(d)))) + 1
<1>1. \A j : A!Height(m, j) \in Nat
  BY NodeFields
<1>2. CASE d = "left"
  BY <1>2 DEF RightHeight, A!Other
<1>3. CASE d = "right"
  BY <1>1, <1>3 DEF RightHeight, A!Other, MaxOf
<1> QED BY <1>2, <1>3 DEF A!Sides

\* q is m after the child x of y, on side d, has taken y's place.
Turned(m, q, y, x, d) ==
  /\ IsMem(q) /\ Keeps(m, q)
  /\ \A j : j \notin {x, y} => Same(m, q, j)
  /\ A!Kid(q, x, d) = A!Kid(m, x, d) /\ A!Kid(q, x, A!Other(d)) = y
  /\ A!Kid(q, y, d) = A!Kid(m, x, A!Other(d)) /\ A!Kid(q, y, A!Other(d)) = A!Kid(m, y, A!Other(d))
  /\ \A e \in A!Sides : LinkOK(q, x, e) /\ LinkOK(q, y, e)
  /\ A!Height(q, y) = RightHeight(q, y) /\ A!Height(q, x) = RightHeight(q, x)
  /\ y \in q.modified
  /\ Touches(m, q, {x, y} \cup KidsOf(m, x) \cup KidsOf(m, y))

LEMMA TurnIs ==
  ASSUME NEW m, IsMem(m), A!StepsAssumption, NEW y \in DOMAIN m.n, NEW x \in DOMAIN m.n, x # y,
         NEW d \in A!Sides, A!Kid(m, x, A!Other(d)) = A!Null \/ A!Kid(m, x, A!Other(d)) \in DOMAIN m.n,
         A!Kid(m, x, d) \notin {x, y}, A!Kid(m, x, A!Other(d)) \notin {x, y}, A!Kid(m, y, A!Other(d)) \notin {x, y},
         LinkOK(m, x, d), LinkOK(m, y, A!Other(d)),
         NEW q, q = A!Turn(m, y, x, d)
  PROVE  Turned(m, q, y, x, d)
<1> DEFINE o == A!Other(d)
<1>0. o \in A!Sides /\ o # d /\ A!Other(o) = d /\ A!Sides = {d, o}
  BY OtherSide
<1> HIDE DEF o
<1>a. PICK a, b, c : /\ a = A!Kid(m, x, d) /\ b = A!Kid(m, x, o) /\ c = A!Kid(m, y, o) /\ LinkOK(m, y, o)
                     /\ a \notin {x, y} /\ b \notin {x, y} /\ c \notin {x, y}
                     /\ b = A!Null \/ b \in DOMAIN m.n
  BY DEF o
<1>b. /\ x \in Keys /\ y \in Keys /\ x # A!Null /\ y # A!Null
      /\ A!Pos(m, x) \in Leaves /\ A!Pos(m, y) \in Leaves
      /\ b \in Keys \cup {A!Null} /\ A!Pos(m, b) \in Leaves \cup {A!NoPos}
      /\ b # A!Null => A!Pos(m, b) \in Leaves
  <2>1. b = A!Null => A!Pos(m, b) = A!NoPos
    BY NodeFields DEF A!Pos
  <2> QED BY <1>0, <1>a, <2>1, NodeFields
<1>c. PICK m3 : m3 = A!SetKid(m, x, o, y, A!Pos(m, y))
  OBVIOUS
<1>d. PICK m4 : m4 = A!SetKid(m3, y, d, b, A!Pos(m, b))
  OBVIOUS
<1>e. PICK m5 : m5 = A!UpdateHeight(m4, y)
  OBVIOUS
<1>1. q = A!UpdateHeight(m5, x)
  BY <1>a, <1>c, <1>d, <1>e DEF A!Turn, o
<1>2. /\ IsMem(m3) /\ Keeps(m, m3) /\ m3.modified = m.modified /\ \A j : A!Pos(m3, j) = A!Pos(m, j)
      /\ \A j : j # x => Same(m, m3, j)
      /\ \A j : A!Height(m3, j) = A!Height(m, j)
      /\ A!Kid(m3, x, o) = y /\ A!KidPos(m3, x, o) = A!Pos(m, y)
      /\ A!Kid(m3, x, d) = a /\ A!KidPos(m3, x, d) = A!KidPos(m, x, d)
      /\ Touches(m, m3, {x})
  <2>1. y \in Keys \cup {A!Null} /\ A!Pos(m, y) \in Leaves \cup {A!NoPos}
    BY <1>b
  <2>2. KidIsSet(m, m3, x, o, y, A!Pos(m, y))
    BY <1>0, <1>c, <2>1, SetKidIs
  <2> QED BY <1>0, <1>a, <2>2 DEF KidIsSet
<1>3. DOMAIN m3.n = DOMAIN m.n
  BY <1>2 DEF Keeps
<1>4. /\ IsMem(m4) /\ Keeps(m3, m4) /\ m4.modified = m3.modified /\ \A j : A!Pos(m4, j) = A!Pos(m3, j)
      /\ \A j : j # y => Same(m3, m4, j)
      /\ \A j : A!Height(m4, j) = A!Height(m3, j)
      /\ A!Kid(m4, y, d) = b /\ A!KidPos(m4, y, d) = A!Pos(m, b)
      /\ A!Kid(m4, y, o) = A!Kid(m3, y, o) /\ A!KidPos(m4, y, o) = A!KidPos(m3, y, o)
      /\ Touches(m3, m4, {y})
  <2>1. y \in DOMAIN m3.n /\ b \in Keys \cup {A!Null} /\ A!Pos(m, b) \in Leaves \cup {A!NoPos}
    BY <1>3, <1>b
  <2>2. KidIsSet(m3, m4, y, d, b, A!Pos(m, b))
    BY <1>2, <1>d, <2>1, SetKidIs
  <2> QED BY <1>0, <2>2 DEF KidIsSet
<1>5. Keeps(m, m4) /\ DOMAIN m4.n = DOMAIN m.n
  BY <1>2, <1>3, <1>4, KeepsTwice DEF Keeps
<1>6. /\ A!Kid(m4, y, o) = c /\ A!KidPos(m4, y, o) = A!KidPos(m, y, o)
      /\ A!Kid(m4, x, o) = y /\ A!KidPos(m4, x, o) = A!Pos(m, y)
      /\ A!Kid(m4, x, d) = a /\ A!KidPos(m4, x, d) = A!KidPos(m, x, d)
  BY <1>0, <1>2, <1>4, <1>a DEF Same
<1>7. \A e \in A!Sides : LinkOK(m4, y, e)
  <2>1. LinkOK(m4, y, o)
    BY <1>5, <1>6, <1>a, LinkKept
  <2>2. LinkOK(m4, y, d)
    <3>1. A!Pos(m4, b) = A!Pos(m, b)
      BY <1>2, <1>4
    <3> QED BY <1>4, <1>5, <1>a, <1>b, <3>1 DEF LinkOK
  <2> QED BY <1>0, <2>1, <2>2
<1>8. /\ IsMem(m5) /\ Keeps(m4, m5) /\ \A j : j # y => Same(m4, m5, j)
      /\ \A e \in A!Sides : A!Kid(m5, y, e) = A!Kid(m4, y, e) /\ A!KidPos(m5, y, e) = A!KidPos(m4, y, e)
                            /\ LinkOK(m5, y, e)
      /\ A!Height(m5, y) = RightHeight(m4, y)
      /\ Touches(m4, m5, {y} \cup KidsOf(m4, y))
  <2>1. HeightUpdated(m4, m5, y)
    BY <1>4, <1>5, <1>7, <1>e, UpdateHeightIs
  <2> QED BY <2>1 DEF HeightUpdated
<1>9. Keeps(m, m5) /\ DOMAIN m5.n = DOMAIN m.n
  BY <1>5, <1>8, KeepsTwice DEF Keeps
<1>10. /\ A!Kid(m5, x, o) = y /\ A!KidPos(m5, x, o) = A!Pos(m, y)
       /\ A!Kid(m5, x, d) = a /\ A!KidPos(m5, x, d) = A!KidPos(m, x, d)
       /\ A!Kid(m5, y, d) = b /\ A!Kid(m5, y, o) = c
  BY <1>0, <1>4, <1>6, <1>8 DEF Same
<1>11. \A e \in A!Sides : LinkOK(m5, x, e)
  <2>1. LinkOK(m5, x, d)
    BY <1>9, <1>10, <1>a, LinkKept
  <2>2. LinkOK(m5, x, o)
    <3>1. y \in m5.modified \/ A!Pos(m5, y) = A!Pos(m, y)
      BY <1>9 DEF Keeps
    <3> QED BY <1>9, <1>10, <1>b, <3>1 DEF LinkOK
  <2> QED BY <1>0, <2>1, <2>2
<1>12. /\ IsMem(q) /\ Keeps(m5, q) /\ \A j : j # x => Same(m5, q, j)
       /\ \A e \in A!Sides : A!Kid(q, x, e) = A!Kid(m5, x, e) /\ A!KidPos(q, x, e) = A!KidPos(m5, x, e)
                             /\ LinkOK(q, x, e)
       /\ A!Height(q, x) = RightHeight(m5, x)
       /\ Touches(m5, q, {x} \cup KidsOf(m5, x))
  <2>1. HeightUpdated(m5, q, x)
    BY <1>1, <1>8, <1>9, <1>11, UpdateHeightIs
  <2> QED BY <2>1 DEF HeightUpdated
<1>13. Keeps(m, q)
  BY <1>9, <1>12, KeepsTwice
<1>14. /\ A!Kid(q, x, d) = a /\ A!Kid(q, x, o) = y /\ A!Kid(q, y, d) = b /\ A!Kid(q, y, o) = c
  BY <1>0, <1>10, <1>12 DEF Same
<1>15. \A e \in A!Sides : LinkOK(q, x, e) /\ LinkOK(q, y, e)
  <2>1. \A e \in A!Sides : LinkOK(q, y, e)
    BY <1>8, <1>12, LinkKept DEF Same
  <2> QED BY <1>12, <2>1
<1>16. ASSUME NEW j, j \notin {x, y} PROVE Same(m, q, j)
  <2>1. Same(m, m3, j) /\ Same(m3, m4, j) /\ Same(m4, m5, j) /\ Same(m5, q, j)
    BY <1>2, <1>4, <1>8, <1>12, <1>16
  <2> QED BY <2>1, SameTwice
<1>17. A!Height(q, y) = RightHeight(q, y)
  <2>1. A!Height(q, y) = A!Height(m5, y)
    BY <1>12 DEF Same
  <2>2. RightHeight(m4, y) = MaxOf(A!Height(m4, b), A!Height(m4, c)) + 1
    BY <1>4, <1>6, RightHeightSides DEF o
  <2>3. RightHeight(q, y) = MaxOf(A!Height(q, b), A!Height(q, c)) + 1
    BY <1>12, <1>14, RightHeightSides DEF o
  <2>4. A!Height(q, b) = A!Height(m4, b) /\ A!Height(q, c) = A!Height(m4, c)
    BY <1>8, <1>12, <1>a DEF Same
  <2> QED BY <1>8, <2>1, <2>2, <2>3, <2>4
<1>18. A!Height(q, x) = RightHeight(q, x)
  <2>1. A!Height(q, y) = A!Height(m5, y)
    BY <1>12 DEF Same
  <2>2. RightHeight(m5, x) = MaxOf(A!Height(m5, a), A!Height(m5, y)) + 1
    BY <1>8, <1>10, RightHeightSides DEF o
  <2>3. RightHeight(q, x) = MaxOf(A!Height(q, a), A!Height(q, y)) + 1
    BY <1>12, <1>14, RightHeightSides DEF o
  <2>4. A!Height(q, a) = A!Height(m5, a)
    BY <1>12, <1>a DEF Same
  <2> QED BY <1>12, <2>1, <2>2, <2>3, <2>4
<1>19. Touches(m, q, {x, y} \cup KidsOf(m, x) \cup KidsOf(m, y))
  <2> DEFINE W == {x, y} \cup KidsOf(m, x) \cup KidsOf(m, y)
  <2>1. KidsOf(m4, y) \subseteq W /\ KidsOf(m5, x) \subseteq W
    BY <1>0, <1>4, <1>6, <1>10, <1>a DEF KidsOf
  <2>2. Touches(m, m4, W)
    BY <1>2, <1>3, <1>4, TouchesTwice
  <2>3. Touches(m, m5, W)
    BY <1>5, <1>8, <2>1, <2>2, TouchesTwice
  <2> QED BY <1>9, <1>12, <2>1, <2>3, TouchesTwice
<1>20. y \in q.modified
  <2>1. y \in KidsOf(m5, x)
    BY <1>0, <1>10, <1>b DEF KidsOf
  <2>2. HeightUpdated(m5, q, x)
    BY <1>1, <1>8, <1>9, <1>11, UpdateHeightIs
  <2> QED BY <2>1, <2>2 DEF HeightUpdated
<1> QED BY <1>12, <1>13, <1>14, <1>15, <1>16, <1>17, <1>18, <1>19, <1>20, <1>a DEF o, Turned

LEMMA RotateIs ==
  ASSUME NEW m, IsMem(m), A!StepsAssumption, T2From = "cache",
         NEW y \in DOMAIN m.n, NEW x \in DOMAIN m.n, x # y,
         NEW d \in A!Sides, x = A!Kid(m, y, d),
         A!Kid(m, x, d) \notin {x, y}, A!Kid(m, x, A!Other(d)) \notin {x, y}, A!Kid(m, y, A!Other(d)) \notin {x, y},
         \A e \in A!Sides : LinkOK(m, x, e) /\ LinkOK(m, y, e)
  PROVE  \E q : A!Rotate(m, y, d) = A!Rotated(q, x) /\ Turned(m, q, y, x, d) /\ x \in q.modified
<1> DEFINE o == A!Other(d)  a == A!Kid(m, x, d)  b == A!Kid(m, x, o)  c == A!Kid(m, y, o)
<1>0. o \in A!Sides /\ o # d /\ A!Other(o) = d /\ A!Sides = {d, o}
  BY OtherSide
<1>1. PICK m1 : m1 = A!ReadKid(m, y, d)
  OBVIOUS
<1>2. PICK m2 : m2 = A!ReadKid(m1, x, o)
  OBVIOUS
<1>3. IsMem(m1) /\ Keeps(m, m1) /\ (\A j : Same(m, m1, j)) /\ Touches(m, m1, {x}) /\ x \in m1.modified
  <2>1. /\ IsMem(m1) /\ Keeps(m, m1) /\ \A j : Same(m, m1, j)
        /\ A!Kid(m, y, d) # A!Null => A!Kid(m, y, d) \in m1.modified
        /\ Touches(m, m1, {A!Kid(m, y, d)} \ {A!Null})
    BY <1>1, ReadKidIs
  <2>2. x # A!Null
    BY NodeFields
  <2> QED BY <2>1, <2>2
<1>4. \A e \in A!Sides : /\ A!Kid(m1, x, e) = A!Kid(m, x, e) /\ A!KidPos(m1, x, e) = A!KidPos(m, x, e)
                         /\ A!Kid(m1, y, e) = A!Kid(m, y, e) /\ A!KidPos(m1, y, e) = A!KidPos(m, y, e)
  BY <1>3 DEF Same
<1>5. \A e \in A!Sides : LinkOK(m1, x, e) /\ LinkOK(m1, y, e)
  BY <1>3, <1>4, LinkKept
<1> HIDE DEF o
<1>6. /\ IsMem(m2) /\ Keeps(m1, m2) /\ \A j : Same(m1, m2, j)
      /\ A!Kid(m1, x, o) # A!Null => A!Kid(m1, x, o) \in m2.modified /\ A!Kid(m1, x, o) \in DOMAIN m2.n
      /\ Touches(m1, m2, {A!Kid(m1, x, o)} \ {A!Null})
  BY <1>0, <1>2, <1>3, <1>5, ReadKidIs
<1>7. Keeps(m, m2) /\ \A j : Same(m, m2, j)
  BY <1>3, <1>6, KeepsTwice, SameTwice
<1>8. DOMAIN m1.n = DOMAIN m.n /\ DOMAIN m2.n = DOMAIN m.n
  BY <1>3, <1>7 DEF Keeps
<1>9. \A e \in A!Sides : /\ A!Kid(m2, x, e) = A!Kid(m, x, e) /\ A!KidPos(m2, x, e) = A!KidPos(m, x, e)
                         /\ A!Kid(m2, y, e) = A!Kid(m, y, e) /\ A!KidPos(m2, y, e) = A!KidPos(m, y, e)
  BY <1>7 DEF Same
<1>10. \A e \in A!Sides : LinkOK(m2, x, e) /\ LinkOK(m2, y, e)
  BY <1>7, <1>9, LinkKept
<1>11. PICK q : q = A!Turn(m2, y, x, d)
  OBVIOUS
<1>12. A!Rotate(m, y, d) = A!Rotated(q, x)
  <2>1. A!Kid(m1, y, d) = x
    BY <1>4
  <2>2. A!ReadT2(m1, x, d) = m2
    <3>1. T2From # "server"
      OBVIOUS
    <3>2. A!ReadT2(m1, x, d) = A!ReadKid(m1, x, A!Other(d))
      BY <3>1 DEF A!ReadT2
    <3> QED BY <1>2, <3>2 DEF o
  <2> QED BY <1>1, <1>11, <2>1, <2>2 DEF A!Rotate, A!TurnOver
<1>13. b = A!Null \/ b \in DOMAIN m2.n
  BY <1>0, <1>4, <1>6
<1>14. Turned(m2, q, y, x, d)
  <2>1. /\ A!Kid(m2, x, A!Other(d)) = A!Null \/ A!Kid(m2, x, A!Other(d)) \in DOMAIN m2.n
        /\ LinkOK(m2, x, d) /\ LinkOK(m2, y, A!Other(d))
        /\ A!Kid(m2, x, d) \notin {x, y} /\ A!Kid(m2, x, A!Other(d)) \notin {x, y}
        /\ A!Kid(m2, y, A!Other(d)) \notin {x, y}
    BY <1>0, <1>9, <1>10, <1>13 DEF o
  <2>2. x \in DOMAIN m2.n /\ y \in DOMAIN m2.n
    BY <1>8
  <2> HIDE DEF a, b, c
  <2> QED BY <1>6, <1>11, <2>1, <2>2, TurnIs
<1>15. Keeps(m, q) /\ \A j : j \notin {x, y} => Same(m, q, j)
  BY <1>7, <1>14, KeepsTwice, SameTwice DEF Turned
<1>16. Touches(m, q, {x, y} \cup KidsOf(m, x) \cup KidsOf(m, y))
  <2> DEFINE W == {x, y} \cup KidsOf(m, x) \cup KidsOf(m, y)
  <2>1. KidsOf(m2, x) = KidsOf(m, x) /\ KidsOf(m2, y) = KidsOf(m, y)
    BY <1>9 DEF KidsOf
  <2>2. {A!Kid(m1, x, o)} \ {A!Null} \subseteq W
    BY <1>0, <1>4 DEF KidsOf
  <2>3. Touches(m, m2, W)
    BY <1>3, <1>6, <1>8, <2>2, TouchesTwice
  <2>4. Touches(m2, q, W)
    BY <1>14, <2>1 DEF Turned
  <2> QED BY <1>8, <2>3, <2>4, TouchesTwice
<1>17. x \in q.modified
  BY <1>3, <1>6, <1>14 DEF Turned, Keeps
<1> QED BY <1>0, <1>9, <1>12, <1>14, <1>15, <1>16, <1>17 DEF Turned, o

(***************************************************************************)
(* Subtrees.  S[k] is the set of the keys below node k, k with them.       *)
(***************************************************************************)
Labels == {S \in [Keys \cup {A!Null} -> SUBSET Keys] : S[A!Null] = {}}

Shape(m, S, k) ==
  /\ k \in DOMAIN m.n /\ S[k] = {k} \cup UNION {S[A!Kid(m, k, d)] : d \in A!Sides}
  /\ \A d \in A!Sides : /\ \A j \in S[A!Kid(m, k, d)] : A!Beyond(j, k, d)
                        /\ A!Kid(m, k, d) = A!Null \/ A!Kid(m, k, d) \in S[A!Kid(m, k, d)]
                        /\ LinkOK(m, k, d)

Even(m, k) == \A d \in A!Sides : A!Heavier(m, k, d) <= 1

\* A node has been read if one of its children has.
Known(m, k) ==
  \A d \in A!Sides : A!Kid(m, k, d) \in m.modified \ {A!Null} => k \in m.modified

Sound(m, S, k) ==
  /\ \A j \in S[k] : S[j] \subseteq S[k]
  /\ Shape(m, S, k) /\ A!Height(m, k) = RightHeight(m, k) /\ Even(m, k) /\ Known(m, k)

\* A balanced search tree, read from its top down, whose every node is where
\* its parent says.
Tree(m, S, k) ==
  /\ k = A!Null \/ k \in S[k]
  /\ \A j \in S[k] : S[j] \subseteq S[k] /\ Sound(m, S, j)

LEMMA ShapeSides ==
  ASSUME NEW m, NEW S, NEW k, NEW d \in A!Sides
  PROVE  UNION {S[A!Kid(m, k, e)] : e \in A!Sides} = S[A!Kid(m, k, d)] \cup S[A!Kid(m, k, A!Other(d))]
<1>1. A!Sides = {d, A!Other(d)}
  BY OtherSide
<1> QED BY <1>1

LEMMA BeyondLaws ==
  ASSUME A!StepsAssumption, NEW d \in A!Sides
  PROVE  /\ \A i \in Keys, j \in Keys : /\ A!Beyond(i, j, d) => i # j
                                        /\ A!Beyond(i, j, A!Other(d)) <=> A!Beyond(j, i, d)
                                        /\ i # j => A!Beyond(i, j, d) \/ A!Beyond(i, j, A!Other(d))
                                        /\ ~ (A!Beyond(i, j, d) /\ A!Beyond(i, j, A!Other(d)))
         /\ \A i \in Keys, j \in Keys, k \in Keys : A!Beyond(i, j, d) /\ A!Beyond(j, k, d) => A!Beyond(i, k, d)
<1>1. \A i \in Keys : i \in Nat
  BY DEF A!StepsAssumption
<1> QED BY <1>1 DEF A!Beyond, A!Other, A!Sides

\* A subtree of a tree is a tree, and so is a node over two of them.
LEMMA SubTree ==
  ASSUME NEW m, NEW S, NEW k, Tree(m, S, k), NEW j, j \in S[k]
  PROVE  Tree(m, S, j)
<1>1. j \in S[j] /\ S[j] \subseteq S[k] /\ \A i \in S[j] : S[i] \subseteq S[j]
  BY DEF Tree, Sound, Shape
<1> QED BY <1>1 DEF Tree

LEMMA KidTree ==
  ASSUME NEW m, NEW S \in Labels, NEW k, Tree(m, S, k), k # A!Null, NEW d \in A!Sides
  PROVE  Tree(m, S, A!Kid(m, k, d)) /\ Shape(m, S, k)
<1> DEFINE c == A!Kid(m, k, d)
<1>1. Shape(m, S, k)
  BY DEF Tree, Sound
<1>2. CASE c = A!Null
  <2>1. S[A!Null] = {}
    BY DEF Labels
  <2> QED BY <1>1, <1>2, <2>1 DEF Tree
<1>3. CASE c # A!Null
  <2>1. c \in S[k]
    BY <1>1, <1>3, ShapeSides DEF Shape
  <2> QED BY <1>1, <2>1, SubTree
<1> QED BY <1>2, <1>3

LEMMA NodeTree ==
  ASSUME NEW m, NEW S, NEW k, Shape(m, S, k), \A d \in A!Sides : Tree(m, S, A!Kid(m, k, d)),
         A!Height(m, k) = RightHeight(m, k), Even(m, k), Known(m, k)
  PROVE  Tree(m, S, k)
<1>1. ASSUME NEW d \in A!Sides PROVE S[A!Kid(m, k, d)] \subseteq S[k]
  BY ShapeSides DEF Shape
<1>2. k \in S[k]
  BY DEF Shape
<1>3. ASSUME NEW j \in S[k], NEW d \in A!Sides, j \in S[A!Kid(m, k, d)]
      PROVE  S[j] \subseteq S[k] /\ Sound(m, S, j)
  BY <1>1, <1>3 DEF Tree
<1>4. \A j \in S[k] : j = k \/ \E d \in A!Sides : j \in S[A!Kid(m, k, d)]
  BY DEF Shape
<1>5. \A j \in S[k] : S[j] \subseteq S[k]
  BY <1>3, <1>4
<1>6. Sound(m, S, k)
  BY <1>5 DEF Sound
<1> QED BY <1>2, <1>3, <1>4, <1>5, <1>6 DEF Tree

\* The node itself is in neither of the trees below it.
LEMMA KidsApart ==
  ASSUME NEW m, IsMem(m), A!StepsAssumption, NEW S \in Labels, NEW k, Shape(m, S, k), NEW d \in A!Sides
  PROVE  k \notin S[A!Kid(m, k, d)] /\ A!Kid(m, k, d) # k
<1>1. k \in Keys /\ k # A!Null /\ A!Kid(m, k, d) \in Keys \cup {A!Null}
  BY NodeFields DEF Shape
<1>2. S[A!Kid(m, k, d)] \subseteq Keys
  BY <1>1 DEF Labels
<1>3. k \notin S[A!Kid(m, k, d)]
  BY <1>1, <1>2, BeyondLaws DEF Shape
<1> QED BY <1>1, <1>3 DEF Shape

\* A child in a tree is below its top.
LEMMA KidBelow ==
  ASSUME NEW m, IsMem(m), A!StepsAssumption, NEW S \in Labels, NEW k, Tree(m, S, k),
         NEW j \in S[k], NEW d \in A!Sides, A!Kid(m, j, d) # A!Null
  PROVE  A!Kid(m, j, d) \in S[k] \ {k}
<1>1. Shape(m, S, j) /\ S[j] \subseteq S[k] /\ A!Kid(m, j, d) \in S[j]
  BY ShapeSides DEF Tree, Sound, Shape
<1>2. CASE j = k
  BY <1>1, <1>2, KidsApart
<1>3. CASE j # k
  <2>1. Shape(m, S, k) /\ k # A!Null
    BY DEF Tree, Sound, Labels
  <2>2. PICK e \in A!Sides : j \in S[A!Kid(m, k, e)]
    BY <1>3, <2>1 DEF Shape
  <2>3. S[j] \subseteq S[A!Kid(m, k, e)]
    BY <2>1, <2>2, KidTree DEF Tree
  <2> QED BY <1>1, <2>1, <2>3, KidsApart
<1> QED BY <1>2, <1>3

\* A tree stays one as long as its nodes keep their children and heights, and
\* none is read below the top.
LEMMA TreeKept ==
  ASSUME NEW m, NEW q, IsMem(m), IsMem(q), A!StepsAssumption, Keeps(m, q),
         NEW S \in Labels, NEW S2 \in Labels, NEW k, Tree(m, S, k),
         \A j \in S[k] : Same(m, q, j) /\ S2[j] = S[j], S2[k] = S[k],
         \A j \in S[k] \ {k} : j \in q.modified => j \in m.modified
  PROVE  Tree(q, S2, k)
<1>1. ASSUME NEW j \in S[k], NEW d \in A!Sides
      PROVE  /\ A!Kid(q, j, d) = A!Kid(m, j, d) /\ A!KidPos(q, j, d) = A!KidPos(m, j, d)
             /\ S2[A!Kid(q, j, d)] = S[A!Kid(m, j, d)]
             /\ A!Height(q, A!Kid(q, j, d)) = A!Height(m, A!Kid(m, j, d))
             /\ LinkOK(q, j, d)
  <2> DEFINE c == A!Kid(m, j, d)
  <2>1. A!Kid(q, j, d) = c /\ A!KidPos(q, j, d) = A!KidPos(m, j, d)
    BY DEF Same
  <2>2. Shape(m, S, j) /\ S[j] \subseteq S[k]
    BY DEF Tree, Sound
  <2>3. LinkOK(q, j, d)
    BY <2>1, <2>2, LinkKept DEF Shape
  <2>4. CASE c = A!Null
    <3>1. S[c] = {} /\ S2[c] = {}
      BY <2>4 DEF Labels
    <3>2. A!Height(m, c) = 0 /\ A!Height(q, c) = 0
      BY <2>4, NodeFields DEF A!Height
    <3> QED BY <2>1, <2>3, <3>1, <3>2
  <2>5. CASE c # A!Null
    <3>1. c \in S[k]
      BY <2>2, <2>5, ShapeSides DEF Shape
    <3> QED BY <2>1, <2>3, <3>1 DEF Same
  <2> QED BY <2>4, <2>5
<1>2. ASSUME NEW j \in S[k]
      PROVE  S2[j] \subseteq S2[k] /\ Sound(q, S2, j)
  <2>1. /\ S[j] \subseteq S[k] /\ Shape(m, S, j) /\ A!Height(m, j) = RightHeight(m, j) /\ Even(m, j)
        /\ Known(m, j) /\ \A i \in S[j] : S[i] \subseteq S[j]
    BY DEF Tree, Sound
  <2>2. Shape(q, S2, j)
    <3>1. j \in DOMAIN q.n
      BY <2>1 DEF Shape, Keeps
    <3>2. {S2[A!Kid(q, j, d)] : d \in A!Sides} = {S[A!Kid(m, j, d)] : d \in A!Sides}
      BY <1>1
    <3>3. S2[j] = {j} \cup UNION {S2[A!Kid(q, j, d)] : d \in A!Sides}
      BY <2>1, <3>2 DEF Shape
    <3> QED BY <1>1, <2>1, <3>1, <3>3 DEF Shape
  <2>3. A!Height(q, j) = RightHeight(q, j)
    BY <1>1, <2>1 DEF RightHeight, Same, A!Sides
  <2>4. Even(q, j)
    <3>1. \A d \in A!Sides : A!Heavier(q, j, d) = A!Heavier(m, j, d)
      BY <1>1, OtherSide DEF A!Heavier
    <3> QED BY <2>1, <3>1 DEF Even
  <2>5. Known(q, j)
    <3>1. ASSUME NEW d \in A!Sides, A!Kid(q, j, d) \in q.modified \ {A!Null} PROVE j \in q.modified
      <4>1. A!Kid(q, j, d) = A!Kid(m, j, d)
        BY <1>1
      <4>2. A!Kid(m, j, d) \in S[k] \ {k}
        BY <3>1, <4>1, KidBelow
      <4>3. A!Kid(m, j, d) \in m.modified \ {A!Null}
        BY <3>1, <4>1, <4>2
      <4> QED BY <2>1, <4>3 DEF Known, Keeps
    <3> QED BY <3>1 DEF Known
  <2> QED BY <2>1, <2>2, <2>3, <2>4, <2>5 DEF Sound
<1> QED BY <1>2 DEF Tree

(***************************************************************************)
(* A rotation of search trees.                                             *)
(***************************************************************************)
RotatedTree(m, S, q, S2, y, x, d) ==
  /\ Turned(m, q, y, x, d)
  /\ Shape(q, S2, x) /\ Shape(q, S2, y)
  /\ \A e \in A!Sides : Tree(q, S2, A!Kid(q, y, e))
  /\ Tree(q, S2, A!Kid(q, x, d))
  /\ S2[x] = S[y] /\ \A j \in (Keys \cup {A!Null}) \ {x, y} : S2[j] = S[j]
  /\ {x, y} \subseteq q.modified /\ Touches(m, q, S[y])

LEMMA ShapeKids ==
  ASSUME NEW m, NEW S, NEW k, Shape(m, S, k)
  PROVE  KidsOf(m, k) \subseteq S[k] /\ k \in S[k] /\ \A d \in A!Sides : S[A!Kid(m, k, d)] \subseteq S[k]
<1>1. \A d \in A!Sides : S[A!Kid(m, k, d)] \subseteq S[k]
  BY DEF Shape
<1>2. KidsOf(m, k) \subseteq S[k]
  BY <1>1 DEF KidsOf, Shape
<1> QED BY <1>1, <1>2 DEF Shape

LEMMA RotateTree ==
  ASSUME NEW m, IsMem(m), A!StepsAssumption, T2From = "cache", NEW S \in Labels,
         NEW y, NEW d \in A!Sides, NEW x, x = A!Kid(m, y, d), x # A!Null,
         Shape(m, S, y), Shape(m, S, x),
         \A e \in A!Sides : Tree(m, S, A!Kid(m, x, e)), Tree(m, S, A!Kid(m, y, A!Other(d)))
  PROVE  \E q, S2 : /\ S2 \in Labels /\ A!Rotate(m, y, d) = A!Rotated(q, x)
                    /\ RotatedTree(m, S, q, S2, y, x, d)
<1>0. PICK o : o = A!Other(d)
  OBVIOUS
<1>1. o \in A!Sides /\ o # d /\ A!Other(o) = d /\ A!Sides = {d, o}
  BY <1>0, OtherSide
<1>2. PICK a, b, c : a = A!Kid(m, x, d) /\ b = A!Kid(m, x, o) /\ c = A!Kid(m, y, o)
  OBVIOUS
<1>3. x \in DOMAIN m.n /\ y \in DOMAIN m.n /\ x \in Keys /\ y \in Keys
  BY NodeFields DEF Shape
<1>4. S[y] = {y} \cup S[x] \cup S[c] /\ S[x] = {x} \cup S[a] \cup S[b]
  BY <1>0, <1>2, ShapeSides DEF Shape
<1>5. /\ S[a] \subseteq Keys /\ S[b] \subseteq Keys /\ S[c] \subseteq Keys /\ S[x] \subseteq Keys
      /\ a \in Keys \cup {A!Null} /\ b \in Keys \cup {A!Null} /\ c \in Keys \cup {A!Null}
  BY <1>1, <1>2, <1>3, NodeFields DEF Labels
<1>6. A!Beyond(x, y, d) /\ A!Beyond(y, x, o) /\ x # y
  BY <1>0, <1>1, <1>3, BeyondLaws DEF Shape
<1>7. /\ \A j \in S[a] : A!Beyond(j, x, d) /\ A!Beyond(j, y, d)
      /\ \A j \in S[b] : A!Beyond(j, x, o) /\ A!Beyond(j, y, d)
      /\ \A j \in S[c] : A!Beyond(j, y, o) /\ A!Beyond(j, x, o)
  <2>1. /\ \A j \in S[a] : A!Beyond(j, x, d) /\ A!Beyond(j, y, d)
        /\ \A j \in S[b] : A!Beyond(j, x, o) /\ A!Beyond(j, y, d)
        /\ \A j \in S[c] : A!Beyond(j, y, o)
    BY <1>1, <1>2, <1>4 DEF Shape
  <2>2. \A j \in S[c] : A!Beyond(j, x, o)
    BY <1>1, <1>3, <1>5, <1>6, <2>1, BeyondLaws
  <2> QED BY <2>1, <2>2
<1>8. /\ x \notin S[a] \cup S[b] \cup S[c] /\ y \notin S[a] \cup S[b] \cup S[c]
      /\ a \notin {x, y} /\ b \notin {x, y} /\ c \notin {x, y}
  <2>1. x \notin S[a] \cup S[b] \cup S[c] /\ y \notin S[a] \cup S[b] \cup S[c]
    BY <1>1, <1>3, <1>5, <1>7, BeyondLaws
  <2>2. (a = A!Null \/ a \in S[a]) /\ (b = A!Null \/ b \in S[b]) /\ (c = A!Null \/ c \in S[c])
    BY <1>0, <1>1, <1>2 DEF Tree
  <2>3. x # A!Null /\ y # A!Null
    BY <1>3, NodeFields
  <2> QED BY <2>1, <2>2, <2>3
<1>9. PICK q : A!Rotate(m, y, d) = A!Rotated(q, x) /\ Turned(m, q, y, x, d) /\ x \in q.modified
  <2>1. \A e \in A!Sides : LinkOK(m, x, e) /\ LinkOK(m, y, e)
    BY DEF Shape
  <2>2. /\ A!Kid(m, x, d) \notin {x, y} /\ A!Kid(m, x, A!Other(d)) \notin {x, y}
        /\ A!Kid(m, y, A!Other(d)) \notin {x, y}
    BY <1>0, <1>2, <1>8
  <2> QED BY <1>3, <1>6, <2>1, <2>2, RotateIs
<1>10. /\ IsMem(q) /\ Keeps(m, q) /\ \A j : j \notin {x, y} => Same(m, q, j)
       /\ A!Kid(q, x, d) = a /\ A!Kid(q, x, o) = y /\ A!Kid(q, y, d) = b /\ A!Kid(q, y, o) = c
       /\ \A e \in A!Sides : LinkOK(q, x, e) /\ LinkOK(q, y, e)
       /\ Touches(m, q, {x, y, a, b, c})
       /\ Touches(m, q, {x, y} \cup KidsOf(m, x) \cup KidsOf(m, y))
  <2>1. KidsOf(m, x) \subseteq {a, b, c} /\ KidsOf(m, y) \subseteq {x, c}
    BY <1>1, <1>2 DEF KidsOf
  <2>2. Touches(m, q, {x, y, a, b, c})
    BY <1>9, <2>1, TouchesMore DEF Turned
  <2> QED BY <1>0, <1>2, <1>9, <2>2 DEF Turned
<1>11. PICK S2 : S2 = [S EXCEPT ![y] = {y} \cup S[b] \cup S[c], ![x] = S[y]]
  OBVIOUS
<1>12. /\ S2 \in Labels /\ S2[x] = S[y] /\ S2[y] = {y} \cup S[b] \cup S[c]
       /\ \A j \in (Keys \cup {A!Null}) \ {x, y} : S2[j] = S[j]
  <2>1. S \in [Keys \cup {A!Null} -> SUBSET Keys] /\ S[A!Null] = {} /\ x # A!Null /\ y # A!Null
    BY <1>3, NodeFields DEF Labels
  <2>2. S[y] \in SUBSET Keys /\ {y} \cup S[b] \cup S[c] \in SUBSET Keys
    BY <1>3, <1>5, <2>1
  <2>3. S2 \in [Keys \cup {A!Null} -> SUBSET Keys] /\ S2[A!Null] = {}
    BY <1>3, <1>11, <2>1, <2>2
  <2>4. S2[x] = S[y] /\ S2[y] = {y} \cup S[b] \cup S[c]
    BY <1>3, <1>6, <1>11, <2>1
  <2>5. ASSUME NEW j \in (Keys \cup {A!Null}) \ {x, y} PROVE S2[j] = S[j]
    BY <1>11, <2>1, <2>5
  <2> QED BY <2>3, <2>4, <2>5 DEF Labels
<1>13. S2[a] = S[a] /\ S2[b] = S[b] /\ S2[c] = S[c]
  BY <1>5, <1>8, <1>12
<1>14. ASSUME NEW t \in {a, b, c} PROVE Tree(q, S2, t)
  <2>1. Tree(m, S, t)
    BY <1>0, <1>1, <1>2
  <2>2. \A j \in S[t] : Same(m, q, j) /\ S2[j] = S[j]
    BY <1>5, <1>8, <1>10, <1>12
  <2>3. S2[t] = S[t]
    BY <1>13
  <2>4. ASSUME NEW j \in S[t] \ {t} PROVE j \in q.modified => j \in m.modified
    <3>1. (a = A!Null \/ a \in S[a]) /\ (b = A!Null \/ b \in S[b]) /\ (c = A!Null \/ c \in S[c])
      BY <1>0, <1>1, <1>2 DEF Tree
    <3>2. S[a] \cap S[b] = {} /\ S[a] \cap S[c] = {} /\ S[b] \cap S[c] = {}
      BY <1>0, <1>3, <1>5, <1>7, BeyondLaws
    <3>3. j \in Keys /\ j # A!Null
      BY <1>5, NodeFields DEF A!StepsAssumption
    <3>4. j \notin {x, y, a, b, c}
      BY <1>8, <3>1, <3>2, <3>3
    <3> QED BY <1>10, <3>4 DEF Touches
  <2> QED BY <1>10, <1>12, <2>1, <2>2, <2>3, <2>4, TreeKept
<1>15. \A t \in {a, b, c} : t = A!Null \/ t \in S2[t]
  BY <1>14 DEF Tree
<1>16. x \in DOMAIN q.n /\ y \in DOMAIN q.n
  BY <1>3, <1>10 DEF Keeps
<1>17. Shape(q, S2, y)
  <2>1. UNION {S2[A!Kid(q, y, e)] : e \in A!Sides} = S[b] \cup S[c]
    BY <1>0, <1>10, <1>13, ShapeSides
  <2>2. \A e \in A!Sides : \A j \in S2[A!Kid(q, y, e)] : A!Beyond(j, y, e)
    BY <1>1, <1>7, <1>10, <1>13
  <2>3. \A e \in A!Sides : A!Kid(q, y, e) = A!Null \/ A!Kid(q, y, e) \in S2[A!Kid(q, y, e)]
    BY <1>1, <1>10, <1>15
  <2> QED BY <1>10, <1>12, <1>16, <2>1, <2>2, <2>3 DEF Shape
<1>18. Shape(q, S2, x)
  <2>1. UNION {S2[A!Kid(q, x, e)] : e \in A!Sides} = S[a] \cup S2[y]
    BY <1>0, <1>10, <1>13, ShapeSides
  <2>2. S2[x] = {x} \cup S[a] \cup S2[y]
    BY <1>4, <1>12
  <2>3. \A e \in A!Sides : \A j \in S2[A!Kid(q, x, e)] : A!Beyond(j, x, e)
    <3>1. \A j \in S2[y] : A!Beyond(j, x, o)
      BY <1>6, <1>7, <1>12
    <3> QED BY <1>1, <1>7, <1>10, <1>13, <3>1
  <2>4. \A e \in A!Sides : A!Kid(q, x, e) = A!Null \/ A!Kid(q, x, e) \in S2[A!Kid(q, x, e)]
    BY <1>1, <1>10, <1>12, <1>15
  <2> QED BY <1>10, <1>16, <2>1, <2>2, <2>3, <2>4 DEF Shape
<1>19. Touches(m, q, S[y])
  <2>1. {x, y} \cup KidsOf(m, x) \cup KidsOf(m, y) \subseteq S[y]
    BY <1>4, ShapeKids
  <2> QED BY <1>10, <2>1 DEF Touches
<1>20. \A e \in A!Sides : Tree(q, S2, A!Kid(q, y, e))
  BY <1>1, <1>10, <1>14
<1>21. Tree(q, S2, A!Kid(q, x, d))
  BY <1>10, <1>14
<1>22. RotatedTree(m, S, q, S2, y, x, d)
  <2>1. y \in q.modified
    BY <1>9 DEF Turned
  <2> QED BY <1>9, <1>12, <1>17, <1>18, <1>19, <1>20, <1>21, <2>1 DEF RotatedTree
<1> QED BY <1>9, <1>12, <1>22

(***************************************************************************)
(* A node over two trees, and the child that is attached to it.            *)
(***************************************************************************)
Half(m, S, k) == Shape(m, S, k) /\ \A d \in A!Sides : Tree(m, S, A!Kid(m, k, d))

\* Only the nodes of S[k] change, and q has a tree of the same keys there.
Rebuilt(m, S, q, S2, top, k) ==
  /\ S2 \in Labels /\ IsMem(q) /\ Keeps(m, q) /\ Touches(m, q, S[k])
  /\ Tree(q, S2, top) /\ S2[top] = S[k] /\ \A j \in (Keys \cup {A!Null}) \ S[k] : S2[j] = S[j]
  /\ {top, k} \subseteq q.modified

LEMMA ShapeKept ==
  ASSUME NEW m, NEW q, NEW S, NEW k, Keeps(m, q), Shape(m, S, k),
         \A d \in A!Sides : A!Kid(q, k, d) = A!Kid(m, k, d) /\ A!KidPos(q, k, d) = A!KidPos(m, k, d)
  PROVE  Shape(q, S, k)
<1>1. \A d \in A!Sides : LinkOK(q, k, d)
  BY LinkKept DEF Shape
<1>2. k \in DOMAIN q.n
  BY DEF Keeps, Shape
<1>3. {S[A!Kid(q, k, d)] : d \in A!Sides} = {S[A!Kid(m, k, d)] : d \in A!Sides}
  OBVIOUS
<1> QED BY <1>1, <1>2, <1>3 DEF Shape

LEMMA HalfKept ==
  ASSUME NEW m, NEW q, IsMem(m), IsMem(q), A!StepsAssumption, Keeps(m, q),
         NEW S \in Labels, NEW k, Half(m, S, k), \A j \in S[k] \ {k} : Same(m, q, j),
         Touches(m, q, {k} \cup KidsOf(m, k)),
         \A d \in A!Sides : A!Kid(q, k, d) = A!Kid(m, k, d) /\ A!KidPos(q, k, d) = A!KidPos(m, k, d)
  PROVE  /\ Half(q, S, k) /\ RightHeight(q, k) = RightHeight(m, k)
         /\ \A d \in A!Sides : /\ A!Heavier(q, k, d) = A!Heavier(m, k, d)
                               /\ A!Height(q, A!Kid(q, k, d)) = A!Height(m, A!Kid(m, k, d))
<1>1. Shape(q, S, k)
  BY ShapeKept DEF Half
<1>2. ASSUME NEW d \in A!Sides
      PROVE  Tree(q, S, A!Kid(q, k, d)) /\ A!Height(q, A!Kid(q, k, d)) = A!Height(m, A!Kid(m, k, d))
  <2>1. PICK c : c = A!Kid(m, k, d)
    OBVIOUS
  <2>2. S[c] \subseteq S[k] \ {k} /\ Tree(m, S, c) /\ (c = A!Null \/ c \in S[c])
    BY <2>1, KidsApart, ShapeKids DEF Half, Tree
  <2>3. Tree(q, S, c)
    <3>1. ASSUME NEW j \in S[c] \ {c} PROVE j \in q.modified => j \in m.modified
      <4>1. k \in Keys /\ S[c] \subseteq Keys /\ j # A!Null
        BY <2>1, NodeFields DEF Half, Shape, Labels, A!StepsAssumption
      <4>2. A!Kid(m, k, A!Other(d)) # j
        <5>1. A!Beyond(j, k, d)
          BY <2>1 DEF Half, Shape
        <5>2. A!Kid(m, k, A!Other(d)) # A!Null => A!Beyond(A!Kid(m, k, A!Other(d)), k, A!Other(d))
          BY OtherSide DEF Half, Shape
        <5> QED BY <4>1, <5>1, <5>2, BeyondLaws
      <4>3. j \notin {k} \cup KidsOf(m, k)
        BY <2>1, <2>2, <4>1, <4>2, OtherSide DEF KidsOf
      <4> QED BY <4>3 DEF Touches
    <3> QED BY <2>2, <3>1, TreeKept
  <2>4. A!Height(q, c) = A!Height(m, c)
    <3>1. CASE c = A!Null
      BY <3>1, NodeFields DEF A!Height
    <3>2. CASE c # A!Null
      BY <2>2, <3>2 DEF Same
    <3> QED BY <3>1, <3>2
  <2> QED BY <2>1, <2>3, <2>4
<1>3. \A d \in A!Sides : A!Heavier(q, k, d) = A!Heavier(m, k, d)
  BY <1>2, OtherSide DEF A!Heavier
<1>4. RightHeight(q, k) = RightHeight(m, k)
  BY <1>2 DEF RightHeight, A!Sides
<1> QED BY <1>1, <1>2, <1>3, <1>4 DEF Half

\* top fits under k, on side d.
Joins(m, S, k, d, top) ==
  LET c == A!Kid(m, k, A!Other(d)) IN
  /\ k \in DOMAIN m.n /\ S[k] = {k} \cup S[top] \cup S[c]
  /\ \A j \in S[top] : A!Beyond(j, k, d)
  /\ \A j \in S[c] : A!Beyond(j, k, A!Other(d))
  /\ top = A!Null \/ top \in S[top] \cap DOMAIN m.n
  /\ c = A!Null \/ c \in S[c]
  /\ LinkOK(m, k, A!Other(d))

LEMMA AttachShape ==
  ASSUME NEW m, IsMem(m), A!StepsAssumption, NEW S \in Labels, NEW k, NEW d \in A!Sides, NEW top,
         Joins(m, S, k, d, top), NEW r, r = A!Attach(A!Rotated(m, top), k, d)
  PROVE  KidIsSet(m, r, k, d, top, A!Pos(m, top)) /\ Shape(r, S, k)
<1>0. PICK o : o = A!Other(d)
  OBVIOUS
<1>1. o \in A!Sides /\ o # d /\ A!Sides = {d, o}
  BY <1>0, OtherSide
<1>2. PICK c : c = A!Kid(m, k, o)
  OBVIOUS
<1>3. /\ k \in DOMAIN m.n /\ S[k] = {k} \cup S[top] \cup S[c]
      /\ \A j \in S[top] : A!Beyond(j, k, d)
      /\ \A j \in S[c] : A!Beyond(j, k, o)
      /\ top = A!Null \/ (top \in S[top] /\ top \in DOMAIN m.n)
      /\ c = A!Null \/ c \in S[c]
      /\ LinkOK(m, k, o)
  BY <1>0, <1>2 DEF Joins
<1>4. /\ top \in Keys \cup {A!Null} /\ A!Pos(m, top) \in Leaves \cup {A!NoPos}
      /\ top # A!Null => A!Pos(m, top) \in Leaves
  <2>1. top = A!Null => A!Pos(m, top) = A!NoPos
    BY NodeFields DEF A!Pos
  <2> QED BY <1>3, <2>1, NodeFields
<1>5. KidIsSet(m, r, k, d, top, A!Pos(m, top))
  <2>1. r = A!SetKid(m, k, d, top, A!Pos(m, top))
    BY DEF A!Attach, A!Rotated
  <2> QED BY <1>3, <1>4, <2>1, SetKidIs
<1>6. /\ Keeps(m, r) /\ A!Pos(r, top) = A!Pos(m, top)
      /\ A!Kid(r, k, d) = top /\ A!KidPos(r, k, d) = A!Pos(m, top)
      /\ A!Kid(r, k, o) = c /\ A!KidPos(r, k, o) = A!KidPos(m, k, o)
  BY <1>1, <1>2, <1>5 DEF KidIsSet
<1>7. k \in DOMAIN r.n /\ (top = A!Null \/ top \in DOMAIN r.n)
  BY <1>3, <1>6 DEF Keeps
<1>8. LinkOK(r, k, d)
  BY <1>4, <1>6, <1>7 DEF LinkOK
<1>9. LinkOK(r, k, o)
  BY <1>2, <1>3, <1>6, LinkKept
<1>10. UNION {S[A!Kid(r, k, e)] : e \in A!Sides} = S[top] \cup S[c]
  BY <1>0, <1>6, ShapeSides
<1>11. ASSUME NEW e \in A!Sides
       PROVE  /\ \A j \in S[A!Kid(r, k, e)] : A!Beyond(j, k, e)
              /\ A!Kid(r, k, e) = A!Null \/ A!Kid(r, k, e) \in S[A!Kid(r, k, e)]
              /\ LinkOK(r, k, e)
  <2>1. CASE e = d
    BY <1>3, <1>6, <1>8, <2>1
  <2>2. CASE e = o
    BY <1>3, <1>6, <1>9, <2>2
  <2> QED BY <1>1, <2>1, <2>2
<1>12. Shape(r, S, k)
  <2>1. S[k] = {k} \cup UNION {S[A!Kid(r, k, e)] : e \in A!Sides}
    BY <1>3, <1>10
  <2> QED BY <1>7, <1>11, <2>1 DEF Shape
<1> QED BY <1>5, <1>12

(***************************************************************************)
(* The four cases.                                                         *)
(***************************************************************************)
\* Heights, as numbers: a and b of x's children, c of k's other child.
LEMMA HeightsAround ==
  ASSUME NEW m, IsMem(m), A!StepsAssumption, NEW S \in Labels, NEW k, NEW d \in A!Sides,
         NEW x, x = A!Kid(m, k, d), Half(m, S, k), A!Heavier(m, k, d) = 2
  PROVE  LET a == A!Height(m, A!Kid(m, x, d))
             b == A!Height(m, A!Kid(m, x, A!Other(d)))
             c == A!Height(m, A!Kid(m, k, A!Other(d)))
         IN  /\ a \in Nat /\ b \in Nat /\ c \in Nat /\ A!Height(m, x) \in Nat
             /\ x # A!Null /\ A!Height(m, x) = MaxOf(a, b) + 1 /\ A!Height(m, x) = c + 2
             /\ a - b <= 1 /\ b - a <= 1
             /\ A!Heavier(m, x, d) = a - b /\ A!Heavier(m, x, A!Other(d)) = b - a
<1>1. \A j : A!Height(m, j) \in Nat
  BY NodeFields
<1>2. A!Height(m, A!Null) = 0
  BY NodeFields DEF A!Height
<1>3. A!Height(m, x) = A!Height(m, A!Kid(m, k, A!Other(d))) + 2
  BY <1>1 DEF A!Heavier
<1>4. x # A!Null
  BY <1>1, <1>2, <1>3
<1>5. A!Height(m, x) = RightHeight(m, x) /\ Even(m, x)
  BY <1>4 DEF Half, Tree, Sound
<1>6. A!Height(m, x) = MaxOf(A!Height(m, A!Kid(m, x, d)), A!Height(m, A!Kid(m, x, A!Other(d)))) + 1
  BY <1>5, RightHeightSides
<1>7. A!Heavier(m, x, d) <= 1 /\ A!Heavier(m, x, A!Other(d)) <= 1
  BY <1>5, OtherSide DEF Even
<1>8. /\ A!Heavier(m, x, d) = A!Height(m, A!Kid(m, x, d)) - A!Height(m, A!Kid(m, x, A!Other(d)))
      /\ A!Heavier(m, x, A!Other(d)) = A!Height(m, A!Kid(m, x, A!Other(d))) - A!Height(m, A!Kid(m, x, d))
  BY OtherSide DEF A!Heavier
<1> QED BY <1>1, <1>3, <1>4, <1>6, <1>7, <1>8

LEMMA EvenSides ==
  ASSUME NEW m, IsMem(m), A!StepsAssumption, NEW k, NEW d \in A!Sides,
         A!Height(m, A!Kid(m, k, d)) - A!Height(m, A!Kid(m, k, A!Other(d))) \in {-1, 0, 1}
  PROVE  Even(m, k)
<1>1. \A j : A!Height(m, j) \in Nat
  BY NodeFields
<1>2. ASSUME NEW e \in A!Sides PROVE A!Heavier(m, k, e) <= 1
  <2>1. CASE e = d
    BY <2>1 DEF A!Heavier
  <2>2. CASE e = A!Other(d)
    BY <1>1, <2>2, OtherSide DEF A!Heavier
  <2> QED BY <2>1, <2>2, OtherSide
<1> QED BY <1>2 DEF Even

LEMMA SingleRotation ==
  ASSUME NEW m, IsMem(m), A!StepsAssumption, T2From = "cache", NEW S \in Labels,
         NEW k, NEW d \in A!Sides, NEW x, x = A!Kid(m, k, d),
         Half(m, S, k), A!Heavier(m, k, d) = 2, A!Heavier(m, x, d) \in {0, 1}
  PROVE  \E q, S2 : /\ A!Rotate(m, k, d) = A!Rotated(q, x) /\ Rebuilt(m, S, q, S2, x, k)
                    /\ A!Height(q, x) = A!Height(m, x) + 1 - A!Heavier(m, x, d)
<1>0. PICK o : o = A!Other(d)
  OBVIOUS
<1>1. o \in A!Sides /\ o # d /\ A!Other(o) = d /\ A!Sides = {d, o}
  BY <1>0, OtherSide
<1>2. PICK a, b, c : a = A!Kid(m, x, d) /\ b = A!Kid(m, x, o) /\ c = A!Kid(m, k, o)
  OBVIOUS
<1>3. PICK ha, hb, hc, hx : /\ ha = A!Height(m, a) /\ hb = A!Height(m, b) /\ hc = A!Height(m, c)
                            /\ hx = A!Height(m, x)
  OBVIOUS
<1>4. /\ ha \in Nat /\ hb \in Nat /\ hc \in Nat /\ hx \in Nat
      /\ x # A!Null /\ hx = MaxOf(ha, hb) + 1 /\ hx = hc + 2
      /\ A!Heavier(m, x, d) = ha - hb
  BY <1>0, <1>2, <1>3, HeightsAround
<1>5. hx = ha + 1 /\ hb \in {ha, ha - 1} /\ hc = ha - 1
  BY <1>4 DEF MaxOf
<1>6. Shape(m, S, k) /\ Shape(m, S, x) /\ (\A e \in A!Sides : Tree(m, S, A!Kid(m, x, e))) /\ Tree(m, S, A!Kid(m, k, o))
  <2>1. Tree(m, S, x)
    BY DEF Half
  <2> QED BY <1>1, <1>4, <2>1, KidTree DEF Half
<1>7. PICK q, S2 : /\ S2 \in Labels /\ A!Rotate(m, k, d) = A!Rotated(q, x)
                   /\ RotatedTree(m, S, q, S2, k, x, d)
  BY <1>0, <1>4, <1>6, RotateTree
<1>8. /\ IsMem(q) /\ Keeps(m, q) /\ \A j : j \notin {x, k} => Same(m, q, j)
      /\ A!Kid(q, x, d) = a /\ A!Kid(q, x, o) = k /\ A!Kid(q, k, d) = b /\ A!Kid(q, k, o) = c
      /\ A!Height(q, k) = RightHeight(q, k) /\ A!Height(q, x) = RightHeight(q, x)
      /\ Shape(q, S2, x) /\ Shape(q, S2, k)
      /\ \A e \in A!Sides : Tree(q, S2, A!Kid(q, k, e))
      /\ Tree(q, S2, a)
      /\ S2[x] = S[k] /\ \A j \in (Keys \cup {A!Null}) \ {x, k} : S2[j] = S[j]
      /\ {x, k} \subseteq q.modified /\ Touches(m, q, S[k])
  BY <1>0, <1>2, <1>7 DEF RotatedTree, Turned
<1>9. a \notin {x, k} /\ b \notin {x, k} /\ c \notin {x, k}
  <2>1. a # x /\ b # x /\ c # k
    BY <1>1, <1>2, <1>6, KidsApart
  <2>2. a # k /\ b # k
    <3>1. k \notin S[x]
      BY <1>6, KidsApart
    <3>2. k # A!Null
      BY <1>6, NodeFields DEF Shape
    <3> QED BY <1>1, <1>2, <1>6, <3>1, <3>2, ShapeKids DEF Shape
  <2>3. c # x
    <3>1. x \in S[x] /\ (c = A!Null \/ c \in S[c])
      BY <1>6, <1>2 DEF Shape, Tree
    <3>2. x \in Keys /\ k \in Keys
      BY <1>6, NodeFields DEF Shape
    <3>3. A!Beyond(x, k, d) /\ (c = x => A!Beyond(x, k, o))
      BY <1>1, <1>2, <1>4, <1>6, <3>1 DEF Shape
    <3> QED BY <1>0, <1>1, <3>2, <3>3, BeyondLaws
  <2> QED BY <2>1, <2>2, <2>3
<1>10. A!Height(q, a) = ha /\ A!Height(q, b) = hb /\ A!Height(q, c) = hc
  BY <1>3, <1>8, <1>9 DEF Same
<1>11. A!Height(q, k) = hb + 1 /\ Even(q, k)
  <2>1. A!Height(q, k) = MaxOf(hb, hc) + 1
    BY <1>0, <1>8, <1>10, RightHeightSides
  <2>2. Even(q, k)
    <3>1. A!Height(q, A!Kid(q, k, d)) - A!Height(q, A!Kid(q, k, A!Other(d))) \in {-1, 0, 1}
      BY <1>0, <1>4, <1>5, <1>8, <1>10
    <3> QED BY <1>8, <3>1, EvenSides
  <2> QED BY <1>4, <1>5, <2>1, <2>2 DEF MaxOf
<1>12. A!Height(q, x) = MaxOf(ha, hb + 1) + 1 /\ Even(q, x)
  <2>1. A!Height(q, x) = MaxOf(ha, hb + 1) + 1
    BY <1>0, <1>8, <1>10, <1>11, RightHeightSides
  <2>2. Even(q, x)
    <3>1. A!Height(q, A!Kid(q, x, d)) - A!Height(q, A!Kid(q, x, A!Other(d))) \in {-1, 0, 1}
      BY <1>0, <1>4, <1>5, <1>8, <1>10, <1>11
    <3> QED BY <1>8, <3>1, EvenSides
  <2> QED BY <2>1, <2>2
<1>13. Tree(q, S2, k)
  <2>1. Known(q, k)
    BY <1>8 DEF Known
  <2> QED BY <1>8, <1>11, <2>1, NodeTree
<1>14. Tree(q, S2, x)
  <2>1. \A e \in A!Sides : Tree(q, S2, A!Kid(q, x, e))
    BY <1>1, <1>8, <1>13
  <2>2. Known(q, x)
    BY <1>8 DEF Known
  <2> QED BY <1>8, <1>12, <2>1, <2>2, NodeTree
<1>15. \A j \in (Keys \cup {A!Null}) \ S[k] : S2[j] = S[j]
  <2>1. {x, k} \subseteq S[k]
    BY <1>4, <1>6, ShapeKids DEF KidsOf
  <2> QED BY <1>8, <2>1
<1>16. Rebuilt(m, S, q, S2, x, k)
  BY <1>7, <1>8, <1>14, <1>15 DEF Rebuilt
<1>17. A!Height(q, x) = hx + 1 - (ha - hb)
  BY <1>4, <1>5, <1>12 DEF MaxOf
<1> QED BY <1>3, <1>4, <1>7, <1>16, <1>17

\* Two nodes of a search tree and their children are different nodes.
LEMMA PairApart ==
  ASSUME NEW m, IsMem(m), A!StepsAssumption, NEW S \in Labels, NEW y, NEW d \in A!Sides,
         NEW x, x = A!Kid(m, y, d), x # A!Null, Shape(m, S, y), Shape(m, S, x)
  PROVE  /\ x # y /\ \A e \in A!Sides : A!Kid(m, x, e) \notin {x, y}
         /\ A!Kid(m, y, A!Other(d)) \notin {x, y}
         /\ x \in Keys /\ y \in Keys /\ {x, y} \cup S[x] \subseteq S[y]
         /\ y \notin S[x] /\ \A e \in A!Sides : x \notin S[A!Kid(m, x, e)]
         /\ x \notin S[A!Kid(m, y, A!Other(d))] /\ y \notin S[A!Kid(m, y, A!Other(d))]
<1>1. A!Other(d) \in A!Sides
  BY OtherSide
<1>2. x \in Keys /\ y \in Keys /\ y # A!Null
  BY NodeFields DEF Shape
<1>3. y \notin S[x] /\ x # y /\ A!Kid(m, y, A!Other(d)) # y /\ y \notin S[A!Kid(m, y, A!Other(d))]
  BY <1>1, KidsApart
<1>4. \A e \in A!Sides : A!Kid(m, x, e) # x /\ x \notin S[A!Kid(m, x, e)]
  BY KidsApart
<1>5. {x, y} \cup S[x] \subseteq S[y]
  BY ShapeKids DEF KidsOf
<1>6. ASSUME NEW e \in A!Sides PROVE A!Kid(m, x, e) # y
  BY <1>2, <1>3, <1>6, ShapeKids DEF Shape
<1>7. x \notin S[A!Kid(m, y, A!Other(d))]
  <2>1. A!Beyond(x, y, d)
    BY <1>2, ShapeKids DEF Shape
  <2>2. x \in S[A!Kid(m, y, A!Other(d))] => A!Beyond(x, y, A!Other(d))
    BY <1>1 DEF Shape
  <2> QED BY <1>2, <2>1, <2>2, BeyondLaws
<1>8. A!Kid(m, y, A!Other(d)) # x
  BY <1>1, <1>7 DEF Shape
<1> QED BY <1>2, <1>3, <1>4, <1>5, <1>6, <1>7, <1>8

LEMMA DoubleRotation ==
  ASSUME NEW m, IsMem(m), A!StepsAssumption, T2From = "cache", NEW S \in Labels,
         NEW k, NEW d \in A!Sides, NEW x, x = A!Kid(m, k, d),
         Half(m, S, k), A!Heavier(m, k, d) = 2, A!Heavier(m, x, d) = -1
  PROVE  \E q, S2, z : /\ A!RotateTwice(m, k, d) = A!Rotated(q, z) /\ Rebuilt(m, S, q, S2, z, k)
                       /\ A!Height(q, z) = A!Height(m, x)
<1>0. PICK o : o = A!Other(d)
  OBVIOUS
<1>1. o \in A!Sides /\ o # d /\ A!Other(o) = d /\ A!Sides = {d, o}
  BY <1>0, OtherSide
<1>2. PICK a, z, c, b1, b2 : /\ a = A!Kid(m, x, d) /\ z = A!Kid(m, x, o) /\ c = A!Kid(m, k, o)
                             /\ b1 = A!Kid(m, z, d) /\ b2 = A!Kid(m, z, o)
  OBVIOUS
<1>3. PICK ha, hz, hc, hx, h1, h2 : /\ ha = A!Height(m, a) /\ hz = A!Height(m, z) /\ hc = A!Height(m, c)
                                    /\ hx = A!Height(m, x) /\ h1 = A!Height(m, b1) /\ h2 = A!Height(m, b2)
  OBVIOUS
<1>4. /\ ha \in Nat /\ hz \in Nat /\ hc \in Nat /\ hx \in Nat
      /\ x # A!Null /\ hx = MaxOf(ha, hz) + 1 /\ hx = hc + 2
      /\ A!Heavier(m, x, d) = ha - hz
  BY <1>0, <1>2, <1>3, HeightsAround
<1>5. hx = hz + 1 /\ ha = hz - 1 /\ hc = hz - 1 /\ hz >= 1
  BY <1>4 DEF MaxOf
<1>6. z # A!Null
  BY <1>3, <1>5, NodeFields DEF A!Height
<1>7. /\ Shape(m, S, k) /\ Shape(m, S, x) /\ Shape(m, S, z)
      /\ Tree(m, S, a) /\ Tree(m, S, z) /\ Tree(m, S, b1) /\ Tree(m, S, b2) /\ Tree(m, S, c)
      /\ \A e \in A!Sides : Tree(m, S, A!Kid(m, z, e))
  <2>1. Tree(m, S, x)
    BY DEF Half
  <2>2. Shape(m, S, x) /\ Tree(m, S, a) /\ Tree(m, S, z)
    BY <1>1, <1>2, <1>4, <2>1, KidTree
  <2>3. Shape(m, S, z) /\ \A e \in A!Sides : Tree(m, S, A!Kid(m, z, e))
    BY <1>6, <2>2, KidTree
  <2> QED BY <1>1, <1>2, <2>2, <2>3 DEF Half
<1>8. /\ h1 \in Nat /\ h2 \in Nat /\ h1 - hz \in {-1, -2} /\ h2 - hz \in {-1, -2}
  <2>1. hz = RightHeight(m, z) /\ Even(m, z)
    BY <1>3, <1>6, <1>7 DEF Tree, Sound
  <2>2. h1 \in Nat /\ h2 \in Nat
    BY <1>3, NodeFields
  <2>3. hz = MaxOf(h1, h2) + 1
    BY <1>0, <1>2, <1>3, <2>1, RightHeightSides
  <2>4. h1 - h2 <= 1 /\ h2 - h1 <= 1
    BY <1>0, <1>1, <1>2, <1>3, <2>1 DEF Even, A!Heavier
  <2> QED BY <1>4, <2>2, <2>3, <2>4 DEF MaxOf
<1>9. /\ x # k /\ z \notin {x, k} /\ a \notin {x, k} /\ c \notin {x, k}
      /\ x \in Keys /\ k \in Keys /\ {x, k} \cup S[x] \subseteq S[k] /\ k \notin S[x]
      /\ x \notin S[a] \cup S[z] \cup S[c] /\ k \notin S[c]
  BY <1>0, <1>1, <1>2, <1>4, <1>7, PairApart
<1>10. /\ b1 \notin {x, z} /\ b2 \notin {x, z} /\ a \notin {x, z} /\ z \in Keys
       /\ {x, z} \cup S[z] \subseteq S[x] /\ x \notin S[z] /\ z \notin S[b1] \cup S[b2] \cup S[a]
  BY <1>1, <1>2, <1>6, <1>7, PairApart
\* The first rotation: z takes the place of x.
<1>11. PICK q1, S1 : /\ S1 \in Labels /\ A!Rotate(m, x, o) = A!Rotated(q1, z)
                     /\ RotatedTree(m, S, q1, S1, x, z, o)
  BY <1>1, <1>2, <1>6, <1>7, RotateTree
<1>12. /\ IsMem(q1) /\ Keeps(m, q1) /\ \A j : j \notin {x, z} => Same(m, q1, j)
       /\ A!Kid(q1, z, o) = b2 /\ A!Kid(q1, z, d) = x /\ A!Kid(q1, x, o) = b1 /\ A!Kid(q1, x, d) = a
       /\ A!Height(q1, x) = RightHeight(q1, x)
       /\ Shape(q1, S1, z) /\ Shape(q1, S1, x)
       /\ \A e \in A!Sides : Tree(q1, S1, A!Kid(q1, x, e))
       /\ Tree(q1, S1, b2)
       /\ S1[z] = S[x] /\ \A j \in (Keys \cup {A!Null}) \ {x, z} : S1[j] = S[j]
       /\ {x, z} \subseteq q1.modified /\ Touches(m, q1, S[x])
  BY <1>1, <1>2, <1>11 DEF RotatedTree, Turned
<1>13. A!Height(q1, a) = ha /\ A!Height(q1, b1) = h1 /\ A!Height(q1, b2) = h2 /\ A!Height(q1, c) = hc
  <2>1. c # z
    <3>1. c = A!Null \/ c \in S[c]
      BY <1>7 DEF Tree
    <3>2. c \in S[c] => A!Beyond(c, k, o)
      BY <1>1, <1>2, <1>7 DEF Shape
    <3>3. A!Beyond(z, k, d)
      BY <1>2, <1>10, <1>7 DEF Shape, Half
    <3> QED BY <1>0, <1>6, <1>9, <1>10, <3>1, <3>2, <3>3, BeyondLaws
  <2> QED BY <1>3, <1>9, <1>10, <1>12, <2>1 DEF Same
<1>14. A!Height(q1, x) = hz /\ Tree(q1, S1, x)
  <2>1. A!Height(q1, x) = MaxOf(ha, h1) + 1
    BY <1>0, <1>12, <1>13, RightHeightSides
  <2>2. Even(q1, x)
    <3>1. A!Height(q1, A!Kid(q1, x, d)) - A!Height(q1, A!Kid(q1, x, A!Other(d))) \in {-1, 0, 1}
      BY <1>0, <1>4, <1>5, <1>8, <1>12, <1>13
    <3> QED BY <1>12, <3>1, EvenSides
  <2>3. Tree(q1, S1, x)
    <3>1. Known(q1, x)
      BY <1>12 DEF Known
    <3> QED BY <1>12, <2>2, <3>1, NodeTree
  <2> QED BY <1>4, <1>5, <1>8, <2>1, <2>3 DEF MaxOf
\* z becomes the child of k.
<1>15. PICK q2 : q2 = A!Attach(A!Rotated(q1, z), k, d)
  OBVIOUS
<1>16. A!Kid(q1, k, o) = c /\ A!KidPos(q1, k, o) = A!KidPos(m, k, o) /\ S1[c] = S[c] /\ S1[k] = S[k]
       /\ c \notin {x, z, k} /\ x \notin S[c] /\ z \notin S[c] /\ k \notin S[c]
  <2>1. z \notin S[c]
    <3>1. z \in S[c] => A!Beyond(z, k, o)
      BY <1>1, <1>2, <1>7 DEF Shape
    <3>2. A!Beyond(z, k, d)
      BY <1>2, <1>10, <1>7 DEF Shape
    <3> QED BY <1>0, <1>9, <1>10, <3>1, <3>2, BeyondLaws
  <2>2. c # z
    BY <1>6, <1>7, <2>1 DEF Tree
  <2>3. k # z
    BY <1>9
  <2>4. A!Kid(q1, k, o) = A!Kid(m, k, o) /\ A!KidPos(q1, k, o) = A!KidPos(m, k, o)
    BY <1>1, <1>9, <1>12 DEF Same
  <2>5. c \in Keys \cup {A!Null}
    BY <1>1, <1>2, NodeFields
  <2> QED BY <1>2, <1>9, <1>12, <2>1, <2>2, <2>3, <2>4, <2>5
<1>17. Joins(q1, S1, k, d, z)
  <2>1. k \in DOMAIN q1.n /\ z \in DOMAIN q1.n
    BY <1>7, <1>12 DEF Shape, Keeps
  <2>2. S[k] = {k} \cup S[x] \cup S[c]
    BY <1>0, <1>2, <1>7, ShapeSides DEF Shape
  <2>3. S1[k] = {k} \cup S1[z] \cup S1[c]
    BY <1>12, <1>16, <2>2
  <2>4. /\ \A j \in S1[z] : A!Beyond(j, k, d)
        /\ \A j \in S1[c] : A!Beyond(j, k, o)
        /\ z \in S1[z] /\ (c = A!Null \/ c \in S1[c])
    BY <1>1, <1>2, <1>7, <1>10, <1>12, <1>16 DEF Shape
  <2>5. LinkOK(q1, k, o)
    BY <1>1, <1>2, <1>7, <1>12, <1>16, LinkKept DEF Shape
  <2> QED BY <1>0, <1>16, <2>1, <2>3, <2>4, <2>5 DEF Joins
<1>18. KidIsSet(q1, q2, k, d, z, A!Pos(q1, z)) /\ Shape(q2, S1, k)
  BY <1>11, <1>12, <1>15, <1>17, AttachShape
<1>19. /\ IsMem(q2) /\ Keeps(q1, q2) /\ Keeps(m, q2) /\ q2.modified = q1.modified
       /\ \A j : j # k => Same(q1, q2, j)
       /\ \A j : A!Height(q2, j) = A!Height(q1, j)
       /\ A!Kid(q2, k, d) = z /\ A!Kid(q2, k, o) = c /\ Touches(q1, q2, {k})
  <2>1. /\ IsMem(q2) /\ Keeps(q1, q2) /\ q2.modified = q1.modified
        /\ \A j : j # k => Same(q1, q2, j)
        /\ \A j : A!Height(q2, j) = A!Height(q1, j)
        /\ A!Kid(q2, k, d) = z /\ A!Kid(q2, k, o) = c /\ Touches(q1, q2, {k})
    BY <1>1, <1>16, <1>18 DEF KidIsSet
  <2>2. Keeps(m, q2)
    BY <1>12, <2>1, KeepsTwice
  <2> QED BY <2>1, <2>2
<1>20. \A e \in A!Sides : /\ A!Kid(q2, z, e) = A!Kid(q1, z, e) /\ A!KidPos(q2, z, e) = A!KidPos(q1, z, e)
                          /\ A!Kid(q2, x, e) = A!Kid(q1, x, e) /\ A!KidPos(q2, x, e) = A!KidPos(q1, x, e)
  BY <1>9, <1>19 DEF Same
<1>21. Shape(q2, S1, z)
  BY <1>12, <1>19, <1>20, ShapeKept
<1>22. S1[x] \subseteq S[x] /\ S1[b2] \subseteq S[x] /\ k \notin S1[x] /\ k \notin S1[b2]
  BY <1>1, <1>9, <1>12, ShapeKids
<1>23. Tree(q2, S1, x) /\ Tree(q2, S1, b2)
  <2>1. ASSUME NEW t, Tree(q1, S1, t), k \notin S1[t] PROVE Tree(q2, S1, t)
    <3>1. \A j \in S1[t] : Same(q1, q2, j)
      BY <1>19, <2>1
    <3> QED BY <1>11, <1>12, <1>19, <2>1, <3>1, TreeKept
  <2> QED BY <1>12, <1>14, <1>22, <2>1
<1>24. Tree(q2, S1, c)
  <2>1. \A j \in S[c] : Same(m, q2, j)
    BY <1>12, <1>16, <1>19, SameTwice
  <2>2. S[c] \subseteq Keys
    BY <1>1, <1>2, NodeFields DEF Labels
  <2>3. \A j \in S[c] : S1[j] = S[j]
    BY <1>12, <1>16, <2>2
  <2>4. S[c] \cap S[x] = {}
    <3>1. S[x] \subseteq Keys
      BY <1>9 DEF Labels
    <3>2. (\A j \in S[c] : A!Beyond(j, k, o)) /\ \A j \in S[x] : A!Beyond(j, k, d)
      BY <1>1, <1>2, <1>7 DEF Shape
    <3> QED BY <1>0, <1>9, <2>2, <3>1, <3>2, BeyondLaws
  <2>5. \A j \in S[c] : j \in q2.modified => j \in m.modified
    BY <1>12, <1>19, <2>4 DEF Touches
  <2> QED BY <1>7, <1>11, <1>12, <1>16, <1>19, <2>1, <2>3, <2>5, TreeKept
\* The second rotation: z takes the place of k.
<1>25. PICK q, S2 : /\ S2 \in Labels /\ A!Rotate(q2, k, d) = A!Rotated(q, z)
                    /\ RotatedTree(q2, S1, q, S2, k, z, d)
  <2>1. \A e \in A!Sides : Tree(q2, S1, A!Kid(q2, z, e))
    BY <1>1, <1>12, <1>20, <1>23
  <2>2. Tree(q2, S1, A!Kid(q2, k, A!Other(d)))
    BY <1>0, <1>19, <1>24
  <2> QED BY <1>6, <1>11, <1>18, <1>19, <1>21, <2>1, <2>2, RotateTree
<1>26. A!RotateTwice(m, k, d) = A!Rotated(q, z)
  BY <1>0, <1>11, <1>15, <1>25 DEF A!RotateTwice
<1>27. /\ IsMem(q) /\ Keeps(q2, q) /\ \A j : j \notin {z, k} => Same(q2, q, j)
       /\ A!Kid(q, z, d) = x /\ A!Kid(q, z, o) = k /\ A!Kid(q, k, d) = b2 /\ A!Kid(q, k, o) = c
       /\ A!Height(q, k) = RightHeight(q, k) /\ A!Height(q, z) = RightHeight(q, z)
       /\ Shape(q, S2, z) /\ Shape(q, S2, k)
       /\ \A e \in A!Sides : Tree(q, S2, A!Kid(q, k, e))
       /\ Tree(q, S2, x)
       /\ S2[z] = S1[k] /\ \A j \in (Keys \cup {A!Null}) \ {z, k} : S2[j] = S1[j]
       /\ {z, k} \subseteq q.modified /\ Touches(q2, q, S1[k])
  BY <1>0, <1>1, <1>12, <1>19, <1>20, <1>25 DEF RotatedTree, Turned
<1>28. b2 \notin {z, k}
  BY <1>1, <1>10, <1>12, <1>22, <1>27, <1>9, NodeFields DEF Shape, Tree
<1>29. A!Height(q, x) = hz /\ A!Height(q, b2) = h2 /\ A!Height(q, c) = hc
  <2>1. A!Height(q2, x) = hz /\ A!Height(q2, b2) = h2 /\ A!Height(q2, c) = hc
    BY <1>13, <1>14, <1>19
  <2> QED BY <1>9, <1>10, <1>16, <1>27, <1>28, <2>1 DEF Same
<1>30. A!Height(q, k) = hz /\ Even(q, k)
  <2>1. A!Height(q, k) = MaxOf(h2, hc) + 1
    BY <1>0, <1>27, <1>29, RightHeightSides
  <2>2. A!Height(q, A!Kid(q, k, d)) - A!Height(q, A!Kid(q, k, A!Other(d))) \in {-1, 0, 1}
    BY <1>0, <1>4, <1>5, <1>8, <1>27, <1>29
  <2>3. Even(q, k)
    BY <1>27, <2>2, EvenSides
  <2> QED BY <1>4, <1>5, <1>8, <2>1, <2>3 DEF MaxOf
<1>31. A!Height(q, z) = hx /\ Even(q, z)
  <2>1. A!Height(q, z) = MaxOf(hz, hz) + 1
    BY <1>0, <1>27, <1>29, <1>30, RightHeightSides
  <2>2. A!Height(q, A!Kid(q, z, d)) - A!Height(q, A!Kid(q, z, A!Other(d))) \in {-1, 0, 1}
    BY <1>0, <1>4, <1>27, <1>29, <1>30
  <2>3. Even(q, z)
    BY <1>27, <2>2, EvenSides
  <2> QED BY <1>4, <1>5, <2>1, <2>3 DEF MaxOf
<1>32. Tree(q, S2, k)
  <2>1. Known(q, k)
    BY <1>27 DEF Known
  <2> QED BY <1>27, <1>30, <2>1, NodeTree
<1>33. Tree(q, S2, z)
  <2>1. \A e \in A!Sides : Tree(q, S2, A!Kid(q, z, e))
    BY <1>1, <1>27, <1>32
  <2>2. Known(q, z)
    BY <1>27 DEF Known
  <2> QED BY <1>27, <1>31, <2>1, <2>2, NodeTree
<1>34. /\ Keeps(m, q) /\ S2[z] = S[k]
       /\ \A j \in (Keys \cup {A!Null}) \ S[k] : S2[j] = S[j]
  <2>1. Keeps(m, q)
    BY <1>19, <1>27, KeepsTwice
  <2>2. {x, z, k} \subseteq S[k]
    BY <1>9, <1>10
  <2> QED BY <1>12, <1>16, <1>27, <2>1, <2>2
<1>35. Touches(m, q, S[k])
  <2>1. DOMAIN q1.n = DOMAIN m.n /\ DOMAIN q2.n = DOMAIN m.n
    BY <1>12, <1>19 DEF Keeps
  <2>2. Touches(m, q2, S[k])
    BY <1>9, <1>12, <1>19, <2>1, TouchesTwice
  <2>3. Touches(q2, q, S[k])
    BY <1>16, <1>27
  <2> QED BY <2>1, <2>2, <2>3, TouchesTwice
<1>36. Rebuilt(m, S, q, S2, z, k)
  BY <1>25, <1>27, <1>33, <1>34, <1>35 DEF Rebuilt
<1> QED BY <1>3, <1>26, <1>31, <1>36

(***************************************************************************)
(* What removal and insertion return.                                      *)
(***************************************************************************)
\* Whatever only read between m1 and m has changed nothing of the tree.
LEMMA RebuiltFrom ==
  ASSUME NEW m, NEW m1, IsMem(m), Keeps(m, m1), NEW S \in Labels, NEW k, Touches(m, m1, S[k]),
         NEW q, NEW S2, NEW top, Rebuilt(m1, S, q, S2, top, k)
  PROVE  Rebuilt(m, S, q, S2, top, k)
<1>1. Keeps(m, q)
  BY KeepsTwice DEF Rebuilt
<1>2. Touches(m, q, S[k])
  <2>1. DOMAIN m1.n = DOMAIN m.n
    BY DEF Keeps
  <2> QED BY <2>1, TouchesTwice DEF Rebuilt
<1> QED BY <1>1, <1>2 DEF Rebuilt

LEMMA HeavierOpposite ==
  ASSUME NEW m, IsMem(m), A!StepsAssumption, NEW k, NEW d \in A!Sides
  PROVE  A!Heavier(m, k, d) \in Int /\ A!Heavier(m, k, A!Other(d)) = - A!Heavier(m, k, d)
<1>1. \A j : A!Height(m, j) \in Nat
  BY NodeFields
<1> QED BY <1>1, OtherSide DEF A!Heavier

\* Reading the children of a node, or setting its height from theirs, keeps
\* the trees below it.
LEMMA ReadHalf ==
  ASSUME NEW m, IsMem(m), A!StepsAssumption, NEW S \in Labels, NEW k, Half(m, S, k),
         NEW q, q = A!ReadKids(m, k)
  PROVE  /\ IsMem(q) /\ Keeps(m, q) /\ Half(q, S, k) /\ Touches(m, q, S[k]) /\ \A j : Same(m, q, j)
         /\ KidsOf(m, k) \subseteq q.modified
         /\ RightHeight(q, k) = RightHeight(m, k) /\ \A e \in A!Sides : A!Heavier(q, k, e) = A!Heavier(m, k, e)
<1>1. /\ IsMem(q) /\ Keeps(m, q) /\ \A j : Same(m, q, j)
      /\ Touches(m, q, KidsOf(m, k)) /\ KidsOf(m, k) \subseteq q.modified
  BY ReadKidsIs DEF Half, Shape
<1>2. Touches(m, q, S[k]) /\ Touches(m, q, {k} \cup KidsOf(m, k))
  <2>1. KidsOf(m, k) \subseteq S[k]
    BY ShapeKids DEF Half
  <2> QED BY <1>1, <2>1, TouchesMore
<1>3. \A d \in A!Sides : A!Kid(q, k, d) = A!Kid(m, k, d) /\ A!KidPos(q, k, d) = A!KidPos(m, k, d)
  BY <1>1 DEF Same
<1> QED BY <1>1, <1>2, <1>3, HalfKept

\* The same for the children of a child that has been read.
LEMMA ReadUnder ==
  ASSUME NEW m, IsMem(m), A!StepsAssumption, NEW S \in Labels, NEW k, Half(m, S, k),
         NEW d \in A!Sides, NEW x \in m.modified, x = A!Kid(m, k, d), x # A!Null,
         NEW q, q = A!ReadKids(m, x)
  PROVE  /\ IsMem(q) /\ Keeps(m, q) /\ Half(q, S, k) /\ Touches(m, q, S[k]) /\ \A j : Same(m, q, j)
         /\ RightHeight(q, k) = RightHeight(m, k) /\ \A e \in A!Sides : A!Heavier(q, k, e) = A!Heavier(m, k, e)
<1>0. PICK o : o = A!Other(d)
  OBVIOUS
<1>1. o \in A!Sides /\ A!Sides = {d, o}
  BY <1>0, OtherSide
<1>2. Shape(m, S, k) /\ Shape(m, S, x) /\ Half(m, S, x) /\ Tree(m, S, x)
  BY KidTree DEF Half
<1>3. /\ IsMem(q) /\ Keeps(m, q) /\ Half(q, S, x) /\ Touches(m, q, S[x]) /\ \A j : Same(m, q, j)
      /\ RightHeight(q, x) = RightHeight(m, x) /\ \A e \in A!Sides : A!Heavier(q, x, e) = A!Heavier(m, x, e)
  BY <1>2, ReadHalf
<1>4. Tree(q, S, x)
  <2>1. A!Height(m, x) = RightHeight(m, x) /\ Even(m, x)
    BY <1>2 DEF Tree, Sound
  <2>2. A!Height(q, x) = RightHeight(q, x) /\ Even(q, x)
    BY <1>3, <2>1 DEF Same, Even
  <2>3. Known(q, x)
    BY <1>3 DEF Known, Keeps
  <2> QED BY <1>3, <2>2, <2>3, NodeTree DEF Half
<1>5. PICK c : c = A!Kid(m, k, o)
  OBVIOUS
<1>6. Tree(q, S, c)
  <2>1. Tree(m, S, c)
    BY <1>1, <1>5 DEF Half
  <2>2. S[c] \cap S[x] = {}
    <3>1. S[x] \subseteq Keys /\ S[c] \subseteq Keys /\ k \in Keys
      BY <1>1, <1>2, <1>5, NodeFields DEF Labels, Shape
    <3>2. (\A j \in S[c] : A!Beyond(j, k, o)) /\ \A j \in S[x] : A!Beyond(j, k, d)
      BY <1>1, <1>2, <1>5 DEF Shape
    <3> QED BY <1>0, <3>1, <3>2, BeyondLaws
  <2>3. \A j \in S[c] : j \in q.modified => j \in m.modified
    BY <1>3, <2>2 DEF Touches
  <2> QED BY <1>3, <2>1, <2>3, TreeKept
<1>7. \A e \in A!Sides : A!Kid(q, k, e) = A!Kid(m, k, e) /\ A!KidPos(q, k, e) = A!KidPos(m, k, e)
  BY <1>3 DEF Same
<1>8. Half(q, S, k)
  <2>1. Shape(q, S, k)
    BY <1>2, <1>3, <1>7, ShapeKept
  <2> QED BY <1>1, <1>4, <1>5, <1>6, <1>7, <2>1 DEF Half
<1>9. Touches(m, q, S[k])
  BY <1>2, <1>3, ShapeKids, TouchesMore
<1>10. /\ RightHeight(q, k) = RightHeight(m, k)
       /\ \A e \in A!Sides : A!Heavier(q, k, e) = A!Heavier(m, k, e)
  <2>1. \A e \in A!Sides : A!Height(q, A!Kid(q, k, e)) = A!Height(m, A!Kid(m, k, e))
    BY <1>3, <1>7 DEF Same
  <2> QED BY <2>1, OtherSide DEF RightHeight, A!Heavier, A!Sides
<1> QED BY <1>3, <1>8, <1>9, <1>10

LEMMA UpdateHalf ==
  ASSUME NEW m, IsMem(m), A!StepsAssumption, NEW S \in Labels, NEW k, Half(m, S, k),
         NEW q, q = A!UpdateHeight(m, k)
  PROVE  /\ IsMem(q) /\ Keeps(m, q) /\ Half(q, S, k) /\ Touches(m, q, S[k])
         /\ \A d \in A!Sides : A!Kid(q, k, d) = A!Kid(m, k, d) /\ A!Heavier(q, k, d) = A!Heavier(m, k, d)
                               /\ A!Height(q, A!Kid(q, k, d)) = A!Height(m, A!Kid(m, k, d))
         /\ \A j : j # k => Same(m, q, j)
         /\ A!Height(q, k) = RightHeight(m, k) /\ RightHeight(q, k) = RightHeight(m, k)
<1>1. HeightUpdated(m, q, k)
  <2>1. k \in DOMAIN m.n /\ \A d \in A!Sides : LinkOK(m, k, d)
    BY DEF Half, Shape
  <2> QED BY <2>1, UpdateHeightIs
<1>2. /\ IsMem(q) /\ Keeps(m, q) /\ \A j : j # k => Same(m, q, j)
      /\ \A d \in A!Sides : A!Kid(q, k, d) = A!Kid(m, k, d) /\ A!KidPos(q, k, d) = A!KidPos(m, k, d)
      /\ A!Height(q, k) = RightHeight(m, k) /\ Touches(m, q, {k} \cup KidsOf(m, k))
  BY <1>1 DEF HeightUpdated
<1>3. Touches(m, q, S[k])
  <2>1. {k} \cup KidsOf(m, k) \subseteq S[k]
    BY ShapeKids DEF Half
  <2> QED BY <1>2, <2>1, TouchesMore
<1> QED BY <1>2, <1>3, HalfKept

\* A node that is even is left as it is.
LEMMA EvenHalf ==
  ASSUME NEW m, IsMem(m), A!StepsAssumption, NEW S \in Labels, NEW k, Half(m, S, k),
         A!Height(m, k) = RightHeight(m, k), \A d \in A!Sides : A!Heavier(m, k, d) <= 1, k \in m.modified
  PROVE  Rebuilt(m, S, m, S, k, k)
<1>1. Tree(m, S, k)
  BY NodeTree DEF Half, Even, Known
<1>2. Keeps(m, m) /\ Touches(m, m, S[k])
  BY DEF Keeps, Touches
<1> QED BY <1>1, <1>2 DEF Rebuilt

LEMMA ChosenSide ==
  ASSUME NEW m, IsMem(m), A!StepsAssumption, NEW k, NEW d \in A!Sides, A!Heavier(m, k, d) > 1
  PROVE  (CHOOSE e \in A!Sides : A!Heavier(m, k, e) > 1) = d
<1>1. \A e \in A!Sides : A!Heavier(m, k, e) > 1 => e = d
  BY HeavierOpposite, OtherSide
<1> QED BY <1>1

LEMMA RemovalRebuilds ==
  ASSUME NEW m, IsMem(m), A!StepsAssumption, T2From = "cache", NEW S \in Labels,
         NEW k \in m.modified, Half(m, S, k), \A d \in A!Sides : A!Heavier(m, k, d) <= 2
  PROVE  \E q, S2, top : /\ A!RemoveReturns(m, k) = A!Rotated(q, top) /\ Rebuilt(m, S, q, S2, top, k)
                         /\ \/ A!Height(q, top) = RightHeight(m, k)
                            \/ /\ A!Height(q, top) = RightHeight(m, k) - 1
                               /\ \E d \in A!Sides : A!Heavier(m, k, d) = 2
<1>1. PICK m1 : m1 = A!UpdateHeight(m, k)
  OBVIOUS
<1>2. /\ IsMem(m1) /\ Keeps(m, m1) /\ Half(m1, S, k) /\ Touches(m, m1, S[k])
      /\ \A d \in A!Sides : A!Heavier(m1, k, d) = A!Heavier(m, k, d)
      /\ A!Height(m1, k) = RightHeight(m, k) /\ RightHeight(m1, k) = RightHeight(m, k)
  BY <1>1, UpdateHalf
<1>3. PICK m2 : m2 = A!ReadKids(m1, k)
  OBVIOUS
<1>4. /\ IsMem(m2) /\ Keeps(m1, m2) /\ Half(m2, S, k) /\ Touches(m1, m2, S[k]) /\ \A j : Same(m1, m2, j)
      /\ KidsOf(m1, k) \subseteq m2.modified
      /\ RightHeight(m2, k) = RightHeight(m1, k) /\ \A e \in A!Sides : A!Heavier(m2, k, e) = A!Heavier(m1, k, e)
  BY <1>2, <1>3, ReadHalf
<1>5. Keeps(m, m2) /\ Touches(m, m2, S[k])
  <2>1. DOMAIN m1.n = DOMAIN m.n
    BY <1>2 DEF Keeps
  <2> QED BY <1>2, <1>4, <2>1, KeepsTwice, TouchesTwice
<1>6. CASE \A d \in A!Sides : A!Heavier(m2, k, d) <= 1
  <2>1. A!RemoveReturns(m, k) = A!Rotated(m2, k)
    <3>1. ~ \E d \in A!Sides : A!Heavier(m2, k, d) > 1
      BY <1>4, <1>6, HeavierOpposite
    <3> QED BY <1>1, <1>3, <3>1 DEF A!RemoveReturns, A!Rebalance
  <2>2. A!Height(m2, k) = RightHeight(m2, k) /\ A!Height(m2, k) = RightHeight(m, k)
    BY <1>2, <1>4 DEF Same
  <2>3. Rebuilt(m, S, m2, S, k, k)
    <3>1. k \in m2.modified
      BY <1>5 DEF Keeps
    <3> QED BY <1>4, <1>5, <1>6, <2>2, <3>1, EvenHalf, RebuiltFrom
  <2> QED BY <2>1, <2>2, <2>3
<1>7. CASE ~ \A d \in A!Sides : A!Heavier(m2, k, d) <= 1
  <2>1. PICK d \in A!Sides : A!Heavier(m2, k, d) = 2
    BY <1>2, <1>4, <1>7, HeavierOpposite
  <2>2. PICK x : x = A!Kid(m2, k, d)
    OBVIOUS
  <2>3. PICK m3 : m3 = A!ReadKids(m2, x)
    OBVIOUS
  <2>4. x # A!Null /\ Shape(m2, S, x) /\ x \in S[k] /\ x \in m2.modified
    <3>1. x # A!Null
      BY <1>4, <2>1, <2>2, HeightsAround
    <3>2. Tree(m2, S, x)
      BY <1>4, <2>2 DEF Half
    <3>3. x \in S[k]
      BY <1>4, <2>2, <3>1, ShapeKids DEF Half, KidsOf
    <3>4. x \in m2.modified
      BY <1>4, <2>2, <3>1 DEF KidsOf, Same
    <3> QED BY <3>1, <3>2, <3>3, <3>4, KidTree
  <2>5. /\ IsMem(m3) /\ Keeps(m2, m3) /\ Half(m3, S, k) /\ Touches(m2, m3, S[k]) /\ \A j : Same(m2, m3, j)
        /\ RightHeight(m3, k) = RightHeight(m2, k) /\ \A e \in A!Sides : A!Heavier(m3, k, e) = A!Heavier(m2, k, e)
    BY <1>4, <2>2, <2>3, <2>4, ReadUnder
  <2>6. Keeps(m, m3) /\ Touches(m, m3, S[k])
    <3>1. DOMAIN m2.n = DOMAIN m.n
      BY <1>5 DEF Keeps
    <3> QED BY <1>5, <2>5, <3>1, KeepsTwice, TouchesTwice
  <2>7. A!Kid(m3, k, d) = x /\ A!Heavier(m3, k, d) = 2
    BY <2>1, <2>2, <2>5 DEF Same
  <2>8. A!RemoveReturns(m, k) = A!RotateHeavy(m3, k, x, d)
    <3>1. (CHOOSE e \in A!Sides : A!Heavier(m2, k, e) > 1) = d
      BY <1>4, <2>1, ChosenSide
    <3>2. \E e \in A!Sides : A!Heavier(m2, k, e) > 1
      BY <2>1
    <3> QED BY <1>1, <1>3, <2>2, <2>3, <3>1, <3>2 DEF A!RemoveReturns, A!Rebalance
  <2>9. A!Heavier(m3, x, d) \in {-1, 0, 1} /\ A!Height(m3, x) \in Nat /\ RightHeight(m, k) = A!Height(m3, x) + 1
    <3>1. PICK ha, hb, hc, hx : /\ ha = A!Height(m3, A!Kid(m3, x, d)) /\ hb = A!Height(m3, A!Kid(m3, x, A!Other(d)))
                                /\ hc = A!Height(m3, A!Kid(m3, k, A!Other(d))) /\ hx = A!Height(m3, x)
      OBVIOUS
    <3>2. /\ ha \in Nat /\ hb \in Nat /\ hc \in Nat /\ hx \in Nat /\ hx = hc + 2
          /\ ha - hb <= 1 /\ hb - ha <= 1 /\ A!Heavier(m3, x, d) = ha - hb
      BY <2>5, <2>7, <3>1, HeightsAround
    <3>3. RightHeight(m3, k) = MaxOf(hx, hc) + 1
      BY <2>5, <2>7, <3>1, RightHeightSides
    <3>4. RightHeight(m, k) = RightHeight(m3, k)
      BY <1>2, <1>4, <2>5
    <3> QED BY <3>1, <3>2, <3>3, <3>4 DEF MaxOf
  <2>a. A!Heavier(m, k, d) = 2
    BY <1>2, <1>4, <2>1
  <2>10. CASE A!Heavier(m3, x, d) >= 0
    <3>1. A!RemoveReturns(m, k) = A!Rotate(m3, k, d)
      BY <2>8, <2>10 DEF A!RotateHeavy
    <3>2. A!Heavier(m3, x, d) \in {0, 1}
      BY <2>9, <2>10
    <3>3. PICK q, S2 : /\ A!Rotate(m3, k, d) = A!Rotated(q, x) /\ Rebuilt(m3, S, q, S2, x, k)
                       /\ A!Height(q, x) = A!Height(m3, x) + 1 - A!Heavier(m3, x, d)
      BY <2>5, <2>7, <3>2, SingleRotation
    <3>4. Rebuilt(m, S, q, S2, x, k)
      BY <2>6, <3>3, RebuiltFrom
    <3>5. A!Height(q, x) \in {RightHeight(m, k), RightHeight(m, k) - 1}
      BY <2>9, <3>2, <3>3
    <3> QED BY <2>a, <3>1, <3>3, <3>4, <3>5
  <2>11. CASE ~ A!Heavier(m3, x, d) >= 0
    <3>1. A!RemoveReturns(m, k) = A!RotateTwice(m3, k, d)
      BY <2>8, <2>11 DEF A!RotateHeavy
    <3>2. A!Heavier(m3, x, d) = -1
      BY <2>9, <2>11
    <3>3. PICK q, S2, z : /\ A!RotateTwice(m3, k, d) = A!Rotated(q, z) /\ Rebuilt(m3, S, q, S2, z, k)
                          /\ A!Height(q, z) = A!Height(m3, x)
      BY <2>5, <2>7, <3>2, DoubleRotation
    <3>4. Rebuilt(m, S, q, S2, z, k)
      BY <2>6, <3>3, RebuiltFrom
    <3>5. A!Height(q, z) \in {RightHeight(m, k), RightHeight(m, k) - 1}
      BY <2>9, <3>3
    <3> QED BY <2>a, <3>1, <3>3, <3>4, <3>5
  <2> QED BY <2>10, <2>11
<1> QED BY <1>6, <1>7

\* A removal below k, on side d, that has left a tree of the height h0 it had
\* there or of one less: the node returned stands over a balanced search tree
\* of the same keys, itself of the height of before or of one less, and no
\* node was missed on the way.
THEOREM RemovalReturns ==
  ASSUME NEW m, IsMem(m), A!StepsAssumption, T2From = "cache", NEW S \in Labels,
         NEW k \in m.modified, Half(m, S, k), NEW d \in A!Sides, NEW h0 \in Nat,
         A!Height(m, A!Kid(m, k, d)) \in {h0, h0 - 1},
         h0 - A!Height(m, A!Kid(m, k, A!Other(d))) \in {-1, 0, 1}
  PROVE  LET h == MaxOf(h0, A!Height(m, A!Kid(m, k, A!Other(d)))) + 1
         IN  \E q, S2, top : /\ A!RemoveReturns(m, k) = A!Rotated(q, top) /\ Rebuilt(m, S, q, S2, top, k)
                             /\ A!Height(q, top) \in {h, h - 1}
<1>1. PICK h1, h2 : h1 = A!Height(m, A!Kid(m, k, d)) /\ h2 = A!Height(m, A!Kid(m, k, A!Other(d)))
  OBVIOUS
<1>2. h1 \in Nat /\ h2 \in Nat
  BY <1>1, NodeFields
<1>3. A!Heavier(m, k, d) = h1 - h2 /\ A!Heavier(m, k, A!Other(d)) = h2 - h1
  BY <1>1, OtherSide DEF A!Heavier
<1>4. \A e \in A!Sides : A!Heavier(m, k, e) <= 2
  <2>1. h1 - h2 <= 2 /\ h2 - h1 <= 2
    BY <1>1, <1>2
  <2>2. \A e \in A!Sides : e = d \/ e = A!Other(d)
    BY OtherSide
  <2> QED BY <1>3, <2>1, <2>2
<1>5. PICK q, S2, top : /\ A!RemoveReturns(m, k) = A!Rotated(q, top) /\ Rebuilt(m, S, q, S2, top, k)
                        /\ \/ A!Height(q, top) = RightHeight(m, k)
                           \/ /\ A!Height(q, top) = RightHeight(m, k) - 1
                              /\ \E e \in A!Sides : A!Heavier(m, k, e) = 2
  BY <1>4, RemovalRebuilds
<1>6. RightHeight(m, k) = MaxOf(h1, h2) + 1
  BY <1>1, RightHeightSides
<1>7. (\E e \in A!Sides : A!Heavier(m, k, e) = 2) => h1 - h2 \in {2, -2}
  <2>1. \A e \in A!Sides : e = d \/ e = A!Other(d)
    BY OtherSide
  <2> QED BY <1>2, <1>3, <2>1
<1>8. A!Height(q, top) \in {MaxOf(h0, h2) + 1, MaxOf(h0, h2)}
  <2>1. h1 \in {h0, h0 - 1} /\ h0 - h2 \in {-1, 0, 1}
    BY <1>1
  <2>2. \/ A!Height(q, top) = MaxOf(h1, h2) + 1
        \/ A!Height(q, top) = MaxOf(h1, h2) /\ h1 - h2 \in {2, -2}
    BY <1>2, <1>5, <1>6, <1>7 DEF MaxOf
  <2> QED BY <1>2, <2>1, <2>2 DEF MaxOf
<1> QED BY <1>1, <1>2, <1>5, <1>8 DEF MaxOf

\* An insertion that has made the subtree on side d higher: it was made so by
\* the new key, which therefore went into the higher half of it.
Grown(m, top, key, h) ==
  \/ A!Height(m, top) = h
  \/ /\ A!Height(m, top) = h + 1
     /\ h = 0 \/ \E e \in A!Sides : A!Beyond(key, top, e) /\ A!Heavier(m, top, e) = 1

LEMMA JoinedHalf ==
  ASSUME NEW m, IsMem(m), A!StepsAssumption, NEW S \in Labels, NEW k, NEW d \in A!Sides, NEW top,
         Joins(m, S, k, d, top), Tree(m, S, top), Tree(m, S, A!Kid(m, k, A!Other(d))),
         NEW r, r = A!Attach(A!Rotated(m, top), k, d)
  PROVE  /\ IsMem(r) /\ Keeps(m, r) /\ Half(r, S, k) /\ Touches(m, r, S[k]) /\ \A j : j # k => Same(m, r, j)
         /\ A!Kid(r, k, d) = top /\ A!Kid(r, k, A!Other(d)) = A!Kid(m, k, A!Other(d))
         /\ \A j : A!Height(r, j) = A!Height(m, j) /\ A!Pos(r, j) = A!Pos(m, j)
<1>0. PICK o : o = A!Other(d)
  OBVIOUS
<1>1. o \in A!Sides /\ o # d /\ A!Sides = {d, o}
  BY <1>0, OtherSide
<1>2. KidIsSet(m, r, k, d, top, A!Pos(m, top)) /\ Shape(r, S, k)
  BY AttachShape
<1>3. /\ IsMem(r) /\ Keeps(m, r) /\ Touches(m, r, {k}) /\ \A j : j # k => Same(m, r, j)
      /\ r.modified = m.modified
      /\ A!Kid(r, k, d) = top /\ A!Kid(r, k, o) = A!Kid(m, k, o)
      /\ \A j : A!Height(r, j) = A!Height(m, j) /\ A!Pos(r, j) = A!Pos(m, j)
  BY <1>1, <1>2 DEF KidIsSet
<1>4. Touches(m, r, S[k])
  <2>1. {k} \subseteq S[k]
    BY DEF Joins
  <2> QED BY <1>3, <2>1, TouchesMore
<1>5. ASSUME NEW t, Tree(m, S, t), k \notin S[t] PROVE Tree(r, S, t)
  <2>1. \A j \in S[t] : Same(m, r, j) /\ S[j] = S[j]
    BY <1>3, <1>5
  <2> QED BY <1>3, <1>5, <2>1, TreeKept
<1>6. k \notin S[top] /\ k \notin S[A!Kid(m, k, o)]
  <2>1. k \notin S[A!Kid(r, k, d)] /\ k \notin S[A!Kid(r, k, o)]
    BY <1>1, <1>2, <1>3, KidsApart
  <2> QED BY <1>3, <2>1
<1>7. Half(r, S, k)
  <2>1. Tree(r, S, top) /\ Tree(r, S, A!Kid(m, k, o))
    BY <1>0, <1>5, <1>6
  <2> QED BY <1>1, <1>2, <1>3, <2>1 DEF Half
<1> QED BY <1>0, <1>3, <1>4, <1>7

\* When the insertion comes back up to k, from its child on side d: the node
\* returned stands over a balanced search tree that has the key too, it is
\* grown by at most one and then towards the key, and no node was missed.
THEOREM InsertionReturns ==
  ASSUME NEW m, IsMem(m), A!StepsAssumption, T2From = "cache", NEW S \in Labels,
         NEW k \in m.modified, NEW d \in A!Sides, NEW top, Joins(m, S, k, d, top),
         Tree(m, S, top), Tree(m, S, A!Kid(m, k, A!Other(d))),
         NEW key \in S[top], NEW h0 \in Nat, Grown(m, top, key, h0),
         h0 - A!Height(m, A!Kid(m, k, A!Other(d))) \in {-1, 0, 1}
  PROVE  \E q, S2, t : /\ A!InsertReturns(A!Rotated(m, top), k, d, key) = A!Rotated(q, t)
                       /\ Rebuilt(m, S, q, S2, t, k)
                       /\ Grown(q, t, key, MaxOf(h0, A!Height(m, A!Kid(m, k, A!Other(d)))) + 1)
<1>0. PICK o : o = A!Other(d)
  OBVIOUS
<1>1. o \in A!Sides /\ o # d /\ A!Other(o) = d /\ A!Sides = {d, o}
  BY <1>0, OtherSide
<1>2. PICK ht, hO : ht = A!Height(m, top) /\ hO = A!Height(m, A!Kid(m, k, o))
  OBVIOUS
<1>3. ht \in Nat /\ hO \in Nat /\ ht \in {h0, h0 + 1} /\ h0 - hO \in {-1, 0, 1}
  BY <1>0, <1>2, NodeFields DEF Grown
<1>4. PICK m1 : m1 = A!Attach(A!Rotated(m, top), k, d)
  OBVIOUS
<1>5. /\ IsMem(m1) /\ Keeps(m, m1) /\ Half(m1, S, k) /\ Touches(m, m1, S[k]) /\ \A j : j # k => Same(m, m1, j)
      /\ A!Kid(m1, k, d) = top /\ A!Kid(m1, k, o) = A!Kid(m, k, o)
      /\ \A j : A!Height(m1, j) = A!Height(m, j)
  BY <1>0, <1>4, JoinedHalf
<1>6. PICK m2 : m2 = A!UpdateHeight(m1, k)
  OBVIOUS
<1>7. /\ IsMem(m2) /\ Keeps(m1, m2) /\ Half(m2, S, k) /\ Touches(m1, m2, S[k]) /\ \A j : j # k => Same(m1, m2, j)
      /\ \A e \in A!Sides : A!Kid(m2, k, e) = A!Kid(m1, k, e) /\ A!Heavier(m2, k, e) = A!Heavier(m1, k, e)
      /\ A!Height(m2, k) = RightHeight(m1, k) /\ RightHeight(m2, k) = RightHeight(m1, k)
  BY <1>5, <1>6, UpdateHalf
<1>8. PICK m3 : m3 = A!ReadKids(m2, k)
  OBVIOUS
<1>9. /\ IsMem(m3) /\ Keeps(m2, m3) /\ Half(m3, S, k) /\ Touches(m2, m3, S[k]) /\ \A j : Same(m2, m3, j)
      /\ RightHeight(m3, k) = RightHeight(m2, k) /\ \A e \in A!Sides : A!Heavier(m3, k, e) = A!Heavier(m2, k, e)
  BY <1>7, <1>8, ReadHalf
<1>10. Keeps(m, m3) /\ Touches(m, m3, S[k]) /\ \A j : j # k => Same(m, m3, j)
  <2>1. DOMAIN m1.n = DOMAIN m.n /\ DOMAIN m2.n = DOMAIN m.n
    BY <1>5, <1>7 DEF Keeps
  <2>2. Keeps(m, m2) /\ Touches(m, m2, S[k]) /\ \A j : j # k => Same(m, m2, j)
    BY <1>5, <1>7, <2>1, KeepsTwice, TouchesTwice, SameTwice
  <2> QED BY <1>9, <2>1, <2>2, KeepsTwice, TouchesTwice, SameTwice
<1>11. /\ A!Kid(m3, k, d) = top /\ A!Heavier(m3, k, d) = ht - hO /\ A!Heavier(m3, k, o) = hO - ht
       /\ A!Height(m3, k) = MaxOf(ht, hO) + 1 /\ A!Height(m3, k) = RightHeight(m3, k)
  <2>1. A!Heavier(m1, k, d) = ht - hO /\ A!Heavier(m1, k, o) = hO - ht
    BY <1>0, <1>1, <1>2, <1>5 DEF A!Heavier
  <2>2. RightHeight(m1, k) = MaxOf(ht, hO) + 1
    BY <1>0, <1>2, <1>5, RightHeightSides
  <2> QED BY <1>1, <1>5, <1>7, <1>9, <2>1, <2>2 DEF Same
<1>12. A!InsertReturns(A!Rotated(m, top), k, d, key)
       = IF \E e \in A!Sides : A!Heavier(m3, k, e) > 1 /\ key # A!Kid(m3, k, e)
         THEN LET e == CHOOSE e \in A!Sides : A!Heavier(m3, k, e) > 1
              IN  IF A!Beyond(key, A!Kid(m3, k, e), e) THEN A!Rotate(m3, k, e) ELSE A!RotateTwice(m3, k, e)
         ELSE A!Rotated(m3, k)
  BY <1>4, <1>6, <1>8 DEF A!InsertReturns, A!BalanceInsert
<1>13. key \in Keys /\ k \in Keys /\ A!Beyond(key, k, d)
  <2>1. k \in DOMAIN m.n /\ A!Beyond(key, k, d) /\ key \in S[k]
    BY DEF Joins
  <2>2. k \in Keys
    BY <2>1, NodeFields
  <2> QED BY <2>1, <2>2 DEF Labels
<1>14. CASE ht - hO <= 1
  <2>1. \A e \in A!Sides : A!Heavier(m3, k, e) <= 1
    BY <1>1, <1>3, <1>11, <1>14
  <2>2. A!InsertReturns(A!Rotated(m, top), k, d, key) = A!Rotated(m3, k)
    <3>1. ~ \E e \in A!Sides : A!Heavier(m3, k, e) > 1 /\ key # A!Kid(m3, k, e)
      BY <1>9, <2>1, HeavierOpposite
    <3> QED BY <1>12, <3>1
  <2>3. Rebuilt(m, S, m3, S, k, k)
    <3>1. k \in m3.modified
      BY <1>10 DEF Keeps
    <3> QED BY <1>9, <1>10, <1>11, <2>1, <3>1, EvenHalf, RebuiltFrom
  <2>4. Grown(m3, k, key, MaxOf(h0, hO) + 1)
    <3>1. \/ A!Height(m3, k) = MaxOf(h0, hO) + 1
          \/ A!Height(m3, k) = MaxOf(h0, hO) + 2 /\ A!Heavier(m3, k, d) = 1
      BY <1>3, <1>11, <1>14 DEF MaxOf
    <3>2. MaxOf(h0, hO) + 2 = (MaxOf(h0, hO) + 1) + 1
      BY <1>3 DEF MaxOf
    <3> QED BY <1>13, <3>1, <3>2 DEF Grown
  <2> QED BY <1>0, <1>2, <2>2, <2>3, <2>4
<1>15. CASE ~ ht - hO <= 1
  <2>1. ht - hO = 2 /\ ht = h0 + 1 /\ h0 # 0 /\ MaxOf(h0, hO) + 1 = ht
    BY <1>3, <1>15 DEF MaxOf
  <2>2. PICK e \in A!Sides : A!Beyond(key, top, e) /\ A!Heavier(m, top, e) = 1
    BY <1>2, <1>3, <2>1 DEF Grown
  <2>3. top # A!Null /\ Shape(m3, S, top)
    <3>1. top # A!Null
      BY <1>9, <1>11, <2>1, HeightsAround
    <3>2. Tree(m3, S, top)
      BY <1>9, <1>11 DEF Half
    <3> QED BY <3>1, <3>2, KidTree
  <2>4. top \in Keys /\ top # k /\ \A f \in A!Sides : A!Kid(m3, top, f) # k
    <3>1. Shape(m3, S, k)
      BY <1>9 DEF Half
    <3> QED BY <1>9, <1>11, <2>3, <3>1, PairApart
  <2>5. A!Heavier(m3, top, e) = 1 /\ A!Height(m3, top) = ht
    <3>1. \A f \in A!Sides : A!Kid(m, top, f) = A!Kid(m3, top, f)
      BY <1>10, <2>4 DEF Same
    <3>2. \A f \in A!Sides : A!Height(m3, A!Kid(m3, top, f)) = A!Height(m, A!Kid(m, top, f))
      BY <1>10, <2>4, <3>1 DEF Same
    <3>3. A!Height(m3, top) = ht
      BY <1>2, <1>10, <2>4 DEF Same
    <3>4. A!Other(e) \in A!Sides
      BY OtherSide
    <3> QED BY <2>2, <3>2, <3>3, <3>4 DEF A!Heavier
  <2>6. key # top
    BY <1>13, <2>2, <2>4, BeyondLaws
  <2>7. A!InsertReturns(A!Rotated(m, top), k, d, key)
        = IF A!Beyond(key, top, d) THEN A!Rotate(m3, k, d) ELSE A!RotateTwice(m3, k, d)
    <3>1. (CHOOSE f \in A!Sides : A!Heavier(m3, k, f) > 1) = d
      BY <1>9, <1>11, <2>1, ChosenSide
    <3>2. \E f \in A!Sides : A!Heavier(m3, k, f) > 1 /\ key # A!Kid(m3, k, f)
      BY <1>11, <2>1, <2>6
    <3> QED BY <1>11, <1>12, <3>1, <3>2
  <2>8. CASE e = d
    <3>1. PICK q, S2 : /\ A!Rotate(m3, k, d) = A!Rotated(q, top) /\ Rebuilt(m3, S, q, S2, top, k)
                       /\ A!Height(q, top) = A!Height(m3, top) + 1 - A!Heavier(m3, top, d)
      BY <1>9, <1>11, <2>1, <2>5, <2>8, SingleRotation
    <3>2. Rebuilt(m, S, q, S2, top, k)
      BY <1>10, <3>1, RebuiltFrom
    <3>3. A!Height(q, top) = MaxOf(h0, hO) + 1
      BY <1>3, <2>1, <2>5, <2>8, <3>1
    <3>4. Grown(q, top, key, MaxOf(h0, hO) + 1)
      BY <3>3 DEF Grown
    <3> QED BY <1>0, <1>2, <2>2, <2>7, <2>8, <3>1, <3>2, <3>4
  <2>9. CASE e = o
    <3>1. ~ A!Beyond(key, top, d)
      BY <1>0, <1>13, <2>2, <2>4, <2>9, BeyondLaws
    <3>2. A!Heavier(m3, top, d) = -1
      BY <1>0, <1>9, <2>5, <2>9, HeavierOpposite
    <3>3. PICK q, S2, z : /\ A!RotateTwice(m3, k, d) = A!Rotated(q, z) /\ Rebuilt(m3, S, q, S2, z, k)
                          /\ A!Height(q, z) = A!Height(m3, top)
      BY <1>9, <1>11, <2>1, <3>2, DoubleRotation
    <3>4. Rebuilt(m, S, q, S2, z, k)
      BY <1>10, <3>3, RebuiltFrom
    <3>5. Grown(q, z, key, MaxOf(h0, hO) + 1)
      BY <2>1, <2>5, <3>3 DEF Grown
    <3> QED BY <1>0, <1>2, <2>7, <3>1, <3>3, <3>4, <3>5
  <2> QED BY <1>1, <2>8, <2>9
<1> QED BY <1>14, <1>15

\* A node that has been read may be put on any leaf.
LEMMA PosSet ==
  ASSUME NEW m, IsMem(m), A!StepsAssumption, NEW k \in DOMAIN m.n, k \in m.modified, NEW p \in Leaves,
         NEW r, r = [m EXCEPT !.n[k].pos = p]
  PROVE  /\ IsMem(r) /\ Keeps(m, r) /\ \A j : Same(m, r, j)
         /\ r.modified = m.modified /\ Touches(m, r, {k})
<1>1. A!ReadNode(m, k, p) = [m EXCEPT !.n[k].pos = p, !.modified = @ \cup {k}]
  <2>1. k # A!Null
    BY NodeFields
  <2> QED BY <2>1 DEF A!ReadNode
<1>2. m.modified \cup {k} = m.modified
  OBVIOUS
<1>3. r = A!ReadNode(m, k, p)
  BY <1>1, <1>2 DEF IsMem
<1> QED BY <1>2, <1>3, ReadNodeIs

LEMMA ReadNodeSetsPos ==
  ASSUME NEW m, IsMem(m), A!StepsAssumption, NEW c \in DOMAIN m.n, NEW at \in Leaves,
         c \in m.modified \/ A!Pos(m, c) = at
  PROVE  A!Pos(A!ReadNode(m, c, at), c) = at
<1>1. A!ReadNode(m, c, at) = [m EXCEPT !.n[c].pos = at, !.modified = @ \cup {c}]
  <2>1. c # A!Null /\ A!Pos(m, c) = m.n[c].pos
    BY NodeFields DEF A!Pos
  <2> QED BY <2>1 DEF A!ReadNode
<1>2. m.n[c] \in A!Node
  BY DEF IsMem
<1>3. c \in DOMAIN A!ReadNode(m, c, at).n /\ A!ReadNode(m, c, at).n[c].pos = at
  BY <1>1, <1>2 DEF IsMem, A!Node
<1> QED BY <1>3 DEF A!Pos

\* The caller reads the new top with the leaf k had before: it finds it, and
\* the tree stands on that leaf.
THEOREM RereadReturns ==
  ASSUME NEW m, IsMem(m), A!StepsAssumption, NEW S \in Labels, NEW k \in DOMAIN m.n,
         NEW q, NEW S2, NEW top, Rebuilt(m, S, q, S2, top, k), top # A!Null, k \in S[k]
  PROVE  \E r : /\ A!RereadTop(A!Rotated(q, top), k, A!Pos(m, k)) = A!Rotated(r, top)
                /\ Rebuilt(m, S, r, S2, top, k) /\ A!Pos(r, top) = A!Pos(m, k)
                /\ A!Height(r, top) = A!Height(q, top)
<1>1. /\ S2 \in Labels /\ IsMem(q) /\ Keeps(m, q) /\ Touches(m, q, S[k])
      /\ Tree(q, S2, top) /\ S2[top] = S[k]
      /\ top = k \/ {top, k} \subseteq q.modified
      /\ DOMAIN q.n = DOMAIN m.n
  BY DEF Rebuilt, Keeps
<1>2. top \in DOMAIN q.n /\ top \in S[k]
  BY <1>1 DEF Tree, Sound, Shape
<1>3. PICK p : p = A!Pos(m, k)
  OBVIOUS
<1>4. p \in Leaves /\ A!Pos(q, top) \in Leaves
  BY <1>1, <1>2, <1>3, NodeFields
<1>5. PICK q1 : q1 = IF top = k THEN q ELSE [q EXCEPT !.n[k].pos = A!Pos(q, top)]
  OBVIOUS
<1>6. /\ IsMem(q1) /\ Keeps(q, q1) /\ \A j : Same(q, q1, j)
      /\ q1.modified = q.modified /\ Touches(q, q1, {k})
  <2>1. CASE top = k
    <3>1. q1 = q
      BY <1>5, <2>1
    <3> QED BY <1>1, <3>1 DEF Keeps, Same, Touches
  <2>2. CASE top # k
    <3>1. PICK p2 : p2 = A!Pos(q, top)
      OBVIOUS
    <3>2. q1 = [q EXCEPT !.n[k].pos = p2] /\ p2 \in Leaves /\ k \in DOMAIN q.n /\ k \in q.modified
      BY <1>1, <1>4, <1>5, <2>2, <3>1
    <3> QED BY <1>1, <3>2, PosSet
  <2> QED BY <2>1, <2>2
<1>7. PICK r : r = A!ReadNode(q1, top, p)
  OBVIOUS
<1>8. top \in DOMAIN q1.n /\ (top \in q1.modified \/ A!Pos(q1, top) = p)
  <2>1. top \in DOMAIN q1.n
    BY <1>2, <1>6 DEF Keeps
  <2>2. CASE top = k /\ top \notin q1.modified
    <3>1. top \notin q.modified
      BY <1>6, <2>2
    <3>2. A!Pos(q1, top) = A!Pos(q, top) /\ A!Pos(q, top) = A!Pos(m, top)
      BY <1>1, <1>6, <2>2, <3>1 DEF Keeps
    <3> QED BY <1>3, <2>1, <2>2, <3>2
  <2>3. CASE top # k
    BY <1>1, <1>6, <2>1, <2>3
  <2> QED BY <2>1, <2>2, <2>3
<1>9. /\ IsMem(r) /\ Keeps(q1, r) /\ \A j : Same(q1, r, j)
      /\ r.modified = q1.modified \cup {top} /\ Touches(q1, r, {top}) /\ A!Pos(r, top) = p
  <2>1. /\ IsMem(r) /\ Keeps(q1, r) /\ \A j : Same(q1, r, j)
        /\ r.modified = q1.modified \cup {top} /\ Touches(q1, r, {top})
    BY <1>4, <1>6, <1>7, <1>8, ReadNodeIs
  <2> QED BY <1>4, <1>6, <1>7, <1>8, <2>1, ReadNodeSetsPos
<1>10. A!RereadTop(A!Rotated(q, top), k, A!Pos(m, k)) = A!Rotated(r, top)
  <2>1. A!Rotated(q, top).m = q /\ A!Rotated(q, top).key = top /\ A!Rotated(q, top).pos = A!Pos(q, top)
    BY DEF A!Rotated
  <2>2. A!RereadTop(A!Rotated(q, top), k, A!Pos(m, k)) = A!Rotated(A!ReadNode(q1, top, A!Pos(m, k)), top)
    BY <1>5, <2>1 DEF A!RereadTop
  <2> QED BY <1>3, <1>7, <2>2
<1>11. Keeps(q, r) /\ Keeps(m, r) /\ \A j : Same(q, r, j)
  <2>1. Keeps(q, r) /\ \A j : Same(q, r, j)
    BY <1>6, <1>9, KeepsTwice, SameTwice
  <2> QED BY <1>1, <2>1, KeepsTwice
<1>12. Touches(m, r, S[k])
  <2>1. DOMAIN q1.n = DOMAIN m.n
    BY <1>1, <1>6 DEF Keeps
  <2>2. Touches(m, q1, S[k])
    BY <1>1, <1>6, <2>1, TouchesTwice
  <2> QED BY <1>2, <1>9, <2>1, <2>2, TouchesTwice
<1>13. Tree(r, S2, top)
  <2>1. \A j \in S2[top] \ {top} : j \in r.modified => j \in q.modified
    BY <1>6, <1>9
  <2> QED BY <1>1, <1>9, <1>11, <2>1, TreeKept
<1>14. Rebuilt(m, S, r, S2, top, k)
  <2>1. top = k \/ {top, k} \subseteq r.modified
    BY <1>1, <1>6, <1>9
  <2> QED BY <1>1, <1>9, <1>11, <1>12, <1>13, <2>1 DEF Rebuilt
<1>15. A!Height(r, top) = A!Height(q, top)
  BY <1>11 DEF Same
<1> QED BY <1>3, <1>9, <1>10, <1>14, <1>15

\* The right child min of a node del takes its place: with the left subtree of
\* del below it, it stands over a balanced search tree on the leaf it was on.
THEOREM RaiseReturns ==
  ASSUME NEW m, IsMem(m), A!StepsAssumption, T2From = "cache", NEW S \in Labels,
         NEW min \in m.modified, NEW del, Joins(m, S, min, "left", A!Kid(m, del, "left")),
         Tree(m, S, A!Kid(m, del, "left")), Tree(m, S, A!Kid(m, min, "right")),
         NEW h0 \in Nat, A!Height(m, A!Kid(m, min, "right")) \in {h0, h0 - 1},
         h0 - A!Height(m, A!Kid(m, del, "left")) \in {-1, 0, 1}
  PROVE  LET h == MaxOf(h0, A!Height(m, A!Kid(m, del, "left"))) + 1
         IN  \E r, S2, top : /\ A!RaiseChild(m, min, del) = A!Rotated(r, top)
                             /\ Rebuilt(m, S, r, S2, top, min) /\ A!Pos(r, top) = A!Pos(m, min)
                             /\ A!Height(r, top) \in {h, h - 1}
<1>1. PICK lc, rc : lc = A!Kid(m, del, "left") /\ rc = A!Kid(m, min, "right")
  OBVIOUS
<1>2. A!Other("left") = "right" /\ A!Other("right") = "left" /\ "left" \in A!Sides /\ "right" \in A!Sides
  BY DEF A!Other, A!Sides
<1>3. PICK m1 : m1 = A!Attach(A!Rotated(m, lc), min, "left")
  OBVIOUS
<1>4. m1 = A!SetKid(m, min, "left", lc, A!Pos(m, lc))
  BY <1>3 DEF A!Attach, A!Rotated
<1>5. /\ IsMem(m1) /\ Keeps(m, m1) /\ Half(m1, S, min) /\ Touches(m, m1, S[min])
      /\ A!Kid(m1, min, "left") = lc /\ A!Kid(m1, min, "right") = rc
      /\ \A j : A!Height(m1, j) = A!Height(m, j) /\ A!Pos(m1, j) = A!Pos(m, j)
  BY <1>1, <1>2, <1>3, JoinedHalf
<1>6. PICK h : h = MaxOf(h0, A!Height(m, lc)) + 1
  OBVIOUS
<1>7. PICK q, S2, top : /\ A!RemoveReturns(m1, min) = A!Rotated(q, top) /\ Rebuilt(m1, S, q, S2, top, min)
                        /\ A!Height(q, top) \in {h, h - 1}
  <2>1. /\ A!Height(m1, A!Kid(m1, min, "right")) \in {h0, h0 - 1}
        /\ h0 - A!Height(m1, A!Kid(m1, min, A!Other("right"))) \in {-1, 0, 1}
        /\ h = MaxOf(h0, A!Height(m1, A!Kid(m1, min, A!Other("right")))) + 1
    BY <1>1, <1>2, <1>5, <1>6
  <2>2. min \in m1.modified
    BY <1>5 DEF Keeps
  <2> QED BY <1>2, <1>5, <2>1, <2>2, RemovalReturns
<1>8. top # A!Null /\ min \in S[min] /\ min \in DOMAIN m1.n
  <2>1. min \in S[min] /\ min \in DOMAIN m1.n
    BY <1>5 DEF Half, Shape
  <2>2. S2[top] = S[min] /\ S2[A!Null] = {}
    BY <1>7 DEF Rebuilt, Labels
  <2> QED BY <2>1, <2>2
<1>9. PICK r : /\ A!RereadTop(A!Rotated(q, top), min, A!Pos(m1, min)) = A!Rotated(r, top)
               /\ Rebuilt(m1, S, r, S2, top, min) /\ A!Pos(r, top) = A!Pos(m1, min)
               /\ A!Height(r, top) = A!Height(q, top)
  BY <1>5, <1>7, <1>8, RereadReturns
<1>10. A!RaiseChild(m, min, del) = A!Rotated(r, top)
  BY <1>1, <1>4, <1>5, <1>7, <1>9 DEF A!RaiseChild
<1>11. Rebuilt(m, S, r, S2, top, min)
  BY <1>5, <1>9, RebuiltFrom
<1> QED BY <1>1, <1>5, <1>6, <1>7, <1>9, <1>10, <1>11

(***************************************************************************)
(* finilize().                                                             *)
(***************************************************************************)
\* The memory the next operation starts with.
NextMem(m, newPos) == [n |-> A!NodesAfter(m, newPos), modified |-> {}, lost |-> FALSE]

LEMMA NodeAfterIs ==
  ASSUME NEW m, IsMem(m), A!StepsAssumption, NEW newPos \in [A!Remapped(m) -> Leaves], NEW k \in DOMAIN m.n
  PROVE  LET x == A!NodesAfter(m, newPos)[k]
         IN  /\ x \in A!Node /\ x.kid = m.n[k].kid /\ x.height = m.n[k].height
             /\ x.pos = IF k \in A!Remapped(m) THEN newPos[k] ELSE m.n[k].pos
             /\ \A d \in A!Sides : x.kpos[d] = IF k \in A!Remapped(m) THEN A!RecordedPos(m, newPos, k, d)
                                               ELSE m.n[k].kpos[d]
<1>1. DOMAIN newPos = A!Remapped(m)
  OBVIOUS
<1>2. PICK y : y = m.n[k]
  OBVIOUS
<1>3. /\ y = [val |-> y.val, kid |-> y.kid, kpos |-> y.kpos, height |-> y.height, pos |-> y.pos]
      /\ y.kid \in [A!Sides -> Keys \cup {A!Null}] /\ y.kpos \in [A!Sides -> Leaves \cup {A!NoPos}]
      /\ y.val \in Values /\ y.height \in Nat /\ y.pos \in Leaves
  <2>1. y \in A!Node
    BY <1>2 DEF IsMem
  <2> QED BY <2>1 DEF A!Node
<1>4. CASE k \notin A!Remapped(m)
  <2>1. A!NodesAfter(m, newPos)[k] = y
    BY <1>1, <1>2, <1>4 DEF A!NodesAfter
  <2>2. y \in A!Node
    BY <1>2 DEF IsMem
  <2> QED BY <1>2, <1>4, <2>1, <2>2
<1>5. CASE k \in A!Remapped(m)
  <2>1. PICK kpos2 : kpos2 = [d \in A!Sides |-> A!RecordedPos(m, newPos, k, d)]
    OBVIOUS
  <2>2. PICK x : x = [y EXCEPT !.pos = newPos[k], !.kpos = kpos2]
    OBVIOUS
  <2>3. A!NodesAfter(m, newPos)[k] = x
    BY <1>1, <1>2, <1>5, <2>1, <2>2 DEF A!NodesAfter
  <2>4. x = [val |-> y.val, kid |-> y.kid, kpos |-> kpos2, height |-> y.height, pos |-> newPos[k]]
    BY <1>3, <2>2
  <2>5. kpos2 \in [A!Sides -> Leaves \cup {A!NoPos}]
    <3>1. ASSUME NEW d \in A!Sides PROVE A!RecordedPos(m, newPos, k, d) \in Leaves \cup {A!NoPos}
      <4>1. A!KidPos(m, k, d) \in Leaves \cup {A!NoPos}
        BY NodeFields
      <4>2. A!Kid(m, k, d) \in A!Remapped(m) => /\ newPos[A!Kid(m, k, d)] \in Leaves
                                                /\ A!Pos(m, A!Kid(m, k, d)) \in Leaves
        BY NodeFields DEF A!Remapped
      <4> QED BY <1>1, <4>1, <4>2 DEF A!RecordedPos
    <3> QED BY <2>1, <3>1
  <2>6. x \in A!Node
    BY <1>3, <1>5, <2>4, <2>5 DEF A!Node
  <2> QED BY <1>2, <1>5, <2>1, <2>3, <2>4, <2>6
<1> QED BY <1>4, <1>5

\* After finilize() every node is on the leaf its parent has written down: the
\* next operation starts with the same tree, none of it read, and the root is
\* on the leaf the client keeps.  It needs the heights: a child is remapped
\* before its parent because it is lower.
THEOREM FinishRecordsLeaves ==
  ASSUME NEW m, IsMem(m), A!StepsAssumption, NEW S \in Labels, NEW root, Tree(m, S, root), root # A!Null,
         \A k \in S[root] : A!Height(m, k) <= HeightBound,
         NEW newPos \in [A!Remapped(m) -> Leaves]
  PROVE  LET r == NextMem(m, newPos)
         IN  /\ IsMem(r) /\ Tree(r, S, root) /\ A!Pos(r, root) = A!NewRootPos(m, newPos, root)
             /\ \A k \in S[root], d \in A!Sides :
                  A!Kid(r, k, d) # A!Null => A!KidPos(r, k, d) = A!Pos(r, A!Kid(r, k, d))
<1>1. PICK r : r = NextMem(m, newPos)
  OBVIOUS
<1>2. DOMAIN r.n = DOMAIN m.n /\ r.modified = {} /\ r = [n |-> r.n, modified |-> r.modified, lost |-> r.lost]
  BY <1>1 DEF NextMem, A!NodesAfter
<1>3. \A k \in DOMAIN m.n : r.n[k] = A!NodesAfter(m, newPos)[k]
  BY <1>1 DEF NextMem
<1>4. IsMem(r)
  <2>1. r.n \in [DOMAIN r.n -> A!Node]
    <3>1. \A k \in DOMAIN r.n : r.n[k] \in A!Node
      BY <1>2, <1>3, NodeAfterIs
    <3>2. r.n = [k \in DOMAIN r.n |-> r.n[k]]
      BY <1>1 DEF NextMem, A!NodesAfter
    <3> QED BY <3>1, <3>2
  <2> QED BY <1>2, <2>1 DEF IsMem
<1>5. ASSUME NEW j
      PROVE  /\ A!Height(r, j) = A!Height(m, j)
             /\ \A d \in A!Sides : A!Kid(r, j, d) = A!Kid(m, j, d)
             /\ j \in DOMAIN m.n => A!Pos(r, j) = IF j \in A!Remapped(m) THEN newPos[j] ELSE A!Pos(m, j)
             /\ j \in DOMAIN m.n => \A d \in A!Sides :
                  A!KidPos(r, j, d) = IF j \in A!Remapped(m) THEN A!RecordedPos(m, newPos, j, d)
                                      ELSE A!KidPos(m, j, d)
  <2>1. CASE j \notin DOMAIN m.n
    BY <1>2, <2>1 DEF A!Height, A!Kid
  <2>2. CASE j \in DOMAIN m.n
    BY <1>2, <1>3, <2>2, NodeAfterIs DEF A!Height, A!Kid, A!Pos, A!KidPos
  <2> QED BY <2>1, <2>2
<1>6. ASSUME NEW k \in S[root], NEW d \in A!Sides, A!Kid(m, k, d) # A!Null
      PROVE  A!KidPos(r, k, d) = A!Pos(r, A!Kid(m, k, d)) /\ A!Kid(m, k, d) \in DOMAIN r.n
             /\ A!KidPos(r, k, d) \in Leaves
  <2>1. PICK c : c = A!Kid(m, k, d)
    OBVIOUS
  <2>2. Shape(m, S, k) /\ A!Height(m, k) = RightHeight(m, k) /\ Known(m, k)
    BY DEF Tree, Sound
  <2>3. c \in S[root] /\ c \in DOMAIN m.n /\ k \in DOMAIN m.n
    BY <1>6, <2>1, <2>2, KidBelow DEF Tree, Sound, Shape
  <2>4. A!Height(m, c) < A!Height(m, k)
    <3>1. A!Height(m, c) \in Nat /\ A!Height(m, A!Kid(m, k, A!Other(d))) \in Nat
      BY NodeFields
    <3> QED BY <2>1, <2>2, <3>1, RightHeightSides DEF MaxOf
  <2>5. CASE c \in m.modified
    <3>1. c \in A!Remapped(m) /\ k \in A!Remapped(m)
      BY <1>6, <2>1, <2>2, <2>3, <2>5 DEF A!Remapped, Known
    <3>2. A!RecordedPos(m, newPos, k, d) = newPos[c]
      BY <2>1, <2>4, <3>1 DEF A!RecordedPos, A!RemappedBefore
    <3>3. A!KidPos(r, k, d) = newPos[c] /\ A!Pos(r, c) = newPos[c] /\ newPos[c] \in Leaves
      BY <1>5, <2>3, <3>1, <3>2
    <3> QED BY <1>2, <2>1, <2>3, <3>3
  <2>6. CASE c \notin m.modified
    <3>1. c \notin A!Remapped(m)
      BY <2>6 DEF A!Remapped
    <3>2. A!KidPos(m, k, d) = A!Pos(m, c) /\ A!KidPos(m, k, d) \in Leaves
      BY <1>6, <2>1, <2>2, <2>6 DEF Shape, LinkOK
    <3>3. k \in A!Remapped(m) => A!RecordedPos(m, newPos, k, d) = A!KidPos(m, k, d)
      BY <2>1, <3>1 DEF A!RecordedPos
    <3>4. A!KidPos(r, k, d) = A!KidPos(m, k, d)
      BY <1>5, <2>3, <3>3
    <3>5. A!Pos(r, c) = A!Pos(m, c)
      BY <1>5, <2>3, <3>1
    <3> QED BY <1>2, <2>1, <2>3, <3>2, <3>4, <3>5
  <2> QED BY <2>5, <2>6
<1>7. ASSUME NEW k \in S[root] PROVE S[k] \subseteq S[root] /\ Sound(r, S, k)
  <2>1. /\ S[k] \subseteq S[root] /\ Shape(m, S, k) /\ A!Height(m, k) = RightHeight(m, k) /\ Even(m, k)
        /\ \A i \in S[k] : S[i] \subseteq S[k]
    BY DEF Tree, Sound
  <2>2. \A d \in A!Sides : LinkOK(r, k, d)
    BY <1>5, <1>6 DEF LinkOK
  <2>3. Shape(r, S, k)
    <3>1. {S[A!Kid(r, k, d)] : d \in A!Sides} = {S[A!Kid(m, k, d)] : d \in A!Sides}
      BY <1>5
    <3> QED BY <1>2, <1>5, <2>1, <2>2, <3>1 DEF Shape
  <2>4. A!Height(r, k) = RightHeight(r, k)
    BY <1>5, <2>1 DEF RightHeight, A!Sides
  <2>5. Even(r, k)
    <3>1. \A d \in A!Sides : A!Heavier(r, k, d) = A!Heavier(m, k, d)
      BY <1>5, OtherSide DEF A!Heavier
    <3> QED BY <2>1, <3>1 DEF Even
  <2>6. Known(r, k)
    BY <1>2 DEF Known
  <2> QED BY <2>1, <2>3, <2>4, <2>5, <2>6 DEF Sound
<1>8. Tree(r, S, root)
  BY <1>7 DEF Tree
<1>9. A!Pos(r, root) = A!NewRootPos(m, newPos, root)
  <2>1. root \in DOMAIN m.n
    BY DEF Tree, Sound, Shape
  <2> QED BY <1>5, <2>1 DEF A!NewRootPos
<1> QED BY <1>1, <1>4, <1>5, <1>6, <1>8, <1>9
=============================================================================

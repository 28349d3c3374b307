--------------------------- MODULE SeedORAMProofs ---------------------------
(***************************************************************************)
(* Proofs about CountedSetup, SeedORAM and StashORAM, for every bucket     *)
(* tree, every set of nodes and every sequence of searches.                *)
(*                                                                         *)
(* Setup: its invariant adds to NodesPlacedOnce that the buckets the inner *)
(* loop has left behind are full while the leaf has nodes to place.        *)
(* Searches: the invariant says where the one copy of every node is, and   *)
(* that the buckets read and not written back are those of the scheduled   *)
(* paths at the levels still to come.                                      *)
(***************************************************************************)
EXTENDS MCOrams, FiniteSetTheorems, WellFoundedInduction, TLAPS

N == Cardinality(Nodes)

SetupType ==
  /\ store \in [Buckets -> [Nodes -> Leaves \cup {None}]]
  /\ cache \in [Nodes -> Leaves \cup {None}]
  /\ pos \in [Nodes -> Leaves] /\ nodes \in Orders /\ Sorted(nodes, pos)
  /\ i \in 1 .. N + 1 /\ d \in -1 .. depth /\ cannotInsert \in BOOLEAN
  /\ Nodes # {} => curPos \in Leaves

HeldBounded == \A b \in Buckets : Cardinality(Held(b)) <= Z

Filled ==
  \A x \in Nodes, e \in 0 .. depth :
    store[OnPath(pos[x], e)][x] # None => \A f \in e + 1 .. depth : Room(OnPath(pos[x], f)) = 0

\* The leaf being placed has nodes left only if the buckets tried are full.
BelowFull ==
  ~setupDone /\ pos[nodes[i]] = curPos => \A f \in d + 1 .. depth : Room(OnPath(curPos, f)) = 0

SetupInv == SetupType /\ PlacedOnce /\ HeldBounded /\ Filled /\ BelowFull
-----------------------------------------------------------------------------
(***************************************************************************)
(* Numbers: the least of a set, remainders.                                *)
(***************************************************************************)
Less == {p \in Nat \X Nat : p[1] < p[2]}

LEMMA LeastNatural ==
  ASSUME NEW S, S \subseteq Nat, S # {}
  PROVE  \E n \in S : \A m \in S : n <= m
<1>1. IsWellFoundedOn(Less, Nat)
  BY NatLessThanWellFounded DEF OpToRel, Less
<1>2. PICK n \in S : \A m \in S : ~ (<<m, n>> \in Less)
  BY <1>1, WFMin
<1>3. \A m, l \in Nat : m < l => <<m, l>> \in Less
  BY DEF Less
<1>4. ASSUME NEW m \in S PROVE n <= m
  <2>1. ~ (m < n) /\ m \in Nat /\ n \in Nat
    BY <1>2, <1>3
  <2> QED BY <2>1
<1> QED BY <1>4

LEMMA QuotientIsUnique ==
  ASSUME NEW L \in Nat \ {0}, NEW q \in Int, NEW r \in 0 .. L - 1, NEW p \in Int,
         NEW s \in 0 .. L - 1, L * q + r = L * p + s
  PROVE  r = s
BY SMTT(30)

\* Adding a multiple of the divisor does not change the remainder.
LEMMA RemainderOfSum ==
  ASSUME NEW x \in Nat, NEW k \in Nat, NEW L \in Nat \ {0}
  PROVE  (x + k * L) % L = x % L /\ x % L \in 0 .. L - 1
<1> DEFINE y == x + k * L
<1>1. y \in Nat
  OBVIOUS
<1>2. x = L * (x \div L) + (x % L) /\ x % L \in 0 .. L - 1 /\ x \div L \in Int
  BY SMTT(30)
<1>3. y = L * (y \div L) + (y % L) /\ y % L \in 0 .. L - 1 /\ y \div L \in Int
  <2> HIDE DEF y
  <2> QED BY <1>1, SMTT(30)
<1>4. y = L * ((x \div L) + k) + (x % L)
  <2> DEFINE q == x \div L  r == x % L
  <2>1. q \in Int /\ r \in Int /\ x = L * q + r
    BY <1>2
  <2> HIDE DEF q, r
  <2>2. y = L * (q + k) + r
    BY <2>1, SMTT(30)
  <2> QED BY <2>2 DEF q, r
<1>5. L * (y \div L) + (y % L) = L * ((x \div L) + k) + (x % L)
  BY <1>3, <1>4
<1>6. y % L = x % L
  <2> DEFINE q == y \div L  p == (x \div L) + k  r == y % L  s == x % L
  <2>1. q \in Int /\ p \in Int /\ r \in 0 .. L - 1 /\ s \in 0 .. L - 1 /\ L * q + r = L * p + s
    BY <1>2, <1>3, <1>5
  <2> HIDE DEF q, p, r, s
  <2>2. r = s
    BY <2>1, QuotientIsUnique
  <2> QED BY <2>2 DEF r, s
<1> QED BY <1>2, <1>6
-----------------------------------------------------------------------------
(***************************************************************************)
(* Setup.                                                                  *)
(***************************************************************************)
LEMMA OrderFacts ==
  ASSUME NEW s \in Orders
  PROVE  /\ N \in Nat /\ DOMAIN s = 1 .. N /\ Len(s) = N
         /\ \A j \in 1 .. N : s[j] \in Nodes
         /\ \A j, k \in 1 .. N : s[j] = s[k] => j = k
         /\ \A x \in Nodes : \E j \in 1 .. N : s[j] = x
<1>1. N \in Nat /\ IsFiniteSet(Nodes)
  BY CountedSetupAssumption, FS_CardinalityType DEF N
<1>2. s \in [1 .. N -> Nodes] /\ \A j, k \in 1 .. N : s[j] = s[k] => j = k
  BY DEF Orders, N
<1>3. s \in Injection(1 .. N, Nodes)
  BY <1>2 DEF Injection, IsInjective
<1>4. Cardinality(1 .. N) = N
  BY <1>1, FS_Interval
<1>5. s \in Surjection(1 .. N, Nodes)
  BY <1>1, <1>3, <1>4, FS_Injection DEF N
<1>6. \A x \in Nodes : \E j \in 1 .. N : s[j] = x
  BY <1>5 DEF Surjection
<1>7. DOMAIN s = 1 .. N /\ Len(s) = N
  BY <1>1, <1>2
<1> QED BY <1>1, <1>2, <1>6, <1>7

LEMMA RoomIs ==
  ASSUME HeldBounded, NEW b \in Buckets
  PROVE  /\ IsFiniteSet(Held(b)) /\ Room(b) \in 0 .. Z
         /\ Cardinality(Held(b)) \in Nat /\ Room(b) = Z - Cardinality(Held(b))
<1>1. IsFiniteSet(Held(b))
  BY CountedSetupAssumption, FS_Subset DEF Held
<1>2. Cardinality(Held(b)) \in Nat /\ Cardinality(Held(b)) <= Z
  BY <1>1, FS_CardinalityType DEF HeldBounded
<1> QED BY <1>1, <1>2, CountedSetupAssumption DEF Room

\* The nodes a bucket takes are the next ones of the leaf; if any of the leaf
\* are left then the bucket is full.
LEMMA TakenIs ==
  ASSUME SetupType, HeldBounded, InLoop, NEW b \in Buckets
  PROVE  /\ Taken(b) \in 0 .. Room(b) /\ i + Taken(b) \in i .. N + 1
         /\ \A j \in i .. i + Taken(b) - 1 : j \in 1 .. N /\ pos[nodes[j]] = curPos
         /\ Taken(b) = Room(b) \/ i + Taken(b) = N + 1 \/ pos[nodes[i + Taken(b)]] # curPos
<1> DEFINE r == Room(b)
           S == {j \in i .. N : j < i + r /\ pos[nodes[j]] = curPos}
           T == {j \in i .. N + 1 : j \notin S}
<1>1. /\ N \in Nat /\ i \in 1 .. N /\ r \in Nat /\ pos[nodes[i]] = curPos
      /\ Len(nodes) = N /\ DOMAIN nodes = 1 .. N /\ \A j \in 1 .. N : pos[nodes[j]] \in Nat
  <2>1. /\ N \in Nat /\ Len(nodes) = N /\ DOMAIN nodes = 1 .. N
        /\ \A j \in 1 .. N : nodes[j] \in Nodes
    BY OrderFacts DEF SetupType
  <2>2. \A x \in Nodes : pos[x] \in Nat
    BY CountedSetupAssumption DEF SetupType
  <2>3. r \in Nat
    BY RoomIs, CountedSetupAssumption
  <2> QED BY <2>1, <2>2, <2>3 DEF SetupType, InLoop, setupDone
<1>2. T \subseteq Nat /\ N + 1 \in T
  BY <1>1
<1>3. PICK m \in T : \A j \in T : m <= j
  BY <1>2, LeastNatural
<1>4. m \in i .. N + 1 /\ m \notin S /\ \A j \in i .. m - 1 : j \in S
  BY <1>1, <1>3
<1>5. \A j, k \in 1 .. N : j < k => pos[nodes[j]] <= pos[nodes[k]]
  BY <1>1 DEF SetupType, Sorted
<1>6. ASSUME NEW j \in S PROVE j \in i .. m - 1
  <2>1. CASE j >= m
    <3>1. m \in 1 .. N /\ m < i + r /\ pos[nodes[m]] # curPos
      BY <1>1, <1>4, <2>1
    <3>2. m # i /\ m # j
      BY <1>1, <1>6, <3>1
    <3>3. pos[nodes[i]] <= pos[nodes[m]] /\ pos[nodes[m]] <= pos[nodes[j]]
      BY <1>1, <1>4, <1>5, <1>6, <2>1, <3>1, <3>2
    <3>4. pos[nodes[i]] = curPos /\ pos[nodes[j]] = curPos /\ pos[nodes[m]] \in Nat /\ curPos \in Nat
      BY <1>1, <1>6, <3>1
    <3> QED BY <3>1, <3>3, <3>4
  <2>2. CASE j < m
    BY <1>1, <2>2
  <2> QED BY <1>1, <1>4, <2>1, <2>2
<1>7. S = i .. m - 1
  BY <1>4, <1>6
<1>8. Taken(b) = Cardinality(S)
  BY <1>1 DEF Taken
<1>9. Cardinality(S) = m - i
  <2>1. i \in Int /\ m - 1 \in Int /\ m >= i /\ m \in Int
    BY <1>1, <1>4
  <2>2. Cardinality(i .. m - 1) = IF i > m - 1 THEN 0 ELSE m - 1 - i + 1
    BY <2>1, FS_Interval
  <2> HIDE DEF S
  <2> QED BY <1>7, <2>1, <2>2
<1>10. m <= i + r
  <2> SUFFICES ASSUME m > i + r PROVE FALSE
    BY <1>1, <1>4
  <2>1. i + r \in i .. m - 1
    BY <1>1, <1>4
  <2>2. i + r \in S
    BY <1>4, <2>1
  <2> QED BY <1>1, <2>2
<1>11. Taken(b) \in 0 .. r /\ i + Taken(b) = m
  BY <1>1, <1>4, <1>8, <1>9, <1>10
<1>12. \A j \in i .. m - 1 : j \in 1 .. N /\ pos[nodes[j]] = curPos
  BY <1>1, <1>4, <1>7
<1>13. m = i + r \/ m = N + 1 \/ pos[nodes[m]] # curPos
  BY <1>1, <1>4, <1>10
<1> QED BY <1>1, <1>4, <1>11, <1>12, <1>13

LEMMA SetupInitInv ==
  ASSUME NEW positions, NEW orders, positions \subseteq [Nodes -> Leaves], orders \subseteq Orders,
         SetupInit(positions, orders)
  PROVE  SetupInv
<1>1. /\ pos \in [Nodes -> Leaves] /\ nodes \in Orders /\ i = 1 /\ d = depth /\ cannotInsert = FALSE
      /\ N \in Nat /\ DOMAIN nodes = 1 .. N /\ Len(nodes) = N /\ \A j \in 1 .. N : nodes[j] \in Nodes
      /\ \A x \in Nodes : \E j \in 1 .. N : nodes[j] = x
      /\ depth \in Nat
  BY OrderFacts, CountedSetupAssumption DEF SetupInit
<1>2. Nodes # {} => curPos \in Leaves
  BY <1>1 DEF SetupInit
<1>3. SetupType
  <2>1. Sorted(nodes, pos) /\ N + 1 \in Nat
    BY <1>1 DEF SetupInit
  <2>2. store \in [Buckets -> [Nodes -> Leaves \cup {None}]] /\ cache \in [Nodes -> Leaves \cup {None}]
    BY DEF SetupInit
  <2>3. i \in 1 .. N + 1 /\ d \in -1 .. depth
    BY <1>1
  <2>4. cannotInsert \in BOOLEAN
    BY <1>1, Zenon
  <2> QED BY <1>1, <1>2, <2>1, <2>2, <2>3, <2>4 DEF SetupType
<1>4. \A b \in Buckets, x \in Nodes : store[b][x] = None
  BY DEF SetupInit
<1>5. PlacedOnce
  BY <1>1, <1>4 DEF SetupInit, PlacedOnce, CopiesOf
<1>6. HeldBounded
  <2>1. \A b \in Buckets : Held(b) = {}
    BY <1>4 DEF Held
  <2> QED BY <2>1, FS_EmptySet, CountedSetupAssumption DEF HeldBounded
<1>7. Filled
  BY <1>1, <1>4, CountedSetupAssumption DEF Filled
<1>8. BelowFull
  BY <1>1 DEF BelowFull
<1> QED BY <1>3, <1>5, <1>6, <1>7, <1>8 DEF SetupInv

\* What a pass over a bucket adds to it.
LEMMA FilledBucket ==
  ASSUME SetupInv, FillBucket
  PROVE  LET b == OnPath(curPos, d)
             k == Taken(b)
             new == {nodes[j] : j \in i .. i + k - 1}
         IN  /\ b \in Buckets /\ k \in Nat /\ new \subseteq Nodes /\ d \in 0 .. depth
             /\ \A c \in Buckets, x \in Nodes :
                  store'[c][x] = IF c = b /\ x \in new THEN pos[x] ELSE store[c][x]
             /\ \A x \in new : pos[x] = curPos
             /\ \A c \in Buckets : Held(c)' = IF c = b THEN Held(b) \cup new ELSE Held(c)
             /\ \A c \in Buckets : Room(c)' = IF c = b THEN Room(b) - k ELSE Room(c)
             /\ k <= Room(b)
<1> DEFINE b == OnPath(curPos, d)
           k == Taken(b)
           new == {nodes[j] : j \in i .. i + k - 1}
<1>1. /\ N \in Nat /\ DOMAIN nodes = 1 .. N /\ Len(nodes) = N
      /\ \A j \in 1 .. N : nodes[j] \in Nodes
      /\ \A j, l \in 1 .. N : nodes[j] = nodes[l] => j = l
  BY OrderFacts DEF SetupInv, SetupType
<1>2. InLoop /\ i \in 1 .. N /\ d \in 0 .. depth /\ curPos \in Leaves
  BY <1>1, CountedSetupAssumption DEF FillBucket, InLoop, setupDone, SetupInv, SetupType
<1>3. b \in Buckets
  BY <1>2, CountedSetupAssumption
<1>4. /\ k \in 0 .. Room(b) /\ i + k \in i .. N + 1 /\ Room(b) \in 0 .. Z
      /\ \A j \in i .. i + k - 1 : j \in 1 .. N /\ pos[nodes[j]] = curPos
  BY <1>2, <1>3, TakenIs, RoomIs DEF SetupInv
<1>5. new \subseteq Nodes /\ \A x \in new : pos[x] = curPos
  BY <1>1, <1>4
<1>6. \A c \in Buckets, x \in Nodes :
        store'[c][x] = IF c = b /\ x \in new THEN pos[x] ELSE store[c][x]
  <2>1. store' = [store EXCEPT ![b] = [x \in Nodes |->
                    IF \E j \in i .. i + k - 1 : nodes[j] = x THEN pos[x] ELSE store[b][x]]]
    BY DEF FillBucket
  <2>2. \A x : (\E j \in i .. i + k - 1 : nodes[j] = x) <=> x \in new
    OBVIOUS
  <2>3. store \in [Buckets -> [Nodes -> Leaves \cup {None}]]
    BY DEF SetupInv, SetupType
  <2> HIDE DEF new, k, b
  <2> QED BY <1>3, <2>1, <2>2, <2>3
<1>7. \A x \in new : pos[x] # None /\ \A c \in Buckets : store[c][x] = None
  <2> SUFFICES ASSUME NEW j \in i .. i + k - 1
               PROVE  pos[nodes[j]] # None /\ \A c \in Buckets : store[c][nodes[j]] = None
    OBVIOUS
  <2>1. j \in 1 .. N /\ j >= i /\ pos[nodes[j]] \in Leaves
    BY <1>1, <1>2, <1>4
  <2>2. CopiesOf(nodes[j]) = {}
    BY <1>1, <2>1 DEF SetupInv, PlacedOnce
  <2> QED BY <2>1, <2>2, CountedSetupAssumption DEF CopiesOf
<1>8. \A c \in Buckets : Held(c)' = IF c = b THEN Held(b) \cup new ELSE Held(c)
  <2> HIDE DEF new, b
  <2> QED BY <1>3, <1>5, <1>6, <1>7 DEF Held
<1>9. IsFiniteSet(new) /\ Cardinality(new) = k
  <2> DEFINE I == i .. i + k - 1
             f == [j \in I |-> nodes[j]]
  <2>1. f \in Bijection(I, new)
    <3>1. \A j \in I : f[j] \in new /\ j \in 1 .. N
      BY <1>4
    <3>2. \A j, l \in I : f[j] = f[l] => j = l
      BY <1>1, <3>1
    <3>3. \A x \in new : \E j \in I : f[j] = x
      OBVIOUS
    <3>4. f \in [I -> new]
      BY <3>1
    <3> HIDE DEF f, I, new
    <3> QED BY <3>2, <3>3, <3>4 DEF Bijection, Injection, Surjection, IsInjective
  <2>2. IsFiniteSet(I) /\ Cardinality(I) = k
    <3> DEFINE a == i + k - 1
    <3>1. i \in Int /\ a \in Int /\ k \in Nat /\ a - i + 1 = k /\ (i > a => k = 0)
      BY <1>2, <1>4
    <3> HIDE DEF a
    <3>2. IsFiniteSet(i .. a) /\ Cardinality(i .. a) = IF i > a THEN 0 ELSE a - i + 1
      BY <3>1, FS_Interval
    <3>3. IsFiniteSet(i .. a) /\ Cardinality(i .. a) = k
      BY <3>1, <3>2
    <3> QED BY <3>3 DEF a
  <2> HIDE DEF f, I, new
  <2>3. ExistsBijection(I, new)
    BY <2>1 DEF ExistsBijection
  <2> QED BY <2>2, <2>3, FS_Bijection
<1>10. ASSUME NEW c \in Buckets, c = b PROVE Room(c)' = Room(b) - k
  <2>1. IsFiniteSet(Held(b)) /\ Cardinality(Held(b)) \in Nat /\ Room(b) = Z - Cardinality(Held(b))
    BY <1>3, RoomIs DEF SetupInv
  <2>2. Held(b) \cap new = {}
    BY <1>3, <1>7 DEF Held
  <2>3. Cardinality(Held(b) \cup new) = Cardinality(Held(b)) + k
    <3> DEFINE h == Held(b)
    <3>1. IsFiniteSet(h) /\ IsFiniteSet(new) /\ Cardinality(h) \in Nat /\ Cardinality(new) = k /\ h \cap new = {} /\ k \in Nat
      BY <1>4, <1>9, <2>1, <2>2
    <3> HIDE DEF new, k, b, h
    <3>2. Cardinality(h \cup new) = Cardinality(h) + Cardinality(new) - Cardinality(h \cap new)
      BY <3>1, FS_Union
    <3>3. Cardinality(h \cap new) = 0
      BY <3>1, FS_EmptySet
    <3>4. Cardinality(h \cup new) = Cardinality(h) + k
      BY <3>1, <3>2, <3>3
    <3> QED BY <3>4 DEF h
  <2>4. Room(c)' = Z - Cardinality(Held(b) \cup new)
    <3>1. Held(c)' = Held(b) \cup new
      BY <1>8, <1>10
    <3> HIDE DEF new, k
    <3> QED BY <3>1 DEF Room
  <2>5. k \in Int /\ Cardinality(Held(b)) \in Int /\ Z \in Int
    BY <1>4, <2>1, CountedSetupAssumption
  <2> HIDE DEF new, k, b
  <2> QED BY <2>1, <2>3, <2>4, <2>5
<1>11. \A c \in Buckets : Room(c)' = IF c = b THEN Room(b) - k ELSE Room(c)
  <2> SUFFICES ASSUME NEW c \in Buckets
               PROVE  Room(c)' = IF c = b THEN Room(b) - k ELSE Room(c)
    OBVIOUS
  <2>1. CASE c = b
    BY <1>10, <2>1
  <2>2. CASE c # b
    <3>1. Held(c)' = Held(c)
      BY <1>8, <2>2
    <3>2. Room(c)' = Room(c)
      BY <3>1 DEF Room
    <3> HIDE DEF b, k
    <3> QED BY <2>2, <3>2
  <2> QED BY <2>1, <2>2
<1> HIDE DEF new, k, b
<1> QED BY <1>2, <1>3, <1>4, <1>5, <1>6, <1>8, <1>11 DEF new, k, b

LEMMA FillBucketInv ==
  ASSUME SetupInv, FillBucket
  PROVE  SetupInv'
<1> DEFINE b == OnPath(curPos, d)
           k == Taken(b)
           new == {nodes[j] : j \in i .. i + k - 1}
<1>1. /\ b \in Buckets /\ k \in Nat /\ new \subseteq Nodes /\ d \in 0 .. depth
      /\ \A c \in Buckets, x \in Nodes :
           store'[c][x] = IF c = b /\ x \in new THEN pos[x] ELSE store[c][x]
      /\ \A x \in new : pos[x] = curPos
      /\ \A c \in Buckets : Held(c)' = IF c = b THEN Held(b) \cup new ELSE Held(c)
      /\ \A c \in Buckets : Room(c)' = IF c = b THEN Room(b) - k ELSE Room(c)
      /\ k <= Room(b)
  BY FilledBucket
<1>2. /\ N \in Nat /\ DOMAIN nodes = 1 .. N /\ Len(nodes) = N
      /\ \A j \in 1 .. N : nodes[j] \in Nodes
      /\ \A j, l \in 1 .. N : nodes[j] = nodes[l] => j = l
      /\ \A x \in Nodes : \E j \in 1 .. N : nodes[j] = x
  BY OrderFacts DEF SetupInv, SetupType
<1>3. /\ InLoop /\ i \in 1 .. N /\ curPos \in Leaves /\ pos[nodes[i]] = curPos /\ ~setupDone
      /\ \A x \in Nodes : pos[x] \in Leaves /\ pos[x] # None
  BY <1>2, CountedSetupAssumption DEF FillBucket, InLoop, setupDone, SetupInv, SetupType
<1>4. /\ i' = i + k /\ d' = d - 1 /\ cannotInsert' = (cannotInsert \/ Full(b))
      /\ cache' = cache /\ nodes' = nodes /\ pos' = pos /\ curPos' = curPos
  BY DEF FillBucket
<1>5. /\ i + k \in i .. N + 1
      /\ \A j \in i .. i + k - 1 : j \in 1 .. N /\ pos[nodes[j]] = curPos
      /\ k = Room(b) \/ i + k = N + 1 \/ pos[nodes[i + k]] # curPos
  BY <1>1, <1>3, TakenIs DEF SetupInv
<1>6. \A c \in Buckets : Room(c) \in 0 .. Z /\ (Room(c) = 0 => Room(c)' = 0)
  <2>1. \A c \in Buckets : Room(c) \in 0 .. Z
    BY RoomIs DEF SetupInv
  <2> HIDE DEF b, k
  <2> QED BY <1>1, <2>1
<1>7. \A j \in 1 .. N : nodes[j] \in new <=> j \in i .. i + k - 1
  BY <1>2, <1>5
<1>8. \A x \in Nodes : x \notin new => CopiesOf(x)' = CopiesOf(x)
  <2> HIDE DEF b, new
  <2> QED BY <1>1 DEF CopiesOf
<1>9. \A x \in new : CopiesOf(x) = {} /\ CopiesOf(x)' = {b} /\ cache[x] = None /\ store'[b][x] = pos[x]
  <2> SUFFICES ASSUME NEW x \in new
               PROVE  CopiesOf(x) = {} /\ CopiesOf(x)' = {b} /\ cache[x] = None /\ store'[b][x] = pos[x]
    OBVIOUS
  <2>1. PICK j \in 1 .. N : nodes[j] = x /\ j >= i
    BY <1>3, <1>5
  <2>2. CopiesOf(x) = {} /\ cache[x] = None
    BY <1>2, <2>1 DEF SetupInv, PlacedOnce
  <2>3. x \in Nodes /\ pos[x] # None
    BY <1>1, <1>3
  <2> HIDE DEF b, new
  <2>4. store'[b][x] = pos[x] /\ \A c \in Buckets : c # b => store'[c][x] = None
    BY <1>1, <2>2, <2>3 DEF CopiesOf
  <2>5. CopiesOf(x)' = {b}
    BY <1>1, <2>3, <2>4 DEF CopiesOf
  <2> QED BY <2>2, <2>4, <2>5
<1>10. SetupType'
  <2>1. store' \in [Buckets -> [Nodes -> Leaves \cup {None}]]
    <3> DEFINE row == [x \in Nodes |->
                 IF \E j \in i .. i + Taken(b) - 1 : nodes[j] = x THEN pos[x] ELSE store[b][x]]
    <3>1. store' = [store EXCEPT ![b] = row]
      BY DEF FillBucket
    <3>2. row \in [Nodes -> Leaves \cup {None}]
      BY <1>1, <1>3 DEF SetupInv, SetupType
    <3>3. store \in [Buckets -> [Nodes -> Leaves \cup {None}]]
      BY DEF SetupInv, SetupType
    <3> HIDE DEF row, b
    <3> QED BY <3>1, <3>2, <3>3
  <2>2. cannotInsert' \in BOOLEAN
    BY <1>4, Zenon DEF SetupInv, SetupType
  <2>3. i' \in 1 .. N + 1 /\ d' \in -1 .. depth
    BY <1>1, <1>2, <1>3, <1>4, <1>5, CountedSetupAssumption
  <2>4. (Sorted(nodes, pos))'
    BY <1>4 DEF SetupInv, SetupType, Sorted
  <2> QED BY <1>3, <1>4, <2>1, <2>2, <2>3, <2>4 DEF SetupInv, SetupType
<1>11. PlacedOnce'
  <2> SUFFICES ASSUME NEW j \in 1 .. N, NEW x \in Nodes, x = nodes[j]
               PROVE  IF j >= i + k THEN CopiesOf(x)' = {} /\ cache[x] = None
                      ELSE \/ cache[x] = pos[x] /\ CopiesOf(x)' = {}
                           \/ /\ cache[x] = None
                              /\ \E c \in Path(pos[x]) : CopiesOf(x)' = {c} /\ store'[c][x] = pos[x]
    BY <1>2, <1>4 DEF PlacedOnce, CopiesOf, Path
  <2>1. IF j >= i THEN CopiesOf(x) = {} /\ cache[x] = None
        ELSE \/ cache[x] = pos[x] /\ CopiesOf(x) = {}
             \/ /\ cache[x] = None
                /\ \E c \in Path(pos[x]) : CopiesOf(x) = {c} /\ store[c][x] = pos[x]
    BY <1>2 DEF SetupInv, PlacedOnce
  <2>2. CASE j \in i .. i + k - 1
    <3>1. x \in new
      BY <1>7, <2>2
    <3>2. b \in Path(pos[x])
      BY <1>1, <3>1 DEF Path
    <3>3. ~(j >= i + k)
      BY <1>1, <1>3, <2>2
    <3> HIDE DEF b, k, new
    <3> QED BY <1>9, <3>1, <3>2, <3>3
  <2>3. CASE j \notin i .. i + k - 1
    <3>1. x \notin new
      BY <1>7, <2>3
    <3>2. CopiesOf(x)' = CopiesOf(x)
      BY <1>8, <3>1
    <3>3. \A c \in Path(pos[x]) : store'[c][x] = store[c][x]
      <4>0. pos[x] \in Leaves
        BY <1>3
      <4>1. Path(pos[x]) \subseteq Buckets
        BY <4>0, CountedSetupAssumption DEF Path
      <4> HIDE DEF b, new
      <4> QED BY <1>1, <3>1, <4>1
    <3>4. (j >= i + k => j >= i) /\ (~(j >= i + k) => ~(j >= i))
      BY <1>1, <1>3, <2>3
    <3> HIDE DEF k
    <3>5. IF j >= i + k THEN CopiesOf(x)' = {} /\ cache[x] = None
          ELSE \/ cache[x] = pos[x] /\ CopiesOf(x)' = {}
               \/ /\ cache[x] = None
                  /\ \E c \in Path(pos[x]) : CopiesOf(x)' = {c} /\ store'[c][x] = pos[x]
      BY <2>1, <3>2, <3>3, <3>4
    <3> QED BY <3>5 DEF k
  <2> QED BY <2>2, <2>3
<1>12. HeldBounded'
  <2> SUFFICES ASSUME NEW c \in Buckets PROVE Cardinality(Held(c)') <= Z
    BY DEF HeldBounded
  <2>1. Room(c)' \in 0 .. Z
    <3> HIDE DEF b, k
    <3> QED BY <1>1, <1>6, CountedSetupAssumption
  <2>2. Room(c)' = Z - Cardinality(Held(c)')
    BY DEF Room
  <2>3. Held(c)' \subseteq Nodes
    BY DEF Held
  <2>4. Cardinality(Held(c)') \in Nat
    BY <2>3, CountedSetupAssumption, FS_Subset, FS_CardinalityType
  <2> QED BY <2>1, <2>2, <2>4, CountedSetupAssumption
<1>13. Filled'
  <2> SUFFICES ASSUME NEW x \in Nodes, NEW e \in 0 .. depth, store'[OnPath(pos[x], e)][x] # None,
                      NEW f \in e + 1 .. depth
               PROVE  Room(OnPath(pos[x], f))' = 0
    BY <1>4 DEF Filled
  <2>0. pos[x] \in Leaves /\ f \in 0 .. depth
    BY <1>3, CountedSetupAssumption
  <2>1. OnPath(pos[x], e) \in Buckets /\ OnPath(pos[x], f) \in Buckets
    BY <2>0, CountedSetupAssumption
  <2>2. CASE x \notin new
    <3>1. store[OnPath(pos[x], e)][x] # None
      <4> HIDE DEF new, b
      <4> QED BY <1>1, <2>1, <2>2
    <3>2. Room(OnPath(pos[x], f)) = 0
      BY <3>1 DEF SetupInv, Filled
    <3>3. \A c \in Buckets : Room(c)' = Room(c)' /\ (Room(c) = 0 => Room(c)' = 0)
      BY <1>6
    <3>4. pos' = pos
      BY <1>4
    <3> QED BY <2>1, <3>2, <3>3, <3>4 DEF Room, Held
  <2>3. CASE x \in new
    <3>1. pos[x] = curPos /\ CopiesOf(x)' = {b}
      BY <1>1, <1>9, <2>3
    <3>2. OnPath(pos[x], e) = b
      BY <2>1, <3>1 DEF CopiesOf
    <3>3. e = d
      BY <1>1, <1>3, <3>1, <3>2, CountedSetupAssumption
    <3>4. Room(OnPath(curPos, f)) = 0
      BY <1>3, <3>3 DEF SetupInv, BelowFull
    <3> QED BY <1>4, <1>6, <2>1, <3>1, <3>4 DEF Room, Held
  <2> QED BY <2>2, <2>3
<1>14. BelowFull'
  <2> SUFFICES ASSUME ~(i + k > N), pos[nodes[i + k]] = curPos, NEW f \in d .. depth
               PROVE  Room(OnPath(curPos, f))' = 0
    <3>1. \A f \in (d - 1) + 1 .. depth : f \in d .. depth
      BY <1>1
    <3>2. setupDone' <=> i + k > N
      BY <1>2, <1>4 DEF setupDone
    <3> QED BY <1>4, <3>1, <3>2 DEF BelowFull
  <2>1. k = Room(b)
    BY <1>1, <1>2, <1>3, <1>5
  <2>2. OnPath(curPos, f) \in Buckets /\ f \in 0 .. depth
    BY <1>1, <1>3, CountedSetupAssumption
  <2>3. CASE f = d
    <3>1. \A c \in Buckets : c = b => Room(c)' = 0
      BY <1>1, <2>1
    <3> QED BY <1>4, <2>2, <2>3, <3>1 DEF Room, Held
  <2>4. CASE f # d
    <3>1. Room(OnPath(curPos, f)) = 0
      BY <1>1, <1>3, <2>4 DEF SetupInv, BelowFull
    <3> QED BY <1>4, <1>6, <2>2, <3>1 DEF Room, Held
  <2> QED BY <2>3, <2>4
<1> QED BY <1>10, <1>11, <1>12, <1>13, <1>14 DEF SetupInv

LEMMA NextPassInv ==
  ASSUME SetupInv, NextPass
  PROVE  SetupInv'
<1>1. /\ N \in Nat /\ DOMAIN nodes = 1 .. N /\ Len(nodes) = N
      /\ \A j \in 1 .. N : nodes[j] \in Nodes
      /\ \A j, l \in 1 .. N : nodes[j] = nodes[l] => j = l
  BY OrderFacts DEF SetupInv, SetupType
<1>2. /\ i \in 1 .. N /\ store' = store /\ nodes' = nodes /\ pos' = pos /\ cannotInsert' = FALSE
      /\ d' = depth /\ cache' = ToCache /\ i' = IF cannotInsert THEN i + 1 ELSE i
      /\ curPos' = IF i' > N THEN curPos ELSE pos[nodes[i']]
  BY <1>1 DEF NextPass, setupDone, SetupInv, SetupType
<1>3. \A x \in Nodes : pos[x] \in Leaves /\ pos[x] # None
  BY CountedSetupAssumption DEF SetupInv, SetupType
<1>4. i' \in 1 .. N + 1
  BY <1>1, <1>2
<1>5. SetupType'
  <2>1. cannotInsert' \in BOOLEAN
    BY <1>2, Zenon
  <2>2. nodes[i] \in Nodes /\ pos[nodes[i]] \in Leaves
    BY <1>1, <1>2, <1>3
  <2>3. cache' \in [Nodes -> Leaves \cup {None}]
    BY <1>2, <2>2 DEF ToCache, SetupInv, SetupType
  <2>4. curPos' \in Leaves
    <3>1. curPos \in Leaves
      BY <2>2 DEF SetupInv, SetupType
    <3>2. ~(i' > N) => i' \in 1 .. N
      BY <1>1, <1>4
    <3> QED BY <1>1, <1>2, <1>3, <3>1, <3>2
  <2>5. d' \in -1 .. depth
    BY <1>2, CountedSetupAssumption
  <2>6. (Sorted(nodes, pos))'
    BY <1>2 DEF SetupInv, SetupType, Sorted
  <2> QED BY <1>2, <1>4, <2>1, <2>3, <2>4, <2>5, <2>6 DEF SetupInv, SetupType
<1>6. PlacedOnce'
  <2> SUFFICES ASSUME NEW j \in 1 .. N, NEW x \in Nodes, x = nodes[j]
               PROVE  IF j >= i' THEN CopiesOf(x) = {} /\ cache'[x] = None
                      ELSE \/ cache'[x] = pos[x] /\ CopiesOf(x) = {}
                           \/ /\ cache'[x] = None
                              /\ \E c \in Path(pos[x]) : CopiesOf(x) = {c} /\ store[c][x] = pos[x]
    BY <1>1, <1>2 DEF PlacedOnce, CopiesOf, Path
  <2>1. IF j >= i THEN CopiesOf(x) = {} /\ cache[x] = None
        ELSE \/ cache[x] = pos[x] /\ CopiesOf(x) = {}
             \/ /\ cache[x] = None
                /\ \E c \in Path(pos[x]) : CopiesOf(x) = {c} /\ store[c][x] = pos[x]
    BY <1>1 DEF SetupInv, PlacedOnce
  <2>2. CASE j = i /\ cannotInsert
    <3>1. cache'[x] = pos[x]
      BY <1>2, <2>2 DEF ToCache, SetupInv, SetupType
    <3>2. CopiesOf(x) = {} /\ ~(j >= i')
      BY <1>1, <1>2, <2>1, <2>2
    <3> QED BY <3>1, <3>2
  <2>3. CASE j # i \/ ~cannotInsert
    <3>1. cache'[x] = cache[x]
      BY <1>1, <1>2, <2>3 DEF ToCache, SetupInv, SetupType
    <3>2. j >= i' <=> j >= i
      BY <1>1, <1>2, <2>3
    <3> QED BY <2>1, <3>1, <3>2
  <2> QED BY <2>2, <2>3
<1>7. HeldBounded'
  BY <1>2 DEF HeldBounded, Held, SetupInv
<1>8. Filled'
  BY <1>2 DEF Filled, Held, Room, SetupInv
<1>9. BelowFull'
  BY <1>2, CountedSetupAssumption DEF BelowFull
<1> QED BY <1>5, <1>6, <1>7, <1>8, <1>9 DEF SetupInv

LEMMA SetupInvStutters ==
  ASSUME SetupInv, UNCHANGED <<placed, setupVars>>
  PROVE  SetupInv'
BY DEF placed, setupVars, SetupInv, SetupType, Sorted, PlacedOnce, CopiesOf, Path, HeldBounded, Held,
       Filled, Room, BelowFull, setupDone

\* Every node is placed once, on its path or in the cache, and the buckets
\* fill from the leaves up, whatever leaves are drawn (setupInsert).
THEOREM SetupPlacesEveryNode == SetupSpec => []NodesPlacedOnce
<1>1. SetupInit([Nodes -> Leaves], Orders) => SetupInv
  BY SetupInitInv
<1>2. SetupInv /\ [SetupStep]_<<placed, setupVars>> => SetupInv'
  BY FillBucketInv, NextPassInv, SetupInvStutters DEF SetupStep
<1>3. SetupInv => NodesPlacedOnce
  <2> SUFFICES ASSUME SetupInv PROVE FilledFromTheLeaves
    BY DEF NodesPlacedOnce, SetupInv
  <2> SUFFICES ASSUME NEW j \in DOMAIN nodes, NEW e \in 0 .. depth,
                      store[OnPath(pos[nodes[j]], e)][nodes[j]] # None
               PROVE  /\ Cardinality(Held(OnPath(pos[nodes[j]], e))) <= Z
                      /\ \A f \in e + 1 .. depth : Room(OnPath(pos[nodes[j]], f)) = 0
    BY DEF FilledFromTheLeaves
  <2>1. nodes[j] \in Nodes
    BY OrderFacts DEF SetupInv, SetupType
  <2>2. pos[nodes[j]] \in Leaves
    BY <2>1 DEF SetupInv, SetupType
  <2>3. OnPath(pos[nodes[j]], e) \in Buckets
    BY <2>2, CountedSetupAssumption
  <2> QED BY <2>1, <2>3 DEF SetupInv, HeldBounded, Filled
<1> QED BY <1>1, <1>2, <1>3, PTL DEF SetupSpec
-----------------------------------------------------------------------------
(***************************************************************************)
(* Searches: the inductive invariant.                                      *)
(***************************************************************************)
\* The leaf the client computes for x.
LeafOf(x) == RandomSeedPath(x[1], CountOf(x), x[2])

\* The only copy of x, in cache c or in a bucket of st but those in viewed,
\* has leaf l.
IsAt(c, st, viewed, x, l) ==
  \/ c[x] = l /\ \A b \in Buckets \ viewed : st[b][x] = None
  \/ /\ c[x] = None
     /\ \E b \in Path(l) \ viewed :
          st[b][x] = l /\ \A b2 \in Buckets \ viewed : st[b2][x] # None => b2 = b

Places == \A x \in Nodes : IsAt(cache, store, Pending, x, LeafOf(x))

\* The buckets scheduled at the levels up to n.
ScheduledTo(n) == {b \in Buckets : \E l \in leafList, e \in 0 .. n : b = OnPath(l, e)}

Counts ==
  /\ sc \in [Groups -> 0 .. leaves - 1] /\ cntr \in 0 .. leaves - 1
  /\ queue \in Seq(Groups) /\ next \in Nat
  /\ phase # "read" => queue = <<>>
  /\ queue = <<>> => next = 0
  /\ next > 0 => next <= Size[Head(queue)] /\ sc[Head(queue)] = (cntr + 1) % leaves

Views ==
  /\ leafList \in SUBSET Leaves /\ level \in -1 .. depth
  /\ phase \in {"setup", "idle", "read", "write"}
  /\ phase # "write" => level = depth
  /\ phase = "read" => writeviewmap = {}
  /\ phase \in {"setup", "idle"} => leafList = {}
  /\ phase \in {"read", "write"} => Pending = ScheduledTo(level) \ writeviewmap

CopiesType ==
  /\ store \in [Buckets -> [Nodes -> Leaves \cup {None}]]
  /\ cache \in [Nodes -> Leaves \cup {None}]

IInv ==
  /\ failed = FALSE /\ Counts /\ Views /\ CopiesType
  /\ IF phase = "setup"
     THEN SetupInv /\ pos = [x \in Nodes |-> RandomSeedPath(x[1], 0, x[2])] /\ sc = [g \in Groups |-> 0]
     ELSE Places
-----------------------------------------------------------------------------
LEMMA PathInBuckets == \A l \in Leaves : Path(l) \subseteq Buckets
BY CountedSetupAssumption DEF Path

LEMMA NodeFacts ==
  /\ \A x \in Nodes : x[1] \in Groups /\ x[2] \in 1 .. Size[x[1]] /\ x = <<x[1], x[2]>>
  /\ \A g \in Groups : \A n \in 1 .. Size[g] : <<g, n>> \in Nodes
  /\ \A g \in Groups : Size[g] \in Nat \ {0} /\ Sum[g] \in Nat
BY SeedORAMAssumption

\* The client's leaf is one of those it gives out, and depends on the counter
\* only modulo leaves.
LEMMA LeafFacts ==
  ASSUME NEW g \in Groups, NEW c \in Nat, NEW n \in Nat
  PROVE  /\ RandomSeedPath(g, c, n) \in Leaves /\ RandomSeedPath(g, c, n) # None
         /\ RandomSeedPath(g, c % leaves, n) = RandomSeedPath(g, c, n)
         /\ c % leaves \in 0 .. leaves - 1
<1>1. Sum[g] \in Nat /\ leaves \in Nat \ {0} /\ 0 .. leaves - 1 \subseteq Leaves
  BY SeedORAMAssumption
<1>2. c % leaves \in 0 .. leaves - 1 /\ c = leaves * (c \div leaves) + (c % leaves) /\ c \div leaves \in Nat
  BY <1>1, SMTT(30)
<1> DEFINE r == c % leaves
           q == c \div leaves
           x == Sum[g] + (r + 1) * 10001 + n * 9999
           k == q * 10001
<1>3. x \in Nat /\ k \in Nat
  BY <1>1, <1>2
<1>4. Sum[g] + (c + 1) * 10001 + n * 9999 = x + k * leaves
  <2>1. c = leaves * q + r /\ q \in Nat /\ r \in Nat /\ leaves \in Nat /\ Sum[g] \in Nat
    BY <1>1, <1>2
  <2> HIDE DEF q, r
  <2> QED BY <2>1, SMTT(30)
<1>5. (x + k * leaves) % leaves = x % leaves /\ x % leaves \in 0 .. leaves - 1
  <2> HIDE DEF x, k
  <2> QED BY <1>1, <1>3, RemainderOfSum
<1>6. RandomSeedPath(g, c, n) = x % leaves /\ RandomSeedPath(g, c % leaves, n) = x % leaves
  BY <1>4, <1>5 DEF RandomSeedPath
<1> HIDE DEF x, r
<1> QED BY <1>1, <1>2, <1>5, <1>6, CountedSetupAssumption DEF r

LEMMA LeafOfFacts ==
  ASSUME Counts, NEW x \in Nodes
  PROVE  CountOf(x) \in Nat /\ LeafOf(x) \in Leaves /\ LeafOf(x) # None
<1>1. x[1] \in Groups /\ x[2] \in Nat
  BY NodeFacts
<1>2. sc[x[1]] \in Nat /\ cntr \in Nat
  BY <1>1, SeedORAMAssumption DEF Counts
<1>3. CountOf(x) \in Nat
  BY <1>2 DEF CountOf
<1> QED BY <1>1, <1>3, LeafFacts DEF LeafOf

\* A path fetched keeps every node's only copy the one it was.
LEMMA FetchKeepsPlace ==
  ASSUME CopiesType, NEW l \in Leaves, NEW x \in Nodes, NEW n \in Leaves,
         IsAt(cache, store, readviewmap, x, n)
  PROVE  IsAt(FetchPath(l), store, readviewmap \cup Path(l), x, n)
<1> DEFINE f == FetchPath(l)
           viewed == readviewmap \cup Path(l)
<1>0. n # None /\ Path(l) \subseteq Buckets /\ Path(n) \subseteq Buckets
  BY CountedSetupAssumption, PathInBuckets
<1>1. CASE cache[x] # None
  <2>1. cache[x] = n /\ \A b \in Buckets \ readviewmap : store[b][x] = None
    BY <1>1 DEF IsAt
  <2>2. f[x] = n
    BY <1>1, <2>1 DEF FetchPath
  <2> QED BY <2>1, <2>2 DEF IsAt
<1>2. CASE cache[x] = None
  <2>1. PICK b \in Path(n) \ readviewmap :
          /\ store[b][x] = n
          /\ \A b2 \in Buckets \ readviewmap : store[b2][x] # None => b2 = b
    BY <1>0, <1>2 DEF IsAt
  <2>2. CASE b \in Path(l)
    <3>1. Fetched(l, x) = {b}
      BY <2>1, <2>2, <1>0 DEF Fetched
    <3>2. f[x] = n
      BY <1>2, <2>1, <3>1 DEF FetchPath
    <3>3. \A b2 \in Buckets \ viewed : store[b2][x] = None
      BY <2>1, <2>2
    <3> QED BY <3>2, <3>3 DEF IsAt
  <2>3. CASE b \notin Path(l)
    <3>1. Fetched(l, x) = {}
      BY <2>1, <2>3, <1>0 DEF Fetched
    <3>2. f[x] = None
      BY <1>2, <3>1 DEF FetchPath
    <3> QED BY <2>1, <2>3, <3>2 DEF IsAt
  <2> QED BY <2>2, <2>3
<1> QED BY <1>1, <1>2
-----------------------------------------------------------------------------
(***************************************************************************)
(* One lemma per action.                                                   *)
(***************************************************************************)
LEMMA InitInv == Init => IInv
<1> SUFFICES ASSUME Init PROVE IInv
  OBVIOUS
<1> DEFINE p == [x \in Nodes |-> RandomSeedPath(x[1], 0, x[2])]
<1>1. {p} \subseteq [Nodes -> Leaves]
  <2>1. ASSUME NEW x \in Nodes PROVE RandomSeedPath(x[1], 0, x[2]) \in Leaves
    <3>1. x[1] \in Groups /\ x[2] \in Nat /\ 0 \in Nat
      BY NodeFacts
    <3> QED BY <3>1, LeafFacts
  <2> QED BY <2>1
<1>2. SetupInit({p}, Orders)
  BY DEF Init
<1>3. SetupInv
  <2> HIDE DEF p
  <2> QED BY <1>1, <1>2, SetupInitInv
<1>4. pos = p
  BY <1>2 DEF SetupInit
<1>5. Counts
  BY SeedORAMAssumption DEF Init, Counts
<1>6. Views
  BY CountedSetupAssumption DEF Init, Views
<1>7. CopiesType
  BY <1>3 DEF CopiesType, SetupInv, SetupType
<1>8. failed = FALSE /\ phase = "setup" /\ sc = [g \in Groups |-> 0]
  BY DEF Init
<1> QED BY <1>3, <1>4, <1>5, <1>6, <1>7, <1>8 DEF IInv

LEMMA SetupStepInv ==
  ASSUME IInv, Setup
  PROVE  IInv'
<1>1. /\ SetupInv /\ phase = "setup" /\ SetupStep /\ Counts /\ Views /\ failed = FALSE
      /\ UNCHANGED <<sc, cntr, queue, next, phase, level, leafList, readviewmap, writeviewmap, failed>>
  BY DEF IInv, Setup, searchVars
<1>2. SetupInv'
  BY <1>1, FillBucketInv, NextPassInv DEF SetupStep
<1>3. pos' = pos
  BY <1>1 DEF SetupStep, FillBucket, NextPass
<1>4. CopiesType'
  BY <1>2 DEF CopiesType, SetupInv, SetupType
<1>5. Counts' /\ Views'
  BY <1>1 DEF Counts, Views, Pending, ScheduledTo
<1> QED BY <1>1, <1>2, <1>3, <1>4, <1>5 DEF IInv

\* When setup is done, a node is where its leaf says.
LEMMA PlacedBySetup ==
  ASSUME SetupInv, setupDone, NEW x \in Nodes
  PROVE  IsAt(cache, store, {}, x, pos[x])
<1>1. \/ cache[x] = pos[x] /\ CopiesOf(x) = {}
      \/ cache[x] = None /\ \E b \in Path(pos[x]) : CopiesOf(x) = {b} /\ store[b][x] = pos[x]
  <2>1. PICK j \in DOMAIN nodes : nodes[j] = x /\ ~(j >= i)
    BY OrderFacts DEF SetupInv, SetupType, setupDone
  <2>2. PlacedOnce
    BY DEF SetupInv
  <2> QED BY <2>1, <2>2 DEF PlacedOnce
<1>2. pos[x] # None /\ \A b \in Path(pos[x]) : b \in Buckets
  <2>1. pos[x] \in Leaves
    BY DEF SetupInv, SetupType
  <2> QED BY <2>1, PathInBuckets, CountedSetupAssumption
<1> QED BY <1>1, <1>2 DEF IsAt, CopiesOf

LEMMA EndSetupInv ==
  ASSUME IInv, EndSetup
  PROVE  IInv'
<1>1. /\ phase = "setup" /\ setupDone /\ phase' = "idle" /\ SetupInv /\ Counts /\ Views /\ CopiesType
      /\ failed = FALSE
      /\ UNCHANGED <<store, cache, sc, cntr, queue, next, level, leafList, readviewmap, writeviewmap, failed>>
  BY DEF IInv, EndSetup, placed
<1>2. pos = [x \in Nodes |-> RandomSeedPath(x[1], 0, x[2])] /\ sc = [g \in Groups |-> 0]
  BY <1>1 DEF IInv
<1>3. Counts'
  BY <1>1 DEF Counts
<1>4. Views'
  BY <1>1 DEF Views
<1>5. Places'
  <2> SUFFICES ASSUME NEW x \in Nodes PROVE IsAt(cache, store, Pending, x, LeafOf(x))'
    BY DEF Places
  <2>1. Pending' = {} /\ queue' = <<>> /\ sc' = sc
    BY <1>1 DEF Pending, Counts
  <2>2. x[1] \in Groups
    BY NodeFacts
  <2>3. LeafOf(x)' = pos[x]
    BY <1>2, <2>1, <2>2 DEF LeafOf, CountOf, RandomSeedPath
  <2>4. IsAt(cache, store, {}, x, pos[x])
    BY <1>1, PlacedBySetup
  <2> QED BY <1>1, <2>1, <2>3, <2>4 DEF IsAt
<1> QED BY <1>1, <1>3, <1>4, <1>5 DEF IInv, CopiesType

LEMMA StartInv ==
  ASSUME IInv, NEW groups \in Sessions, Start(groups)
  PROVE  IInv'
<1>1. /\ phase = "idle" /\ phase' = "read" /\ queue' = groups /\ next' = 0
      /\ readviewmap' = {} /\ writeviewmap' = {}
      /\ UNCHANGED <<store, cache, sc, cntr, level, leafList, failed>>
  BY DEF Start, placed
<1>2. failed = FALSE /\ Counts /\ Views /\ CopiesType /\ Places
  BY <1>1 DEF IInv
<1>3. Counts'
  BY <1>1, <1>2, SeedORAMAssumption DEF Counts
<1>4. Pending = {} /\ Pending' = {}
  BY <1>1 DEF Pending
<1>5. Views'
  <2>1. leafList' = {} /\ ScheduledTo(level)' = {}
    BY <1>1, <1>2 DEF Views, ScheduledTo
  <2> QED BY <1>1, <1>2, <1>4, <2>1 DEF Views
<1>6. Places'
  <2> SUFFICES ASSUME NEW x \in Nodes PROVE IsAt(cache, store, Pending, x, LeafOf(x))'
    BY DEF Places
  <2>1. CountOf(x) = sc[x[1]] /\ CountOf(x)' = sc[x[1]]
    BY <1>1, <1>2 DEF CountOf, Counts
  <2>2. LeafOf(x)' = LeafOf(x)
    BY <2>1 DEF LeafOf, RandomSeedPath
  <2> QED BY <1>1, <1>2, <1>4, <2>2 DEF Places, IsAt
<1> QED BY <1>1, <1>2, <1>3, <1>5, <1>6 DEF IInv, CopiesType

\* The node of the leaf computed is where it is looked for.
LEMMA ReadingFacts ==
  ASSUME IInv, phase = "read"
  PROVE  /\ Counts /\ Views /\ CopiesType /\ Places /\ failed = FALSE /\ writeviewmap = {}
         /\ level = depth /\ Pending = readviewmap /\ readviewmap = ScheduledTo(depth)
<1>1. Counts /\ Views /\ CopiesType /\ Places /\ failed = FALSE
  BY DEF IInv
<1>2. writeviewmap = {} /\ level = depth /\ Pending = ScheduledTo(level) \ writeviewmap
  BY <1>1 DEF Views
<1>3. Pending = readviewmap
  BY <1>2 DEF Pending
<1> QED BY <1>1, <1>2, <1>3

LEMMA OpenGroupInv ==
  ASSUME IInv, OpenGroup
  PROVE  IInv'
<1> DEFINE g == Head(queue)
<1>1. /\ phase = "read" /\ queue # <<>> /\ next = 0 /\ next' = 1
      /\ cntr' = sc[g] /\ sc' = [sc EXCEPT ![g] = (sc[g] + 1) % leaves]
      /\ UNCHANGED <<store, cache, queue, phase, level, leafList, readviewmap, writeviewmap, failed>>
  BY DEF OpenGroup, placed, NextCount
<1>2. Counts /\ Views /\ CopiesType /\ Places /\ failed = FALSE
  BY <1>1, ReadingFacts
<1>3. g \in Groups /\ Size[g] \in Nat \ {0} /\ sc[g] \in 0 .. leaves - 1 /\ leaves \in Nat \ {0}
  BY <1>1, <1>2, SeedORAMAssumption DEF Counts
<1>4. (sc[g] + 1) % leaves \in 0 .. leaves - 1
  <2>1. sc[g] + 1 \in Nat
    BY <1>3
  <2> QED BY <2>1, <1>3, LeafFacts
<1>5. sc'[g] = (sc[g] + 1) % leaves /\ \A h \in Groups \ {g} : sc'[h] = sc[h]
  BY <1>1, <1>2, <1>3 DEF Counts
<1>6. Counts'
  <2>1. sc' \in [Groups -> 0 .. leaves - 1]
    BY <1>1, <1>2, <1>4 DEF Counts
  <2>2. next' <= Size[Head(queue')] /\ sc'[Head(queue')] = (cntr' + 1) % leaves
    BY <1>1, <1>3, <1>5
  <2> QED BY <1>1, <1>2, <1>3, <2>1, <2>2 DEF Counts
<1>7. Views' /\ Pending' = Pending
  BY <1>1, <1>2 DEF Views, Pending, ScheduledTo
<1>8. Places'
  <2> SUFFICES ASSUME NEW x \in Nodes PROVE IsAt(cache, store, Pending, x, LeafOf(x))'
    BY DEF Places
  <2>1. x[1] \in Groups /\ x[2] \in Nat /\ x[2] >= 1
    BY NodeFacts
  <2>2. CountOf(x) = sc[x[1]]
    BY <1>1 DEF CountOf
  <2>3. CountOf(x)' = sc[x[1]]
    <3>1. CASE x[1] = g
      BY <1>1, <2>1, <3>1 DEF CountOf
    <3>2. CASE x[1] # g
      BY <1>1, <1>5, <2>1, <3>2 DEF CountOf
    <3> QED BY <3>1, <3>2
  <2>4. LeafOf(x)' = LeafOf(x)
    BY <2>2, <2>3 DEF LeafOf, RandomSeedPath
  <2> QED BY <1>1, <1>2, <1>7, <2>4 DEF Places, IsAt
<1> QED BY <1>1, <1>2, <1>6, <1>7, <1>8 DEF IInv, CopiesType

\* Reading a node renews its leaf and nobody else's.
LEMMA NextNodeMoves ==
  ASSUME Counts, queue # <<>>, next > 0, NextNode, UNCHANGED <<sc, cntr>>, phase' = "read",
         NEW z, z = <<Head(queue), next>>
  PROVE  /\ z \in Nodes /\ Counts'
         /\ LeafOf(z) = RandomSeedPath(Head(queue), cntr, next)
         /\ LeafOf(z)' = RandomSeedPath(Head(queue), cntr + 1, next)
         /\ \A x \in Nodes \ {z} : LeafOf(x)' = LeafOf(x)
<1> DEFINE g == Head(queue)
<1>1. g \in Groups /\ Size[g] \in Nat \ {0} /\ next \in 1 .. Size[g] /\ Tail(queue) \in Seq(Groups)
  BY SeedORAMAssumption DEF Counts
<1>2. z \in Nodes /\ z[1] = g /\ z[2] = next
  BY <1>1, NodeFacts
<1>3. cntr \in Nat /\ sc[g] = (cntr + 1) % leaves /\ sc' = sc /\ cntr' = cntr
  BY SeedORAMAssumption DEF Counts
<1>4. \/ next < Size[g] /\ next' = next + 1 /\ queue' = queue
      \/ next = Size[g] /\ next' = 0 /\ queue' = Tail(queue)
  BY <1>1 DEF NextNode, Following
<1>5. Counts'
  <2>1. queue' \in Seq(Groups) /\ next' \in Nat /\ (queue' = <<>> => next' = 0)
    <3>1. next + 1 \in Nat /\ queue \in Seq(Groups)
      BY DEF Counts
    <3>2. CASE next' = next + 1 /\ queue' = queue
      BY <3>1, <3>2
    <3>3. CASE next' = 0 /\ queue' = Tail(queue)
      BY <1>1, <3>3
    <3> QED BY <1>4, <3>2, <3>3
  <2>2. next' > 0 => next' <= Size[Head(queue')] /\ sc'[Head(queue')] = (cntr' + 1) % leaves
    BY <1>1, <1>3, <1>4
  <2> QED BY <1>3, <2>1, <2>2 DEF Counts
<1>6. CountOf(z) = cntr
  BY <1>1, <1>2 DEF CountOf
<1>7. LeafOf(z)' = RandomSeedPath(g, cntr + 1, next)
  <2>1. CountOf(z)' = sc[g]
    BY <1>1, <1>3, <1>4 DEF CountOf
  <2>2. RandomSeedPath(g, (cntr + 1) % leaves, next) = RandomSeedPath(g, cntr + 1, next)
    <3>1. cntr + 1 \in Nat /\ next \in Nat
      BY <1>1, <1>3
    <3> QED BY <3>1, <1>1, LeafFacts
  <2> QED BY <1>2, <1>3, <2>1, <2>2 DEF LeafOf, RandomSeedPath
<1>8. ASSUME NEW x \in Nodes \ {z} PROVE LeafOf(x)' = LeafOf(x)
  <2>1. x[1] \in Groups /\ x[2] \in 1 .. Size[x[1]] /\ x = <<x[1], x[2]>>
    BY NodeFacts
  <2>2. x[1] = g => x[2] # next
    BY <2>1, <1>8
  <2>3. CountOf(x)' = CountOf(x)
    BY <1>1, <1>3, <1>4, <2>1, <2>2 DEF CountOf
  <2> QED BY <2>3 DEF LeafOf, RandomSeedPath
<1> QED BY <1>2, <1>5, <1>6, <1>7, <1>8 DEF LeafOf

LEMMA ReadNodeInv ==
  ASSUME IInv, ReadNode
  PROVE  IInv'
<1> DEFINE g == Head(queue)
           last == RandomSeedPath(g, cntr, next)
           new == RandomSeedPath(g, cntr + 1, next)
<1>1. /\ phase = "read" /\ queue # <<>> /\ next > 0 /\ phase' = "read"
      /\ UNCHANGED <<store, sc, cntr, level, writeviewmap>>
      /\ ReadCached(<<g, next>>, new) \/ ReadFetched(<<g, next>>, last, new)
  BY DEF ReadNode
<1>2. /\ Counts /\ Views /\ CopiesType /\ Places /\ failed = FALSE /\ writeviewmap = {}
      /\ level = depth /\ Pending = readviewmap /\ readviewmap = ScheduledTo(depth)
  BY <1>1, ReadingFacts
<1>3. PICK z : z = <<g, next>>
  OBVIOUS
<1>4. g \in Groups /\ z \in Nodes /\ cntr \in Nat /\ next \in Nat
  BY <1>1, <1>2, <1>3, NodeFacts, SeedORAMAssumption DEF Counts
<1>5. last \in Leaves /\ new \in Leaves /\ last # None /\ new # None
  <2>1. cntr + 1 \in Nat
    BY <1>4
  <2> QED BY <2>1, <1>4, LeafFacts
<1>6. LeafOf(z) = last
  BY <1>1, <1>3, <1>4 DEF LeafOf, CountOf
<1>7. IsAt(cache, store, readviewmap, z, last)
  BY <1>2, <1>4, <1>6 DEF Places
<1>8. ASSUME NextNode
      PROVE  /\ Counts' /\ LeafOf(z)' = new /\ \A x \in Nodes \ {z} : LeafOf(x)' = LeafOf(x)
  BY <1>1, <1>2, <1>3, <1>8, NextNodeMoves
<1>9. CASE ReadCached(z, new)
  <2>1. /\ cache[z] # None /\ cache' = [cache EXCEPT ![z] = new] /\ NextNode
        /\ UNCHANGED <<leafList, readviewmap, failed>>
    BY <1>9 DEF ReadCached, CachedWith
  <2>2. Views' /\ Pending' = Pending
    BY <1>1, <1>2, <2>1 DEF Views, Pending, ScheduledTo
  <2>3. CopiesType'
    BY <1>1, <1>2, <1>5, <2>1 DEF CopiesType
  <2>4. Places'
    <3> SUFFICES ASSUME NEW x \in Nodes PROVE IsAt(cache, store, Pending, x, LeafOf(x))'
      BY DEF Places
    <3>1. CASE x = z
      <4>1. cache'[z] = new
        BY <1>2, <1>4, <2>1 DEF CopiesType
      <4>2. \A b \in Buckets \ readviewmap : store[b][z] = None
        BY <1>7, <2>1 DEF IsAt
      <4> QED BY <1>1, <1>2, <1>8, <2>1, <2>2, <3>1, <4>1, <4>2 DEF IsAt
    <3>2. CASE x # z
      <4>1. cache'[x] = cache[x] /\ LeafOf(x)' = LeafOf(x)
        BY <1>2, <1>8, <2>1, <3>2 DEF CopiesType
      <4> QED BY <1>1, <1>2, <2>2, <4>1 DEF Places, IsAt
    <3> QED BY <3>1, <3>2
  <2> QED BY <1>1, <1>2, <1>8, <2>1, <2>2, <2>3, <2>4 DEF IInv
<1>10. CASE ReadFetched(z, last, new)
  <2> DEFINE c == FetchPath(last)
             viewed == readviewmap \cup Path(last)
  <2>1. IsAt(c, store, viewed, z, last)
    BY <1>2, <1>4, <1>5, <1>7, FetchKeepsPlace
  <2>2. c[z] = last /\ \A b \in Buckets \ viewed : store[b][z] = None
    BY <2>1, <1>5 DEF IsAt
  <2>3. /\ cache' = [c EXCEPT ![z] = new] /\ leafList' = leafList \cup {last} /\ NextNode
        /\ readviewmap' = viewed /\ failed' = failed
    BY <1>5, <1>10, <2>2 DEF ReadFetched, Scheduled
  <2>4. \A x \in Nodes : IsAt(c, store, viewed, x, LeafOf(x)) /\ LeafOf(x) \in Leaves
    BY <1>2, <1>5, FetchKeepsPlace, LeafOfFacts DEF Places
  <2>5. c \in [Nodes -> Leaves \cup {None}]
    <3>1. \A x \in Nodes : c[x] \in Leaves \cup {None}
      BY <2>4 DEF IsAt
    <3> QED BY <3>1 DEF FetchPath
  <2>6. CopiesType'
    BY <1>1, <1>2, <1>5, <2>3, <2>5 DEF CopiesType
  <2>7. Pending' = viewed
    BY <1>1, <1>2, <2>3 DEF Pending
  <2>8. ScheduledTo(level)' = viewed
    <3>1. Path(last) \subseteq Buckets
      BY <1>5, PathInBuckets
    <3> HIDE DEF last
    <3> QED BY <1>1, <1>2, <2>3, <3>1 DEF ScheduledTo, Path
  <2>9. Views'
    BY <1>1, <1>2, <1>5, <2>3, <2>7, <2>8 DEF Views
  <2>10. Places'
    <3> SUFFICES ASSUME NEW x \in Nodes PROVE IsAt(cache, store, Pending, x, LeafOf(x))'
      BY DEF Places
    <3>1. CASE x = z
      <4>1. cache'[z] = new
        BY <1>4, <2>3, <2>5
      <4> QED BY <1>1, <1>8, <2>2, <2>3, <2>7, <3>1, <4>1 DEF IsAt
    <3>2. CASE x # z
      <4>1. cache'[x] = c[x] /\ LeafOf(x)' = LeafOf(x)
        BY <1>8, <2>3, <2>5, <3>2
      <4> QED BY <1>1, <2>4, <2>7, <4>1 DEF IsAt
    <3> QED BY <3>1, <3>2
  <2> QED BY <1>1, <1>2, <1>8, <2>3, <2>6, <2>9, <2>10 DEF IInv
<1> QED BY <1>1, <1>3, <1>9, <1>10

LEMMA FinalizeInv ==
  ASSUME IInv, Finalize
  PROVE  IInv'
<1>1. /\ phase = "read" /\ queue = <<>> /\ phase' = "write" /\ level' = depth
      /\ UNCHANGED <<store, cache, sc, cntr, queue, next, leafList, readviewmap, writeviewmap, failed>>
  BY DEF Finalize, placed
<1>2. /\ Counts /\ Views /\ CopiesType /\ Places /\ failed = FALSE /\ level = depth
  BY <1>1, ReadingFacts
<1>3. Counts' /\ CopiesType'
  BY <1>1, <1>2 DEF Counts, CopiesType
<1>4. Pending' = Pending /\ ScheduledTo(level)' = ScheduledTo(level)
  BY <1>1, <1>2 DEF Pending, ScheduledTo
<1>5. Views'
  BY <1>1, <1>2, <1>4 DEF Views
<1>6. Places'
  <2>1. \A x \in Nodes : LeafOf(x)' = LeafOf(x)
    BY <1>1 DEF LeafOf, CountOf, RandomSeedPath
  <2> QED BY <1>1, <1>2, <1>4, <2>1 DEF Places, IsAt
<1> QED BY <1>1, <1>2, <1>3, <1>5, <1>6 DEF IInv

\* A level written back: what leaves the cache is in one bucket of its path,
\* and the buckets overwritten were out of date.
LEMMA LevelInv ==
  ASSUME IInv, WriteLevel
  PROVE  IInv'
<1>1. /\ phase = "write" /\ phase' = "write" /\ level >= 0 /\ level' = level - 1
      /\ writeviewmap' = writeviewmap \cup ToWrite
      /\ UNCHANGED <<sc, cntr, queue, next, leafList, readviewmap, failed>>
  BY DEF WriteLevel
<1>2. Counts /\ Views /\ CopiesType /\ Places /\ failed = FALSE /\ level \in 0 .. depth
  <2>1. Counts /\ Views /\ CopiesType /\ Places /\ failed = FALSE
    BY <1>1 DEF IInv
  <2> QED BY <1>1, <2>1, CountedSetupAssumption DEF Views
<1>3. PICK S \in SUBSET UNION {Intersecting(b) : b \in ToWrite} :
        /\ store' = [b \in Buckets |-> IF b \notin ToWrite THEN store[b]
             ELSE [x \in Nodes |-> IF x \in S \cap Intersecting(b) THEN cache[x] ELSE None]]
        /\ cache' = [x \in Nodes |-> IF x \in S THEN None ELSE cache[x]]
  BY DEF WriteLevel, Left
<1>4. ToWrite \subseteq Buckets
  BY <1>2, CountedSetupAssumption DEF ToWrite, Views
<1>5. Pending' = Pending \ ToWrite /\ ToWrite \subseteq Pending
  <2>1. Pending' = Pending \ ToWrite
    BY <1>1 DEF Pending
  <2>2. ToWrite \subseteq ScheduledTo(level) \ writeviewmap
    BY <1>2, <1>4 DEF ToWrite, ScheduledTo
  <2> QED BY <2>1, <2>2, <1>1, <1>2 DEF Views
<1>6. \A x \in Nodes : x \in S => cache[x] # None /\ OnPath(cache[x], level) \in ToWrite
  BY <1>3 DEF Intersecting
<1>7. \A x \in Nodes, b \in ToWrite :
        store'[b][x] = IF x \in S /\ OnPath(cache[x], level) = b THEN cache[x] ELSE None
  BY <1>3, <1>4, <1>6 DEF Intersecting
<1>8. \A x \in Nodes, b \in Buckets \ ToWrite : store'[b][x] = store[b][x]
  BY <1>3
<1>9. \A x \in Nodes : cache'[x] = IF x \in S THEN None ELSE cache[x]
  BY <1>3
<1>10. CopiesType'
  BY <1>2, <1>3 DEF CopiesType
<1>11. Views'
  <2>1. Pending' = ScheduledTo(level)' \ writeviewmap'
    <3>1. Pending = ScheduledTo(level) \ writeviewmap
      BY <1>1, <1>2 DEF Views
    <3>2. ASSUME NEW b, b \notin writeviewmap \cup ToWrite
          PROVE  b \in ScheduledTo(level)' <=> b \in ScheduledTo(level)
      <4>1. \A l \in leafList : b # OnPath(l, level)
        BY <3>2 DEF ToWrite
      <4>2. \A e \in 0 .. level : e = level \/ e \in 0 .. (level - 1)
        BY <1>2
      <4>3. \A e \in 0 .. (level - 1) : e \in 0 .. level
        BY <1>2
      <4> QED BY <4>1, <4>2, <4>3, <1>1 DEF ScheduledTo
    <3> QED BY <3>1, <3>2, <1>1, <1>5
  <2>2. level' \in -1 .. depth
    BY <1>1, <1>2, CountedSetupAssumption
  <2> QED BY <2>1, <2>2, <1>1, <1>2 DEF Views
<1>12. Counts' /\ \A x \in Nodes : LeafOf(x)' = LeafOf(x)
  BY <1>1, <1>2 DEF Counts, LeafOf, CountOf, RandomSeedPath
<1>13. Places'
  <2> SUFFICES ASSUME NEW x \in Nodes PROVE IsAt(cache', store', Pending', x, LeafOf(x))
    BY <1>12 DEF Places, IsAt, Path
  <2>1. Buckets \ Pending' = (Buckets \ Pending) \cup ToWrite
    BY <1>4, <1>5
  <2> DEFINE l == LeafOf(x)
  <2>2. l \in Leaves /\ l # None /\ IsAt(cache, store, Pending, x, l)
    BY <1>2, LeafOfFacts DEF Places
  <2> HIDE DEF l
  <2>3. CASE cache[x] # None
    <3>1. cache[x] = l /\ \A b \in Buckets \ Pending : store[b][x] = None
      BY <2>2, <2>3 DEF IsAt
    <3>2. CASE x \in S
      <4>1. OnPath(l, level) \in ToWrite /\ OnPath(l, level) \in Path(l) \ Pending'
        BY <3>1, <3>2, <1>2, <1>5, <1>6 DEF Path
      <4>2. store'[OnPath(l, level)][x] = l
        BY <3>1, <3>2, <4>1, <1>7
      <4>3. \A b \in Buckets \ Pending' : store'[b][x] # None => b = OnPath(l, level)
        BY <3>1, <2>1, <1>5, <1>7, <1>8
      <4>4. IsAt(cache', store', Pending', x, l)
        BY <4>1, <4>2, <4>3, <3>2, <1>9 DEF IsAt
      <4> QED BY <4>4 DEF l
    <3>3. CASE x \notin S
      <4>1. \A b \in Buckets \ Pending' : store'[b][x] = None
        BY <3>1, <3>3, <2>1, <1>5, <1>7, <1>8
      <4>2. IsAt(cache', store', Pending', x, l)
        BY <4>1, <3>1, <3>3, <1>9 DEF IsAt
      <4> QED BY <4>2 DEF l
    <3> QED BY <3>2, <3>3
  <2>4. CASE cache[x] = None
    <3>1. PICK b \in Path(l) \ Pending :
            store[b][x] = l /\ \A b2 \in Buckets \ Pending : store[b2][x] # None => b2 = b
      BY <2>2, <2>4 DEF IsAt
    <3>2. x \notin S /\ cache'[x] = None
      BY <2>4, <1>6, <1>9
    <3>3. b \in Buckets
      BY <2>2, <3>1, PathInBuckets
    <3>4. b \notin ToWrite /\ b \notin Pending' /\ store'[b][x] = l
      BY <3>1, <3>3, <1>5, <1>8
    <3>5. \A b2 \in Buckets \ Pending' : store'[b2][x] # None => b2 = b
      BY <3>1, <3>2, <2>1, <1>7, <1>8
    <3>6. IsAt(cache', store', Pending', x, l)
      BY <3>1, <3>2, <3>4, <3>5 DEF IsAt
    <3> QED BY <3>6 DEF l
  <2> QED BY <2>3, <2>4
<1> QED BY <1>1, <1>2, <1>10, <1>11, <1>12, <1>13 DEF IInv

LEMMA EndSearchInv ==
  ASSUME IInv, EndSearch
  PROVE  IInv'
<1>1. /\ phase = "write" /\ phase' = "idle" /\ level < 0 /\ level' = depth /\ leafList' = {} /\ cntr' = 0
      /\ UNCHANGED <<store, cache, sc, queue, next, readviewmap, writeviewmap, failed>>
  BY DEF EndSearch, placed
<1>2. Counts /\ Views /\ CopiesType /\ Places /\ failed = FALSE /\ queue = <<>> /\ next = 0
  <2>1. Counts /\ Views /\ CopiesType /\ Places /\ failed = FALSE
    BY <1>1 DEF IInv
  <2> QED BY <1>1, <2>1 DEF Counts
<1>3. Pending = {} /\ Pending' = {}
  <2>1. 0 .. level = {}
    BY <1>1, <1>2 DEF Views
  <2> QED BY <1>1, <1>2, <2>1 DEF Views, ScheduledTo, Pending
<1>4. Counts'
  BY <1>1, <1>2, SeedORAMAssumption DEF Counts
<1>5. Views'
  BY <1>1, <1>2, CountedSetupAssumption DEF Views
<1>6. Places'
  <2>1. \A x \in Nodes : LeafOf(x)' = LeafOf(x)
    BY <1>1, <1>2 DEF LeafOf, CountOf, RandomSeedPath
  <2> QED BY <1>1, <1>2, <1>3, <2>1 DEF Places, IsAt
<1>7. CopiesType'
  BY <1>1, <1>2 DEF CopiesType
<1> QED BY <1>1, <1>2, <1>4, <1>5, <1>6, <1>7 DEF IInv

LEMMA StutterInv ==
  ASSUME IInv, UNCHANGED vars
  PROVE  IInv'
<1>1. UNCHANGED <<store, cache, nodes, pos, i, d, curPos, cannotInsert>>
  BY DEF vars, placed, setupVars
<1>2. UNCHANGED <<sc, cntr, queue, next, phase, level, leafList, readviewmap, writeviewmap, failed>>
  BY DEF vars, searchVars
<1>3. SetupInv' = SetupInv
  BY <1>1 DEF SetupInv, SetupType, Sorted, PlacedOnce, CopiesOf, Path, HeldBounded, Held,
              Filled, Room, BelowFull, setupDone
<1>4. Counts' = Counts /\ CopiesType' = CopiesType
  BY <1>1, <1>2 DEF Counts, CopiesType
<1>5. Pending' = Pending
  BY <1>2 DEF Pending
<1>6. Views' = Views
  BY <1>2, <1>5 DEF Views, ScheduledTo
<1>7. Places' = Places
  BY <1>1, <1>2, <1>5 DEF Places, IsAt, LeafOf, CountOf, RandomSeedPath
<1> QED BY <1>1, <1>2, <1>3, <1>4, <1>6, <1>7 DEF IInv

\* After any sequence of searches the client's counters and the leaves of the
\* nodes agree, so every node is found (RandomSeedPath, ReadNode, WritePath).
THEOREM CountersAndLeavesAgree == Spec => []SeedsAgree
<1>1. Init => IInv
  BY InitInv
<1>2. ASSUME IInv, [Next]_vars PROVE IInv'
  BY <1>2, SetupStepInv, EndSetupInv, StartInv, OpenGroupInv, ReadNodeInv, FinalizeInv, LevelInv,
     EndSearchInv, StutterInv DEF Next, Step
<1>3. ASSUME IInv PROVE SeedsAgree
  <2> SUFFICES ASSUME phase # "setup", NEW x \in Nodes
               PROVE  LET l == RandomSeedPath(x[1], CountOf(x), x[2]) IN
                        \/ cache[x] = l /\ Copies(x) = {}
                        \/ cache[x] = None /\ \E b \in Path(l) : Copies(x) = {b} /\ store[b][x] = l
    BY <1>3 DEF SeedsAgree, IInv
  <2>1. IsAt(cache, store, Pending, x, LeafOf(x)) /\ LeafOf(x) \in Leaves /\ LeafOf(x) # None
    BY <1>3, LeafOfFacts DEF IInv, Places
  <2> DEFINE l == LeafOf(x)
  <2>2. Path(l) \subseteq Buckets
    BY <2>1, PathInBuckets
  <2> HIDE DEF l
  <2>3. \/ cache[x] = l /\ Copies(x) = {}
        \/ cache[x] = None /\ \E b \in Path(l) : Copies(x) = {b} /\ store[b][x] = l
    BY <2>1, <2>2 DEF IsAt, Copies, CopiesOf, l
  <2> QED BY <2>3 DEF l, LeafOf
<1>4. IInv => SeedsAgree
  BY <1>3
<1>5. IInv /\ [Next]_vars => IInv'
  BY <1>2
<1> QED BY <1>1, <1>4, <1>5, PTL DEF Spec
-----------------------------------------------------------------------------
(***************************************************************************)
(* The stash (StashORAM), over the same setup.                             *)
(***************************************************************************)
\* StashORAM's setup is that of CountedSetup.
LEMMA SameCounting ==
  /\ \A S : ST!Cardinality(S) = Cardinality(S)
  /\ \A b : ST!Held(b) = Held(b) /\ ST!Room(b) = Room(b)
  /\ \A b : ST!Taken(b) = Taken(b) /\ (ST!Full(b) <=> Full(b))
<1>1. \A S : ST!Cardinality(S) = Cardinality(S)
  BY DEF ST!Cardinality, Cardinality
<1>2. \A b : ST!Held(b) = Held(b)
  BY DEF ST!Held, Held
<1>3. \A b : ST!Room(b) = Room(b)
  BY <1>1, <1>2 DEF ST!Room, Room
<1>4. ASSUME NEW b PROVE ST!Taken(b) = Taken(b) /\ (ST!Full(b) <=> Full(b))
  BY <1>1, <1>3 DEF ST!Taken, Taken, ST!Full, Full
<1> QED BY <1>1, <1>2, <1>3, <1>4

LEMMA SameSetup ==
  /\ ST!setupDone <=> setupDone
  /\ ST!SetupStep => SetupStep
  /\ \A x : ST!CopiesOf(x) = CopiesOf(x)
  /\ \A l : ST!Path(l) = Path(l)
<1>1. ST!setupDone <=> setupDone
  BY DEF ST!setupDone, setupDone
<1>2. ST!InLoop <=> InLoop
  BY <1>1 DEF ST!InLoop, InLoop
<1>3. ST!FillBucket => FillBucket
  BY <1>2, SameCounting DEF ST!FillBucket, FillBucket
<1>4. ST!NextPass => NextPass
  BY <1>1, <1>2 DEF ST!NextPass, NextPass, ST!ToCache, ToCache
<1>5. \A x : ST!CopiesOf(x) = CopiesOf(x)
  BY DEF ST!CopiesOf, CopiesOf
<1>6. \A l : ST!Path(l) = Path(l)
  BY DEF ST!Path, Path
<1> QED BY <1>1, <1>3, <1>4, <1>5, <1>6 DEF ST!SetupStep, SetupStep

\* The leaf the client computes for a node, always the same.
LEMMA StashLeaf ==
  ASSUME NEW x \in Nodes
  PROVE  ST!LeafOf(x) \in Leaves /\ ST!LeafOf(x) # None
<1>1. /\ Sum[x[1]] \in Nat /\ x[2] \in Nat /\ leaves \in Nat \ {0} /\ 0 .. leaves - 1 \subseteq Leaves
      /\ None \notin Leaves
  BY NodeFacts, SeedORAMAssumption, CountedSetupAssumption
<1> DEFINE y == Sum[x[1]] + (11 % leaves) + ((x[2] * 99) % leaves)
<1>2. 11 % leaves \in Nat /\ (x[2] * 99) % leaves \in Nat
  BY <1>1, SMTT(30)
<1>3. y \in Nat
  BY <1>1, <1>2
<1>4. ST!LeafOf(x) = y % leaves
  BY DEF ST!LeafOf
<1> HIDE DEF y
<1>5. y % leaves \in 0 .. leaves - 1
  BY <1>1, <1>3
<1> QED BY <1>1, <1>4, <1>5

\* The concatenation of sequences is a sequence.
LEMMA FlattenIsSeq ==
  ASSUME NEW S, NEW ss \in Seq(Seq(S))
  PROVE  ST!FlattenSeq(ss) \in Seq(S)
<1> DEFINE n == Len(ss)
           Body(f, m) == f = [k \in 1 .. m |-> IF k = 1 THEN ss[k] ELSE f[k - 1] \o ss[k]]
<1>1. n \in Nat /\ \A k \in 1 .. n : ss[k] \in Seq(S)
  OBVIOUS
<1>2. ASSUME NEW m \in 0 .. n PROVE \E f : Body(f, m)
  <2> DEFINE Bad == {j \in 0 .. n : ~ \E f : Body(f, j)}
  <2>1. SUFFICES ASSUME m \in Bad PROVE FALSE
    OBVIOUS
  <2>2. Bad \subseteq Nat
    <3> HIDE DEF Body
    <3> QED BY <1>1
  <2> HIDE DEF Bad
  <2>3. PICK j \in Bad : \A k \in Bad : j <= k
    BY <2>1, <2>2, LeastNatural
  <2>4. j \in 0 .. n /\ ~ \E f : Body(f, j)
    BY <2>3 DEF Bad
  <2>5. CASE j = 0
    <3>1. Body([k \in 1 .. 0 |-> 0], 0)
      OBVIOUS
    <3> QED BY <2>4, <2>5, <3>1
  <2>6. CASE j # 0
    <3>1. j - 1 \in 0 .. n /\ j - 1 \notin Bad
      BY <1>1, <2>3, <2>4, <2>6
    <3>2. PICK g : Body(g, j - 1)
      BY <3>1 DEF Bad
    <3> DEFINE f == [k \in 1 .. j |-> IF k = 1 THEN ss[k] ELSE g[k - 1] \o ss[k]]
    <3>3. ASSUME NEW k \in 1 .. j, k # 1 PROVE f[k - 1] = g[k - 1]
      <4>1. k - 1 \in 1 .. j - 1 /\ k - 1 \in 1 .. j
        BY <1>1, <2>4, <3>3
      <4>2. g[k - 1] = IF k - 1 = 1 THEN ss[k - 1] ELSE g[(k - 1) - 1] \o ss[k - 1]
        BY <3>2, <4>1
      <4> QED BY <4>1, <4>2
    <3>4. Body(f, j)
      BY <3>3
    <3> QED BY <2>4, <3>4
  <2> QED BY <2>5, <2>6
<1>3. ASSUME NEW f, Body(f, n), NEW m \in 1 .. n PROVE f[m] \in Seq(S)
  <2> DEFINE Bad == {j \in 1 .. n : f[j] \notin Seq(S)}
  <2>1. SUFFICES ASSUME m \in Bad PROVE FALSE
    OBVIOUS
  <2>2. Bad \subseteq Nat
    BY <1>1
  <2> HIDE DEF Bad
  <2>3. PICK j \in Bad : \A k \in Bad : j <= k
    BY <2>1, <2>2, LeastNatural
  <2>4. j \in 1 .. n /\ f[j] \notin Seq(S)
    BY <2>3 DEF Bad
  <2>5. f[j] = IF j = 1 THEN ss[j] ELSE f[j - 1] \o ss[j]
    BY <1>3, <2>4
  <2>6. CASE j = 1
    BY <1>1, <2>4, <2>5, <2>6
  <2>7. CASE j # 1
    <3>1. j - 1 \in 1 .. n /\ j - 1 \notin Bad
      BY <1>1, <2>3, <2>4, <2>7
    <3>2. f[j - 1] \in Seq(S)
      BY <3>1 DEF Bad
    <3> QED BY <1>1, <2>4, <2>5, <2>7, <3>2
  <2> QED BY <2>6, <2>7
<1>4. CASE n = 0
  BY <1>4 DEF ST!FlattenSeq
<1>5. CASE n # 0
  <2>1. ST!FlattenSeq(ss) = (CHOOSE f : Body(f, n))[n]
    BY <1>5 DEF ST!FlattenSeq
  <2>2. Body(CHOOSE f : Body(f, n), n)
    <3>1. n \in 0 .. n
      BY <1>1
    <3> HIDE DEF n, Body
    <3> QED BY <1>2, <3>1
  <2>3. n \in 1 .. n
    BY <1>1, <1>5
  <2> HIDE DEF n, Body
  <2> QED BY <1>3, <2>1, <2>2, <2>3
<1> QED BY <1>4, <1>5

\* After setup nothing moves: every node stays where setup put it, and the
\* stash is what the buckets looked at hold.
StashPlaces == \A x \in Nodes : IsAt(cache, store, {}, x, ST!LeafOf(x))

StashInv ==
  /\ missed = FALSE /\ doing \in {"setup", "idle", "read"} /\ unread \in Seq(Nodes)
  /\ CopiesType /\ stash \in [Nodes -> Leaves \cup {None}] /\ seen \subseteq Buckets
  /\ \A x \in Nodes : stash[x] # None <=> CopiesOf(x) \cap seen # {}
  /\ IF doing = "setup"
     THEN /\ SetupInv /\ pos = [x \in Nodes |-> ST!LeafOf(x)]
          /\ stash = [x \in Nodes |-> None] /\ seen = {}
     ELSE StashPlaces

LEMMA StashInitInv == ASSUME ST!Init PROVE StashInv
<1> DEFINE P == [x \in Nodes |-> ST!LeafOf(x)]
<1>1. {P} \subseteq [Nodes -> Leaves]
  BY StashLeaf
<1>2. SetupInit({P}, Orders)
  <2>1. ST!Orders = Orders
    BY SameCounting DEF ST!Orders, Orders
  <2>2. \A s, q : ST!Sorted(s, q) <=> Sorted(s, q)
    BY DEF ST!Sorted, Sorted
  <2>3. ST!SetupInit({P}, Orders)
    BY <2>1 DEF ST!Init
  <2> HIDE DEF P
  <2> QED BY <2>2, <2>3 DEF ST!SetupInit, SetupInit
<1>3. SetupInv
  <2> HIDE DEF P
  <2> QED BY <1>1, <1>2, SetupInitInv
<1>4. pos = P
  BY <1>2 DEF SetupInit
<1>5. CopiesType
  BY <1>3 DEF CopiesType, SetupInv, SetupType
<1> QED BY <1>3, <1>4, <1>5 DEF StashInv, ST!Init

LEMMA StashSetupInv ==
  ASSUME StashInv, ST!Setup
  PROVE  StashInv'
<1>1. /\ SetupInv /\ doing = "setup" /\ SetupStep /\ missed = FALSE /\ unread \in Seq(Nodes)
      /\ pos = [x \in Nodes |-> ST!LeafOf(x)] /\ stash = [x \in Nodes |-> None] /\ seen = {}
      /\ UNCHANGED <<stash, unread, doing, listed, seen, missed>>
  BY SameSetup DEF StashInv, ST!Setup
<1>2. SetupInv'
  BY <1>1, FillBucketInv, NextPassInv DEF SetupStep
<1>3. pos' = pos
  BY <1>1 DEF SetupStep, FillBucket, NextPass
<1>4. CopiesType'
  BY <1>2 DEF CopiesType, SetupInv, SetupType
<1> QED BY <1>1, <1>2, <1>3, <1>4 DEF StashInv

LEMMA StashEndSetupInv ==
  ASSUME StashInv, ST!EndSetup
  PROVE  StashInv'
<1>1. /\ SetupInv /\ doing = "setup" /\ setupDone /\ doing' = "idle"
      /\ pos = [x \in Nodes |-> ST!LeafOf(x)]
      /\ UNCHANGED <<store, cache, pos, stash, unread, listed, seen, missed>>
  BY SameSetup DEF StashInv, ST!EndSetup, ST!placed, ST!setupVars
<1>2. StashPlaces
  <2> SUFFICES ASSUME NEW x \in Nodes PROVE IsAt(cache, store, {}, x, pos[x])
    BY <1>1 DEF StashPlaces
  <2> QED BY <1>1, PlacedBySetup
<1>3. StashPlaces'
  BY <1>1, <1>2 DEF StashPlaces, IsAt, ST!LeafOf
<1> QED BY <1>1, <1>3 DEF StashInv, CopiesType, CopiesOf

LEMMA StashStartInv ==
  ASSUME StashInv, NEW groups \in Sessions, ST!Start(groups)
  PROVE  StashInv'
<1>1. /\ doing = "idle" /\ doing' = "read" /\ unread' = ST!NodesOf(groups)
      /\ stash' = [x \in Nodes |-> None] /\ seen' = {}
      /\ UNCHANGED <<store, cache, missed>>
  BY DEF ST!Start, ST!placed, ST!ViewAtStart
<1>2. ST!NodesOf(groups) \in Seq(Nodes)
  <2> DEFINE ss == [j \in DOMAIN groups |-> [n \in 1 .. Size[groups[j]] |-> <<groups[j], n>>]]
  <2>1. groups \in Seq(Groups)
    BY SeedORAMAssumption
  <2>2. \A j \in 1 .. Len(groups) : groups[j] \in Groups
    BY <2>1
  <2>3. ASSUME NEW g \in Groups PROVE [n \in 1 .. Size[g] |-> <<g, n>>] \in Seq(Nodes)
    BY NodeFacts
  <2>4. \A j \in 1 .. Len(groups) : ss[j] \in Seq(Nodes)
    BY <2>1, <2>2, <2>3
  <2>5. ss \in Seq(Seq(Nodes))
    <3>1. ss = [j \in 1 .. Len(groups) |-> ss[j]] /\ Len(groups) \in Nat
      BY <2>1
    <3> HIDE DEF ss
    <3> QED BY <2>4, <3>1
  <2>6. ST!NodesOf(groups) = ST!FlattenSeq(ss)
    BY DEF ST!NodesOf
  <2> HIDE DEF ss
  <2> QED BY <2>5, <2>6, FlattenIsSeq
<1>3. CopiesType' /\ StashPlaces'
  BY <1>1 DEF StashInv, CopiesType, StashPlaces, IsAt, ST!LeafOf
<1>4. missed' = FALSE
  BY <1>1 DEF StashInv
<1> QED BY <1>1, <1>2, <1>3, <1>4 DEF StashInv

LEMMA StashReadInv ==
  ASSUME StashInv, ST!ReadNode
  PROVE  StashInv'
<1> DEFINE x == Head(unread)
           l == ST!LeafOf(x)
<1>1. /\ doing = "read" /\ unread # <<>> /\ missed = FALSE /\ unread \in Seq(Nodes)
      /\ ST!ReadHeld(x) \/ ST!ReadFetched(x)
      /\ store' = store /\ doing' = doing
      /\ CopiesType /\ stash \in [Nodes -> Leaves \cup {None}] /\ seen \subseteq Buckets
      /\ \A y \in Nodes : stash[y] # None <=> CopiesOf(y) \cap seen # {}
      /\ StashPlaces
  BY DEF ST!ReadNode, StashInv
<1>2. x \in Nodes /\ Tail(unread) \in Seq(Nodes)
  BY <1>1
<1>3. l \in Leaves /\ l # None /\ Path(l) \subseteq Buckets
  BY <1>2, StashLeaf, PathInBuckets
<1>4. \A y \in Nodes : /\ cache[y] # None => CopiesOf(y) = {} /\ cache[y] = ST!LeafOf(y)
                       /\ cache[y] = None => CopiesOf(y) \cap Path(ST!LeafOf(y)) # {}
  <2> SUFFICES ASSUME NEW y \in Nodes
               PROVE  /\ cache[y] # None => CopiesOf(y) = {} /\ cache[y] = ST!LeafOf(y)
                      /\ cache[y] = None => CopiesOf(y) \cap Path(ST!LeafOf(y)) # {}
    OBVIOUS
  <2>1. IsAt(cache, store, {}, y, ST!LeafOf(y)) /\ ST!LeafOf(y) \in Leaves /\ ST!LeafOf(y) # None
    BY <1>1, StashLeaf DEF StashPlaces
  <2> QED BY <2>1, PathInBuckets DEF IsAt, CopiesOf
<1> HIDE DEF x
<1>5. CASE ST!ReadHeld(x)
  <2> HIDE DEF l
  <2>1. /\ unread' = Tail(unread) /\ missed' = missed /\ seen' = seen
        /\ cache[x] # None \/ stash[x] # None
        /\ IF cache[x] # None THEN cache' = [cache EXCEPT ![x] = l] /\ stash' = stash
                              ELSE stash' = [stash EXCEPT ![x] = l] /\ cache' = cache
    BY <1>5 DEF ST!ReadHeld, x, l
  <2>2. cache' = cache
    BY <1>1, <1>2, <1>4, <2>1 DEF l, CopiesType
  <2>3. stash' \in [Nodes -> Leaves \cup {None}]
        /\ \A y \in Nodes : stash'[y] # None <=> stash[y] # None
    BY <1>1, <1>2, <1>3, <2>1
  <2>4. CopiesType' /\ StashPlaces' /\ \A y : CopiesOf(y)' = CopiesOf(y)
    BY <1>1, <2>2 DEF CopiesType, StashPlaces, IsAt, ST!LeafOf, CopiesOf
  <2> QED BY <1>1, <1>2, <2>1, <2>3, <2>4 DEF StashInv, x
<1>6. CASE ST!ReadFetched(x)
  <2>1. /\ cache' = cache /\ cache[x] = None /\ stash' = ST!FetchPathStash(l)
        /\ seen' = seen \cup Path(l)
        /\ IF stash'[x] # None THEN unread' = Tail(unread) /\ missed' = missed
                               ELSE missed' = TRUE /\ unread' = unread
    BY <1>6, SameSetup DEF ST!ReadFetched
  <2> HIDE DEF l
  <2>2. ASSUME NEW y \in Nodes
        PROVE  /\ stash'[y] \in Leaves \cup {None}
               /\ stash'[y] # None <=> CopiesOf(y) \cap (seen \cup Path(l)) # {}
    <3>1. ST!Fetched(l, y) = {b \in Path(l) \ seen : store[b][y] # None}
      BY SameSetup DEF ST!Fetched
    <3>2. stash'[y] = IF stash[y] # None \/ ST!Fetched(l, y) = {} THEN stash[y]
                      ELSE store[CHOOSE b \in ST!Fetched(l, y) : TRUE][y]
      BY <2>1 DEF ST!FetchPathStash
    <3>3. CASE stash[y] # None
      BY <1>1, <3>2, <3>3
    <3>4. CASE stash[y] = None /\ ST!Fetched(l, y) = {}
      <4>1. CopiesOf(y) \cap Path(l) \subseteq seen
        BY <3>1, <3>4 DEF CopiesOf
      <4> QED BY <1>1, <3>2, <3>4, <4>1
    <3>5. CASE stash[y] = None /\ ST!Fetched(l, y) # {}
      <4>1. PICK b \in ST!Fetched(l, y) : stash'[y] = store[b][y]
        BY <3>2, <3>5
      <4>2. b \in Path(l) /\ b \in Buckets /\ store[b][y] # None /\ store[b][y] \in Leaves \cup {None}
        BY <1>1, <1>3, <3>1, <4>1 DEF CopiesType
      <4> QED BY <4>1, <4>2 DEF CopiesOf
    <3> QED BY <3>3, <3>4, <3>5
  <2>3. stash'[x] # None
    BY <1>2, <1>4, <2>1, <2>2 DEF l
  <2>4. stash' \in [Nodes -> Leaves \cup {None}]
    <3>1. stash' = [y \in Nodes |-> stash'[y]]
      BY <2>1 DEF ST!FetchPathStash
    <3> QED BY <2>2, <3>1
  <2>5. CopiesType' /\ StashPlaces' /\ \A y : CopiesOf(y)' = CopiesOf(y)
    BY <1>1, <2>1 DEF CopiesType, StashPlaces, IsAt, ST!LeafOf, CopiesOf
  <2>6. \A y \in Nodes : stash'[y] # None <=> CopiesOf(y)' \cap seen' # {}
    BY <2>1, <2>2, <2>5
  <2> QED BY <1>1, <1>2, <1>3, <2>1, <2>3, <2>4, <2>5, <2>6 DEF StashInv
<1> QED BY <1>1, <1>5, <1>6

LEMMA StashEndSearchInv ==
  ASSUME StashInv, ST!EndSearch \/ UNCHANGED <<placed, setupVars, stashVars>>
  PROVE  StashInv'
<1>1. /\ UNCHANGED <<placed, setupVars, stash, unread, seen, missed>>
      /\ doing' = doing \/ (doing = "read" /\ doing' = "idle")
  BY DEF ST!EndSearch, ST!placed, ST!setupVars, placed, setupVars, stashVars
<1>2. SetupInv => SetupInv'
  BY <1>1, SetupInvStutters
<1>3. /\ CopiesType' = CopiesType /\ StashPlaces' = StashPlaces
      /\ \A x : CopiesOf(x)' = CopiesOf(x)
      /\ pos' = pos
  BY <1>1 DEF placed, setupVars, CopiesType, StashPlaces, IsAt, ST!LeafOf, CopiesOf
<1> QED BY <1>1, <1>2, <1>3 DEF StashInv

\* After any searches the stash shows what has been read and hides no node
\* of the cache, so that every node a search reads is found (start,
\* FetchPathStash, ReadNode).
THEOREM EveryNodeIsFound == MCSpec => []StashIsRead
<1> DEFINE I == oram = "stash" => StashInv
<1>1. MCInit => I
  BY StashInitInv DEF MCInit
<1>2. I /\ [Seeds \/ Stash]_allVars => I'
  <2> SUFFICES ASSUME I, oram' = "stash", [Seeds \/ Stash]_allVars PROVE StashInv'
    OBVIOUS
  <2>1. StashInv
    BY DEF Seeds, Stash, allVars
  <2>2. CASE ST!Next
    BY <2>1, <2>2, StashSetupInv, StashEndSetupInv, StashStartInv, StashReadInv, StashEndSearchInv
       DEF ST!Next, ST!Step
  <2>3. CASE UNCHANGED allVars
    BY <2>1, <2>3, StashEndSearchInv DEF allVars, vars
  <2> QED BY <2>2, <2>3 DEF Seeds, Stash
<1>3. I => StashIsRead
  <2> SUFFICES ASSUME StashInv PROVE ST!StashIsRead /\ ST!ReadsSucceed
    BY DEF StashIsRead
  <2>1. ST!ReadsSucceed
    BY DEF StashInv, ST!ReadsSucceed
  <2>2. ASSUME NEW x \in Nodes
        PROVE  /\ stash[x] # None <=> CopiesOf(x) \cap seen # {}
               /\ cache[x] # None => stash[x] = None
    <3>1. CASE doing = "setup"
      BY <3>1 DEF StashInv
    <3>2. CASE doing # "setup"
      <4>1. IsAt(cache, store, {}, x, ST!LeafOf(x))
        BY <3>2 DEF StashInv, StashPlaces
      <4> QED BY <4>1 DEF StashInv, IsAt, CopiesOf
    <3> QED BY <3>1, <3>2
  <2> QED BY <2>1, <2>2, SameSetup DEF ST!StashIsRead
<1> QED BY <1>1, <1>2, <1>3, PTL DEF MCSpec
=============================================================================

---------------------------- MODULE BTreeProofs ----------------------------
(***************************************************************************)
(* Proofs about BTree, for every order T, every number of keys and every   *)
(* tree setup may make.                                                    *)
(***************************************************************************)
EXTENDS BTree, SequenceTheorems, WellFoundedInduction, TLAPS

(***************************************************************************)
(* Sequences, element by element.                                          *)
(***************************************************************************)
LEMMA PieceIs ==
  ASSUME NEW S, NEW s \in Seq(S), NEW m \in Int, NEW n \in Int, m >= 1, n <= Len(s), m <= n + 1
  PROVE  /\ SubSeq(s, m, n) \in Seq(S) /\ Len(SubSeq(s, m, n)) = n - m + 1
         /\ \A j \in 1 .. n - m + 1 : SubSeq(s, m, n)[j] = s[m + j - 1]
<1>1. CASE m <= n
  <2>1. m \in 1 .. Len(s) /\ n \in m .. Len(s)
    BY <1>1, LenProperties
  <2> QED BY <1>1, <2>1, SubSeqProperties, LenProperties
<1>2. CASE m = n + 1
  BY <1>2, SubSeqEmpty, EmptySeq
<1> QED BY <1>1, <1>2

\* The elements of two sequences joined.
LEMMA ConcatIs ==
  ASSUME NEW S, NEW s \in Seq(S), NEW t \in Seq(S)
  PROVE  /\ s \o t \in Seq(S) /\ Len(s \o t) = Len(s) + Len(t)
         /\ \A j \in 1 .. Len(s) + Len(t) :
              (s \o t)[j] = IF j <= Len(s) THEN s[j] ELSE t[j - Len(s)]
BY ConcatProperties, LenProperties

\* The elements of a sequence with another put in.
LEMMA InsertAtIs ==
  ASSUME NEW S, NEW s \in Seq(S), NEW i \in 1 .. Len(s) + 1, NEW e \in S
  PROVE  /\ InsertAt(s, i, e) \in Seq(S) /\ Len(InsertAt(s, i, e)) = Len(s) + 1
         /\ \A j \in 1 .. Len(s) + 1 :
              InsertAt(s, i, e)[j] = IF j < i THEN s[j] ELSE IF j = i THEN e ELSE s[j - 1]
<1> DEFINE a == SubSeq(s, 1, i - 1)  b == SubSeq(s, i, Len(s))  l == <<e>>
<1>0. Len(s) \in Nat
  BY LenProperties
<1>1. a \in Seq(S) /\ Len(a) = i - 1 /\ \A j \in 1 .. i - 1 : a[j] = s[j]
  <2>1. i - 1 \in Int /\ i - 1 <= Len(s)
    BY <1>0
  <2> QED BY <1>0, <2>1, PieceIs
<1>2. b \in Seq(S) /\ Len(b) = Len(s) - i + 1 /\ \A j \in 1 .. Len(s) - i + 1 : b[j] = s[i + j - 1]
  BY <1>0, PieceIs
<1>3. l \in Seq(S) /\ Len(l) = 1 /\ l[1] = e
  OBVIOUS
<1> HIDE DEF a, b, l
<1>4. a \o l \in Seq(S) /\ Len(a \o l) = i
      /\ \A j \in 1 .. i : (a \o l)[j] = IF j < i THEN s[j] ELSE e
  <2>1. /\ a \o l \in Seq(S) /\ Len(a \o l) = Len(a) + Len(l)
        /\ \A j \in 1 .. Len(a) + Len(l) : (a \o l)[j] = IF j <= Len(a) THEN a[j] ELSE l[j - Len(a)]
    BY <1>1, <1>3, ConcatIs
  <2> QED BY <1>0, <1>1, <1>3, <2>1
<1>5. /\ (a \o l) \o b \in Seq(S) /\ Len((a \o l) \o b) = Len(s) + 1
      /\ \A j \in 1 .. Len(s) + 1 :
           ((a \o l) \o b)[j] = IF j <= i THEN (a \o l)[j] ELSE b[j - i]
  <2> DEFINE c == a \o l
  <2>1. c \in Seq(S) /\ Len(c) = i
    BY <1>4
  <2> HIDE DEF c
  <2>2. /\ c \o b \in Seq(S) /\ Len(c \o b) = Len(c) + Len(b)
        /\ \A j \in 1 .. Len(c) + Len(b) : (c \o b)[j] = IF j <= Len(c) THEN c[j] ELSE b[j - Len(c)]
    BY <2>1, <1>2, ConcatIs
  <2>3. /\ c \o b \in Seq(S) /\ Len(c \o b) = Len(s) + 1
        /\ \A j \in 1 .. Len(s) + 1 : (c \o b)[j] = IF j <= i THEN c[j] ELSE b[j - i]
    BY <1>0, <1>2, <2>1, <2>2
  <2> QED BY <2>3 DEF c
<1> DEFINE v == a \o l  w == v \o b
<1> HIDE DEF v, w
<1>6. ASSUME NEW j \in 1 .. Len(s) + 1
      PROVE  w[j] = IF j < i THEN s[j] ELSE IF j = i THEN e ELSE s[j - 1]
  <2>1. CASE j <= i
    BY <2>1, <1>0, <1>4, <1>5 DEF v, w
  <2>2. CASE j > i
    <3>1. j - i \in 1 .. Len(s) - i + 1 /\ i + (j - i) - 1 = j - 1
      BY <1>0, <2>2
    <3> QED BY <3>1, <2>2, <1>0, <1>2, <1>5 DEF v, w
  <2> QED BY <1>0, <2>1, <2>2
<1> QED BY <1>5, <1>6 DEF InsertAt, a, b, l, v, w

\* The elements of a sequence with one taken out.
LEMMA RemoveAtIs ==
  ASSUME NEW S, NEW s \in Seq(S), NEW i \in 1 .. Len(s)
  PROVE  /\ RemoveAt(s, i) \in Seq(S) /\ Len(RemoveAt(s, i)) = Len(s) - 1
         /\ \A j \in 1 .. Len(s) - 1 : RemoveAt(s, i)[j] = IF j < i THEN s[j] ELSE s[j + 1]
<1> DEFINE a == SubSeq(s, 1, i - 1)  b == SubSeq(s, i + 1, Len(s))
<1>0. Len(s) \in Nat
  BY LenProperties
<1>1. a \in Seq(S) /\ Len(a) = i - 1 /\ \A j \in 1 .. i - 1 : a[j] = s[j]
  BY <1>0, PieceIs
<1>2. b \in Seq(S) /\ Len(b) = Len(s) - i /\ \A j \in 1 .. Len(s) - i : b[j] = s[i + j]
  <2> DEFINE m == i + 1
  <2>1. m \in Int /\ m >= 1 /\ m <= Len(s) + 1
    BY <1>0
  <2> HIDE DEF m
  <2>2. /\ SubSeq(s, m, Len(s)) \in Seq(S) /\ Len(SubSeq(s, m, Len(s))) = Len(s) - m + 1
        /\ \A j \in 1 .. Len(s) - m + 1 : SubSeq(s, m, Len(s))[j] = s[m + j - 1]
    BY <1>0, <2>1, PieceIs
  <2>3. \A j \in 1 .. Len(s) - i : (i + 1) + j - 1 = i + j
    BY <1>0
  <2> QED BY <1>0, <2>1, <2>2, <2>3 DEF m
<1> HIDE DEF a, b
<1>3. /\ a \o b \in Seq(S) /\ Len(a \o b) = Len(s) - 1
      /\ \A j \in 1 .. Len(s) - 1 : (a \o b)[j] = IF j <= i - 1 THEN a[j] ELSE b[j - (i - 1)]
  BY <1>0, <1>1, <1>2, ConcatProperties
<1> DEFINE w == a \o b
<1> HIDE DEF w
<1>4. ASSUME NEW j \in 1 .. Len(s) - 1
      PROVE  w[j] = IF j < i THEN s[j] ELSE s[j + 1]
  <2>1. CASE j < i
    BY <2>1, <1>0, <1>1, <1>3 DEF w
  <2>2. CASE j >= i
    <3>1. j - (i - 1) \in 1 .. Len(s) - i /\ i + (j - (i - 1)) = j + 1
      BY <1>0, <2>2
    <3> QED BY <3>1, <2>2, <1>0, <1>2, <1>3 DEF w
  <2> QED BY <1>0, <2>1, <2>2
<1> QED BY <1>3, <1>4 DEF RemoveAt, a, b, w

\* A set of numbers has a least one.
LEMMA LeastNatural ==
  ASSUME NEW S, S \subseteq Nat, S # {}
  PROVE  \E n \in S : \A m \in S : n <= m
<1> DEFINE Less == {p \in Nat \X Nat : p[1] < p[2]}
<1>1. IsWellFoundedOn(Less, Nat)
  BY NatLessThanWellFounded DEF OpToRel
<1>2. \A m, l \in Nat : m < l => <<m, l>> \in Less
  OBVIOUS
<1> HIDE DEF Less
<1>3. PICK n \in S : \A m \in S : ~ (<<m, n>> \in Less)
  BY <1>1, WFMin
<1>4. ASSUME NEW m \in S PROVE n <= m
  <2>1. ~ (m < n) /\ m \in Nat /\ n \in Nat
    BY <1>2, <1>3
  <2> QED BY <2>1
<1> QED BY <1>4

-----------------------------------------------------------------------------
(***************************************************************************)
(* Two children of p that stand side by side, c at position i and s, and   *)
(* the key between them make one child of the tree jd: merging goes from   *)
(* nd to jd, splitting from jd to nd, and borrowing there and back.        *)
(***************************************************************************)
Joins(nd, jd, p, i, c, s) ==
  LET n == Len(nd[c].keys)
      m == Len(nd[s].keys)
      k == Len(jd[p].keys)
  IN
  /\ p # c /\ p # s /\ c # s /\ i \in 1 .. k + 1
  /\ nd[p] \in Node /\ nd[c] \in Node /\ nd[s] \in Node
  /\ jd[p] \in Node /\ jd[c] \in Node /\ jd[s] = None
  /\ Len(nd[p].keys) = k + 1 /\ Len(nd[p].kids) = k + 2 /\ Len(jd[p].kids) = k + 1
  /\ \A j \in 1 .. k : jd[p].keys[j] = nd[p].keys[IF j < i THEN j ELSE j + 1]
  /\ \A j \in 1 .. k + 1 : jd[p].kids[j] = nd[p].kids[IF j <= i THEN j ELSE j + 1]
  /\ nd[p].kids[i] = c /\ nd[p].kids[i + 1] = s
  /\ Len(jd[c].keys) = n + m + 1
  /\ \A j \in 1 .. n : jd[c].keys[j] = nd[c].keys[j]
  /\ jd[c].keys[n + 1] = nd[p].keys[i]
  /\ \A j \in 1 .. m : jd[c].keys[j + n + 1] = nd[s].keys[j]
  /\ \/ Len(jd[c].kids) = 0 /\ Len(nd[c].kids) = 0 /\ Len(nd[s].kids) = 0
     \/ Len(jd[c].kids) = n + m + 2 /\ Len(nd[c].kids) = n + 1 /\ Len(nd[s].kids) = m + 1
  /\ \A j \in 1 .. Len(nd[c].kids) : jd[c].kids[j] = nd[c].kids[j]
  /\ \A j \in 1 .. Len(nd[s].kids) : jd[c].kids[j + n + 1] = nd[s].kids[j]
  /\ \A x \in Bids \ {p, c, s} : jd[x] = nd[x]

\* The labels of jd, those of nd being L, and of nd, those of jd being L; n is
\* the number of keys of c in nd, sep the key between the children.
JoinedLabel(L, p, i, c, s, n) ==
  [h |-> L.h, lo |-> L.lo,
   hi |-> [x \in Bids |-> IF x = c THEN L.hi[s] ELSE L.hi[x]],
   parent |-> [x \in Bids |-> IF L.parent[x] = s THEN c ELSE L.parent[x]],
   place |-> [x \in Bids |->
     IF L.parent[x] = s THEN L.place[x] + n + 1
     ELSE IF L.parent[x] = p /\ L.place[x] > i THEN L.place[x] - 1 ELSE L.place[x]]]

SplitLabel(L, p, i, c, s, n, sep) ==
  [h |-> [x \in Bids |-> IF x = s THEN L.h[c] ELSE L.h[x]],
   lo |-> [x \in Bids |-> IF x = s THEN sep ELSE L.lo[x]],
   hi |-> [x \in Bids |-> IF x = c THEN sep ELSE IF x = s THEN L.hi[c] ELSE L.hi[x]],
   parent |-> [x \in Bids |->
     IF x = s THEN p ELSE IF L.parent[x] = c /\ L.place[x] > n + 1 THEN s ELSE L.parent[x]],
   place |-> [x \in Bids |->
     IF x = s THEN i + 1
     ELSE IF L.parent[x] = c /\ L.place[x] > n + 1 THEN L.place[x] - n - 1
     ELSE IF L.parent[x] = p /\ L.place[x] > i THEN L.place[x] + 1 ELSE L.place[x]]]

\* What IsTree says of a node and of a child.
LEMMA TreeNode ==
  ASSUME NEW nd, NEW r, NEW L, IsTree(nd, r, L), NEW x \in Bids, nd[x] # None
  PROVE  /\ nd[x] \in Node /\ nd[x].keys \in Seq(Keys) /\ nd[x].kids \in Seq(Bids)
         /\ Len(nd[x].keys) \in Nat /\ Len(nd[x].kids) \in Nat
         /\ DOMAIN nd[x].keys = 1 .. Len(nd[x].keys) /\ DOMAIN nd[x].kids = 1 .. Len(nd[x].kids)
         /\ r \in Bids /\ nd[r] # None /\ L.lo[r] = 0 /\ L.hi[r] = MaxKey + 1
         /\ L.h[x] \in Nat /\ L.lo[x] \in Int /\ L.hi[x] \in Int
         /\ IsLabel(L, x) /\ IsShaped(nd, L, x)
         /\ x # r => HasParent(nd, L, x)
<1>1. /\ nd[x] \in Node /\ IsLabel(L, x) /\ IsShaped(nd, L, x)
      /\ x # r => HasParent(nd, L, x)
      /\ r \in Bids /\ nd[r] # None /\ L.lo[r] = 0 /\ L.hi[r] = MaxKey + 1
  BY DEF IsTree
<1>2. nd[x].keys \in Seq(Keys) /\ nd[x].kids \in Seq(Bids)
  BY <1>1 DEF Node
<1> QED BY <1>1, <1>2, LenProperties, BTreeAssumption DEF IsLabel, IsTree

\* A child is a node of the tree one level down, with the label that names its
\* parent.
LEMMA TreeChild ==
  ASSUME NEW nd, NEW r, NEW L, IsTree(nd, r, L), NEW x \in Bids, nd[x] # None,
         NEW j \in 1 .. Len(nd[x].kids)
  PROVE  /\ nd[x].kids[j] \in Bids /\ nd[nd[x].kids[j]] # None /\ nd[x].kids[j] # r
         /\ nd[x].kids[j] # x
         /\ L.h[x] = L.h[nd[x].kids[j]] + 1
         /\ L.parent[nd[x].kids[j]] = x /\ L.place[nd[x].kids[j]] = j
         /\ L.lo[nd[x].kids[j]] = SepOf(nd, L, x, j - 1)
         /\ L.hi[nd[x].kids[j]] = SepOf(nd, L, x, j)
         /\ Len(nd[x].kids) = Len(nd[x].keys) + 1 /\ j \in DOMAIN nd[x].kids
<1>1. j \in DOMAIN nd[x].kids /\ nd[x].kids[j] \in Bids /\ L.h[x] \in Nat
  BY TreeNode, ElementOfSeq
<1>2. IsChild(nd, r, L, x, j)
  BY <1>1 DEF IsTree
<1>3. Len(nd[x].kids) = Len(nd[x].keys) + 1
  BY TreeNode DEF IsShaped
<1>4. nd[nd[x].kids[j]] # None /\ L.h[x] = L.h[nd[x].kids[j]] + 1
  BY <1>2 DEF IsChild
<1>5. nd[x].kids[j] # x
  BY <1>1, <1>4
<1> QED BY <1>1, <1>2, <1>3, <1>5 DEF IsChild

\* A key of a node, and where the children of a node are.
LEMMA NodeFacts ==
  ASSUME NEW n \in Node
  PROVE  /\ n # None /\ n = [keys |-> n.keys, kids |-> n.kids]
         /\ n.keys \in Seq(Keys) /\ n.kids \in Seq(Bids)
         /\ Len(n.keys) \in Nat /\ Len(n.kids) \in Nat
         /\ DOMAIN n.keys = 1 .. Len(n.keys) /\ DOMAIN n.kids = 1 .. Len(n.kids)
         /\ \A j \in 1 .. Len(n.keys) : n.keys[j] \in Keys
         /\ \A j \in 1 .. Len(n.kids) : n.kids[j] \in Bids
<1>1. n.keys \in Seq(Keys) /\ n.kids \in Seq(Bids) /\ n = [keys |-> n.keys, kids |-> n.kids]
  BY DEF Node
<1>2. n # None
  BY BTreeAssumption
<1> QED BY <1>1, <1>2, LenProperties, ElementOfSeq

\* The bounds around the keys of a node: its own at the ends, its keys between.
LEMMA SepAt ==
  ASSUME NEW nd, NEW L, NEW x, NEW l \in Nat, NEW e, Len(nd[x].keys) = l, e = l + 1
  PROVE  /\ SepOf(nd, L, x, 0) = L.lo[x] /\ SepOf(nd, L, x, e) = L.hi[x]
         /\ \A j \in 1 .. l : SepOf(nd, L, x, j) = nd[x].keys[j]
<1>1. e # 0
  OBVIOUS
<1>2. \A j \in 1 .. l : j # 0 /\ j # e
  OBVIOUS
<1> QED BY <1>1, <1>2 DEF SepOf, Sep

\* Two children joined leave a search tree.
LEMMA MergeTree ==
  ASSUME NEW nd, NEW jd, NEW r, NEW L, NEW p \in Bids, NEW c \in Bids, NEW s \in Bids, NEW i \in Nat,
         IsTree(nd, r, L), Joins(nd, jd, p, i, c, s)
  PROVE  IsTree(jd, r, JoinedLabel(L, p, i, c, s, Len(nd[c].keys)))
<1> DEFINE n == Len(nd[c].keys)
           m == Len(nd[s].keys)
           k == Len(jd[p].keys)
           M == JoinedLabel(L, p, i, c, s, n)
<1>1. nd[p] # None /\ nd[c] # None /\ nd[s] # None /\ jd[p] # None /\ jd[c] # None
  BY NodeFacts DEF Joins
<1>2. n \in Nat /\ m \in Nat /\ k \in Nat
  BY NodeFacts DEF Joins
<1>3. /\ i \in 1 .. k + 1 /\ i + 1 \in 1 .. k + 2
      /\ Len(nd[p].kids) = k + 2 /\ nd[p].kids[i] = c /\ nd[p].kids[i + 1] = s
      /\ p # c /\ p # s /\ c # s
      /\ Len(nd[p].keys) = k + 1 /\ Len(jd[c].keys) = n + m + 1
  BY <1>2 DEF Joins
<1>31. /\ \A j \in 1 .. k : jd[p].keys[j] = nd[p].keys[IF j < i THEN j ELSE j + 1]
       /\ \A j \in 1 .. n : jd[c].keys[j] = nd[c].keys[j]
       /\ jd[c].keys[n + 1] = nd[p].keys[i]
       /\ \A j \in 1 .. m : jd[c].keys[j + n + 1] = nd[s].keys[j]
  BY DEF Joins
<1>32. /\ \A j \in 1 .. k + 1 : jd[p].kids[j] = nd[p].kids[IF j <= i THEN j ELSE j + 1]
       /\ Len(jd[p].kids) = k + 1
       /\ \/ Len(jd[c].kids) = 0 /\ Len(nd[c].kids) = 0 /\ Len(nd[s].kids) = 0
          \/ Len(jd[c].kids) = n + m + 2 /\ Len(nd[c].kids) = n + 1 /\ Len(nd[s].kids) = m + 1
       /\ \A j \in 1 .. Len(nd[c].kids) : jd[c].kids[j] = nd[c].kids[j]
       /\ \A j \in 1 .. Len(nd[s].kids) : jd[c].kids[j + n + 1] = nd[s].kids[j]
       /\ \A x \in Bids \ {p, c, s} : jd[x] = nd[x]
       /\ jd[s] = None /\ jd[p] \in Node /\ jd[c] \in Node
  BY DEF Joins
<1>4. /\ c # r /\ L.h[p] = L.h[c] + 1 /\ L.parent[c] = p /\ L.place[c] = i
      /\ L.lo[c] = SepOf(nd, L, p, i - 1) /\ L.hi[c] = SepOf(nd, L, p, i)
  BY <1>1, <1>3, TreeChild
<1>5. /\ s # r /\ L.h[p] = L.h[s] + 1 /\ L.parent[s] = p /\ L.place[s] = i + 1
      /\ L.lo[s] = SepOf(nd, L, p, i) /\ L.hi[s] = SepOf(nd, L, p, i + 1)
  <2>1. (i + 1) - 1 = i
    OBVIOUS
  <2> QED BY <1>1, <1>3, <2>1, TreeChild
<1>6. /\ M.h = L.h /\ M.lo = L.lo
      /\ \A x \in Bids : /\ M.hi[x] = IF x = c THEN L.hi[s] ELSE L.hi[x]
                         /\ M.parent[x] = IF L.parent[x] = s THEN c ELSE L.parent[x]
                         /\ M.place[x] = IF L.parent[x] = s THEN L.place[x] + n + 1
                                         ELSE IF L.parent[x] = p /\ L.place[x] > i
                                              THEN L.place[x] - 1 ELSE L.place[x]
  BY DEF JoinedLabel
<1>60. Len(nd[c].keys) = n /\ Len(nd[s].keys) = m /\ Len(jd[p].keys) = k
  OBVIOUS
<1> HIDE DEF M, n, m, k
<1>61. /\ SepOf(nd, L, p, 0) = L.lo[p] /\ SepOf(nd, L, p, k + 2) = L.hi[p]
       /\ \A j \in 1 .. k + 1 : SepOf(nd, L, p, j) = nd[p].keys[j]
  BY ONLY <1>2, <1>3, <1>60 DEF SepOf, Sep
<1>62. /\ SepOf(nd, L, c, 0) = L.lo[c] /\ SepOf(nd, L, c, n + 1) = L.hi[c]
       /\ \A j \in 1 .. n : SepOf(nd, L, c, j) = nd[c].keys[j]
  BY ONLY <1>2, <1>60  DEF SepOf, Sep
<1>63. /\ SepOf(nd, L, s, 0) = L.lo[s] /\ SepOf(nd, L, s, m + 1) = L.hi[s]
       /\ \A j \in 1 .. m : SepOf(nd, L, s, j) = nd[s].keys[j]
  BY ONLY <1>2, <1>60  DEF SepOf, Sep
<1>64. /\ SepOf(jd, M, p, 0) = M.lo[p] /\ SepOf(jd, M, p, k + 1) = M.hi[p]
       /\ \A j \in 1 .. k : SepOf(jd, M, p, j) = jd[p].keys[j]
  BY ONLY <1>2, <1>60  DEF SepOf, Sep
<1>65. /\ SepOf(jd, M, c, 0) = M.lo[c] /\ SepOf(jd, M, c, n + m + 2) = M.hi[c]
       /\ \A j \in 1 .. n + m + 1 : SepOf(jd, M, c, j) = jd[c].keys[j]
  BY ONLY <1>2, <1>3, <1>60  DEF SepOf, Sep
<1>7. \A x \in Bids : jd[x] # None <=> nd[x] # None /\ x # s
  BY <1>1, <1>32
<1>8. r \in Bids /\ jd[r] # None /\ M.lo[r] = 0 /\ M.hi[r] = MaxKey + 1
  <2>1. r \in Bids /\ nd[r] # None /\ L.lo[r] = 0 /\ L.hi[r] = MaxKey + 1
    BY <1>1, TreeNode
  <2> QED BY <1>4, <1>5, <1>6, <1>7, <2>1
<1>9. L.h[c] = L.h[s] /\ L.h[c] \in Nat /\ L.h[s] \in Nat /\ L.h[p] \in Nat
  <2>1. L.h[c] \in Nat /\ L.h[s] \in Nat /\ L.h[p] \in Nat
    BY <1>1, TreeNode
  <2> QED BY <1>4, <1>5, <2>1
\* The keys around each position.
<1>10. \A j \in 0 .. k + 1 :
         SepOf(jd, M, p, j) = IF j < i THEN SepOf(nd, L, p, j) ELSE SepOf(nd, L, p, j + 1)
  <2> SUFFICES ASSUME NEW j \in 0 .. k + 1
               PROVE  SepOf(jd, M, p, j) = IF j < i THEN SepOf(nd, L, p, j) ELSE SepOf(nd, L, p, j + 1)
    OBVIOUS
  <2>1. CASE j = 0
    BY <1>2, <1>3, <1>6, <1>61, <1>64, <2>1
  <2>2. CASE j = k + 1
    <3>1. ~ (j < i) /\ j + 1 = k + 2
      BY <1>2, <1>3, <2>2
    <3> QED BY <1>3, <1>6, <1>61, <1>64, <2>2, <3>1
  <2>3. CASE j \in 1 .. k
    <3>1. j \in 1 .. k + 1 /\ j + 1 \in 1 .. k + 1
      BY <1>2, <2>3
    <3> QED BY <1>31, <1>61, <1>64, <2>3, <3>1
  <2> QED BY <1>2, <2>1, <2>2, <2>3
<1>11. SepOf(nd, L, c, n + 1) = SepOf(nd, L, s, 0) /\ SepOf(nd, L, s, 0) = jd[c].keys[n + 1]
  BY <1>3, <1>4, <1>5, <1>31, <1>61, <1>62, <1>63
<1>13. \A j \in 0 .. n + 1 : SepOf(jd, M, c, j) = SepOf(nd, L, c, j)
  <2> SUFFICES ASSUME NEW j \in 0 .. n + 1 PROVE SepOf(jd, M, c, j) = SepOf(nd, L, c, j)
    OBVIOUS
  <2>1. CASE j = 0
    BY <1>6, <1>62, <1>65, <2>1
  <2>2. CASE j = n + 1
    <3>1. n + 1 \in 1 .. n + m + 1
      BY <1>2
    <3> QED BY <1>11, <1>65, <2>2, <3>1
  <2>3. CASE j \in 1 .. n
    <3>1. j \in 1 .. n + m + 1
      BY <1>2, <2>3
    <3> QED BY <1>31, <1>62, <1>65, <2>3, <3>1
  <2> QED BY <1>2, <2>1, <2>2, <2>3
<1>14. \A j \in 0 .. m + 1 : SepOf(jd, M, c, j + n + 1) = SepOf(nd, L, s, j)
  <2> SUFFICES ASSUME NEW j \in 0 .. m + 1 PROVE SepOf(jd, M, c, j + n + 1) = SepOf(nd, L, s, j)
    OBVIOUS
  <2>1. CASE j = 0
    <3>1. n + 1 \in 1 .. n + m + 1 /\ j + n + 1 = n + 1
      BY <1>2, <2>1
    <3> QED BY <1>11, <1>65, <2>1, <3>1
  <2>2. CASE j = m + 1
    <3>1. j + n + 1 = n + m + 2
      BY <1>2, <2>2
    <3> QED BY <1>6, <1>63, <1>65, <2>2, <3>1
  <2>3. CASE j \in 1 .. m
    <3>1. j + n + 1 \in 1 .. n + m + 1
      BY <1>2, <2>3
    <3> QED BY <1>31, <1>63, <1>65, <2>3, <3>1
  <2> QED BY <1>2, <2>1, <2>2, <2>3
<1>15. IsShaped(jd, M, p)
  <2>1. Len(jd[p].kids) = IF M.h[p] = 0 THEN 0 ELSE Len(jd[p].keys) + 1
    BY <1>4, <1>6, <1>9, <1>32, <1>60
  <2>2. \A j, l \in 0 .. k + 2 : j < l => SepOf(nd, L, p, j) < SepOf(nd, L, p, l)
    <3>1. IsShaped(nd, L, p) /\ Len(nd[p].keys) + 1 = k + 2
      BY <1>1, <1>2, <1>3, TreeNode
    <3> QED BY ONLY <3>1 DEF IsShaped
  <2>3. ASSUME NEW j \in 0 .. k + 1, NEW l \in 0 .. k + 1, j < l
        PROVE  SepOf(jd, M, p, j) < SepOf(jd, M, p, l)
    <3>1. j \in 0 .. k + 2 /\ l \in 0 .. k + 2 /\ j + 1 \in 0 .. k + 2 /\ l + 1 \in 0 .. k + 2
      BY ONLY <1>2
    <3>2. SepOf(nd, L, p, j) < SepOf(nd, L, p, l) /\ SepOf(nd, L, p, j + 1) < SepOf(nd, L, p, l + 1)
          /\ SepOf(nd, L, p, j) < SepOf(nd, L, p, l + 1)
      BY ONLY <2>2, <2>3, <3>1
    <3> QED BY ONLY <1>2, <1>3, <1>10, <2>3, <3>2
  <2> QED BY <2>1, <2>3, <1>60 DEF IsShaped
<1>16. IsShaped(jd, M, c)
  <2>1. Len(jd[c].kids) = IF M.h[c] = 0 THEN 0 ELSE Len(jd[c].keys) + 1
    <3>1. Len(nd[c].kids) = IF L.h[c] = 0 THEN 0 ELSE n + 1
      BY <1>1, <1>60, TreeNode DEF IsShaped
    <3> QED BY <1>2, <1>3, <1>6, <1>32, <3>1
  <2>2. \A j, l \in 0 .. n + 1 : j < l => SepOf(jd, M, c, j) < SepOf(jd, M, c, l)
    <3>1. IsShaped(nd, L, c) /\ Len(nd[c].keys) = n
      BY <1>1, <1>60, TreeNode
    <3> QED BY ONLY <3>1, <1>13 DEF IsShaped
  <2>3. \A j, l \in 0 .. m + 1 : j < l => SepOf(jd, M, c, j + n + 1) < SepOf(jd, M, c, l + n + 1)
    <3>1. IsShaped(nd, L, s) /\ Len(nd[s].keys) = m
      BY <1>1, <1>60, TreeNode
    <3> QED BY ONLY <3>1, <1>14 DEF IsShaped
  <2>4. \A j \in 0 .. n + m + 2 : SepOf(jd, M, c, j) \in Int
    <3>1. IsLabel(L, c) /\ IsLabel(L, s)
      BY <1>1, TreeNode
    <3>2. M.lo[c] \in Int /\ M.hi[c] \in Int
      BY <1>6, <3>1 DEF IsLabel
    <3>3. \A j \in 1 .. n + m + 1 : jd[c].keys[j] \in Int
      BY <1>3, <1>32, NodeFacts DEF Keys
    <3> QED BY ONLY <1>2, <1>65, <3>2, <3>3
  <2>5. ASSUME NEW j \in 0 .. n + m + 2, NEW l \in 0 .. n + m + 2, j < l
        PROVE  SepOf(jd, M, c, j) < SepOf(jd, M, c, l)
    <3>1. CASE l <= n + 1
      BY ONLY <1>2, <2>2, <2>5, <3>1
    <3>2. CASE j >= n + 1
      <4>1. j - n - 1 \in 0 .. m + 1 /\ l - n - 1 \in 0 .. m + 1
            /\ (j - n - 1) + n + 1 = j /\ (l - n - 1) + n + 1 = l /\ j - n - 1 < l - n - 1
        BY ONLY <1>2, <2>5, <3>2
      <4> QED BY ONLY <2>3, <4>1
    <3>3. CASE j < n + 1 /\ l > n + 1
      <4>1. SepOf(jd, M, c, j) < SepOf(jd, M, c, n + 1)
        BY ONLY <1>2, <2>2, <2>5, <3>3
      <4>2. SepOf(jd, M, c, n + 1) < SepOf(jd, M, c, l)
        <5>1. l - n - 1 \in 0 .. m + 1 /\ 0 \in 0 .. m + 1 /\ 0 < l - n - 1
              /\ (l - n - 1) + n + 1 = l /\ 0 + n + 1 = n + 1
          BY ONLY <1>2, <3>3
        <5> QED BY ONLY <2>3, <5>1
      <4>3. n + 1 \in 0 .. n + m + 2
        BY ONLY <1>2
      <4> QED BY ONLY <2>4, <4>1, <4>2, <4>3
    <3> QED BY ONLY <1>2, <3>1, <3>2, <3>3
  <2> QED BY ONLY <1>2, <1>3, <2>1, <2>5 DEF IsShaped
<1>17. ASSUME NEW x \in Bids \ {p, c, s}
       PROVE  \A j : SepOf(jd, M, x, j) = SepOf(nd, L, x, j)
  BY <1>6, <1>32 DEF SepOf, Sep
<1>18. ASSUME NEW j \in 1 .. k + 1
       PROVE  IsChild(jd, r, M, p, j)
  <2> DEFINE g == IF j <= i THEN j ELSE j + 1
             d == nd[p].kids[g]
  <2>1. g \in 1 .. k + 2 /\ g # i + 1 /\ jd[p].kids[j] = d
    BY ONLY <1>2, <1>3, <1>18, <1>32
  <2> HIDE DEF g
  <2>2. /\ d \in Bids /\ nd[d] # None /\ d # r /\ L.h[p] = L.h[d] + 1
        /\ L.parent[d] = p /\ L.place[d] = g
        /\ L.lo[d] = SepOf(nd, L, p, g - 1) /\ L.hi[d] = SepOf(nd, L, p, g)
    <3>1. g \in 1 .. Len(nd[p].kids)
      BY <1>3, <2>1
    <3> QED BY ONLY <1>1, <3>1, TreeChild, IsTree(nd, r, L), p \in Bids
  <2> HIDE DEF d
  <2>3. d # s
    BY <1>5, <2>1, <2>2
  <2>4. M.parent[d] = p /\ M.place[d] = j
    BY <1>2, <1>3, <1>6, <2>2 DEF g
  <2>5. M.lo[d] = SepOf(jd, M, p, j - 1)
    <3>1. j - 1 \in 0 .. k + 1 /\ (j - 1 < i => g - 1 = j - 1) /\ (~ (j - 1 < i) => g - 1 = j)
          /\ (j - 1) + 1 = j
      BY <1>2, <1>3 DEF g
    <3> QED BY <1>6, <1>10, <2>2, <3>1
  <2>6. M.hi[d] = SepOf(jd, M, p, j)
    <3>1. CASE j = i
      <4>1. g = i /\ d = c /\ j \in 0 .. k + 1 /\ ~ (j < i)
        BY <1>2, <1>3, <2>1, <3>1 DEF g, d
      <4> QED BY <1>5, <1>6, <1>10, <3>1, <4>1
    <3>2. CASE j # i
      <4>1. g # i /\ d # c /\ j \in 0 .. k + 1 /\ g = IF j < i THEN j ELSE j + 1
        BY <1>2, <1>3, <1>4, <2>2, <3>2 DEF g
      <4> QED BY <1>6, <1>10, <2>2, <4>1
    <3> QED BY <3>1, <3>2
  <2>7. jd[d] # None
    BY <1>7, <2>2, <2>3
  <2> QED BY <1>6, <2>1, <2>2, <2>4, <2>5, <2>6, <2>7 DEF IsChild
<1>19. ASSUME NEW j \in 1 .. Len(jd[c].kids)
       PROVE  IsChild(jd, r, M, c, j)
  <2>0. Len(jd[c].kids) = n + m + 2 /\ Len(nd[c].kids) = n + 1 /\ Len(nd[s].kids) = m + 1
        /\ j \in 1 .. n + m + 2
    BY <1>32
  <2>1. CASE j <= n + 1
    <3> DEFINE d == nd[c].kids[j]
    <3>1. j \in 1 .. n + 1 /\ jd[c].kids[j] = d
      BY ONLY <1>2, <1>32, <2>0, <2>1
    <3>2. /\ d \in Bids /\ nd[d] # None /\ d # r /\ L.h[c] = L.h[d] + 1
          /\ L.parent[d] = c /\ L.place[d] = j
          /\ L.lo[d] = SepOf(nd, L, c, j - 1) /\ L.hi[d] = SepOf(nd, L, c, j)
      BY <1>1, <2>0, <3>1, TreeChild
    <3> HIDE DEF d
    <3>3. d # s /\ d # c
      BY <1>3, <1>4, <1>5, <3>2
    <3>4. j - 1 \in 0 .. n + 1 /\ j \in 0 .. n + 1
      BY <1>2, <3>1
    <3> QED BY <1>3, <1>6, <1>7, <1>13, <3>1, <3>2, <3>3, <3>4 DEF IsChild
  <2>2. CASE j > n + 1
    <3> DEFINE g == j - n - 1
               d == nd[s].kids[g]
    <3>1. g \in 1 .. m + 1 /\ g + n + 1 = j /\ jd[c].kids[j] = d
      <4>1. g \in 1 .. m + 1 /\ g + n + 1 = j
        BY ONLY <1>2, <2>0, <2>2
      <4> HIDE DEF g
      <4> QED BY ONLY <1>32, <2>0, <4>1
    <3>2. /\ d \in Bids /\ nd[d] # None /\ d # r /\ L.h[s] = L.h[d] + 1
          /\ L.parent[d] = s /\ L.place[d] = g
          /\ L.lo[d] = SepOf(nd, L, s, g - 1) /\ L.hi[d] = SepOf(nd, L, s, g)
      BY <1>1, <2>0, <3>1, TreeChild
    <3> HIDE DEF g, d
    <3>3. d # s /\ d # c
      BY <1>3, <1>4, <1>5, <3>2
    <3>4. g - 1 \in 0 .. m + 1 /\ g \in 0 .. m + 1 /\ (g - 1) + n + 1 = j - 1
      BY <1>2, <3>1
    <3>5. SepOf(nd, L, s, g - 1) = SepOf(jd, M, c, j - 1) /\ SepOf(nd, L, s, g) = SepOf(jd, M, c, j)
      BY ONLY <1>14, <3>1, <3>4
    <3>6. M.place[d] = j /\ M.parent[d] = c
      BY <1>6, <3>1, <3>2
    <3> QED BY <1>6, <1>7, <1>9, <3>1, <3>2, <3>3, <3>5, <3>6 DEF IsChild
  <2> QED BY <1>2, <2>0, <2>1, <2>2
<1>20. ASSUME NEW x \in Bids \ {p, c, s}, nd[x] # None, NEW j \in 1 .. Len(nd[x].kids)
       PROVE  IsChild(jd, r, M, x, j)
  <2> DEFINE d == nd[x].kids[j]
  <2>1. /\ d \in Bids /\ nd[d] # None /\ d # r /\ L.h[x] = L.h[d] + 1
        /\ L.parent[d] = x /\ L.place[d] = j
        /\ L.lo[d] = SepOf(nd, L, x, j - 1) /\ L.hi[d] = SepOf(nd, L, x, j)
    BY <1>20, TreeChild
  <2>2. jd[x].kids[j] = d
    BY <1>32
  <2> HIDE DEF d
  <2>3. d # c /\ d # s
    BY <1>4, <1>5, <2>1
  <2> QED BY <1>6, <1>7, <1>17, <2>1, <2>2, <2>3 DEF IsChild
<1>22. ASSUME NEW x \in Bids, x # s, x # r, nd[x] # None
       PROVE  HasParent(jd, M, x)
  <2> DEFINE y == L.parent[x]
             j == L.place[x]
  <2>1. y \in Bids /\ nd[y] # None /\ j \in DOMAIN nd[y].kids /\ nd[y].kids[j] = x
    BY <1>22, TreeNode DEF HasParent
  <2> HIDE DEF y, j
  <2>2. j \in 1 .. Len(nd[y].kids)
    BY <2>1, TreeNode
  <2>3. DOMAIN jd[p].kids = 1 .. Len(jd[p].kids) /\ DOMAIN jd[c].kids = 1 .. Len(jd[c].kids)
    BY <1>32, NodeFacts
  <2>4. CASE y = s
    <3>1. M.parent[x] = c /\ M.place[x] = j + n + 1
      BY <1>6, <2>4 DEF y, j
    <3>2. Len(nd[s].kids) = m + 1 /\ Len(jd[c].kids) = n + m + 2
      BY <1>32, <2>2, <2>4
    <3>3. j \in 1 .. Len(nd[s].kids) /\ j + n + 1 \in 1 .. n + m + 2
      BY ONLY <1>2, <2>2, <2>4, <3>2
    <3>4. jd[c].kids[j + n + 1] = x
      BY ONLY <1>32, <2>1, <2>4, <3>3
    <3> QED BY <1>1, <2>3, <3>1, <3>2, <3>3, <3>4 DEF HasParent
  <2>5. CASE y = p
    <3>1. j # i + 1 /\ j \in 1 .. k + 2
      BY <1>3, <1>22, <2>1, <2>2, <2>5
    <3>2. M.parent[x] = p /\ M.place[x] = IF j > i THEN j - 1 ELSE j
      BY <1>3, <1>6, <2>5 DEF y, j
    <3>3. (IF j > i THEN j - 1 ELSE j) \in 1 .. k + 1
      BY <1>2, <1>3, <3>1
    <3>4. jd[p].kids[IF j > i THEN j - 1 ELSE j] = x
      <4>1. CASE j > i
        <5>1. j - 1 \in 1 .. k + 1 /\ ~ (j - 1 <= i) /\ (j - 1) + 1 = j
          BY <1>2, <1>3, <3>1, <4>1
        <5> QED BY <1>32, <2>1, <2>5, <4>1, <5>1
      <4>2. CASE ~ (j > i)
        <5>1. j \in 1 .. k + 1 /\ j <= i
          BY <1>2, <1>3, <3>1, <4>2
        <5> QED BY <1>32, <2>1, <2>5, <4>2, <5>1
      <4> QED BY <4>1, <4>2
    <3> QED BY <1>1, <1>32, <2>3, <3>2, <3>3, <3>4 DEF HasParent
  <2>6. CASE y = c
    <3>1. M.parent[x] = c /\ M.place[x] = j
      BY <1>3, <1>6, <2>6 DEF y, j
    <3>2. j \in 1 .. Len(jd[c].kids) /\ jd[c].kids[j] = x
      BY <1>2, <1>32, <2>1, <2>2, <2>6
    <3> QED BY <1>1, <2>3, <3>1, <3>2 DEF HasParent
  <2>7. CASE y \notin {p, c, s}
    <3>1. M.parent[x] = y /\ M.place[x] = j
      BY <1>6, <2>7 DEF y, j
    <3> QED BY <1>7, <1>32, <2>1, <2>7, <3>1 DEF HasParent
  <2> QED BY <2>4, <2>5, <2>6, <2>7
<1>23. ASSUME NEW x \in Bids, jd[x] # None
       PROVE  /\ jd[x] \in Node /\ IsLabel(M, x) /\ IsShaped(jd, M, x)
              /\ \A j \in DOMAIN jd[x].kids : IsChild(jd, r, M, x, j)
              /\ x # r => HasParent(jd, M, x)
  <2>1. x # s /\ nd[x] # None
    BY <1>7, <1>23
  <2>2. jd[x] \in Node
    BY <1>32, <2>1, TreeNode
  <2>3. IsLabel(M, x)
    <3>1. IsLabel(L, x) /\ IsLabel(L, s)
      BY <1>1, <2>1, TreeNode
    <3> QED BY <1>6, <3>1 DEF IsLabel
  <2>4. IsShaped(jd, M, x)
    <3>1. CASE x \notin {p, c, s}
      <4>1. IsShaped(nd, L, x)
        BY <2>1, TreeNode
      <4> QED BY <1>6, <1>17, <1>32, <3>1, <4>1 DEF IsShaped
    <3> QED BY <1>15, <1>16, <2>1, <3>1
  <2>5. ASSUME NEW j \in DOMAIN jd[x].kids PROVE IsChild(jd, r, M, x, j)
    <3>1. j \in 1 .. Len(jd[x].kids)
      BY <2>2, NodeFacts
    <3> QED BY <1>18, <1>19, <1>20, <1>32, <2>1, <3>1
  <2> QED BY <1>22, <2>1, <2>2, <2>3, <2>4, <2>5
<1>24. IsTree(jd, r, M)
  BY <1>8, <1>23 DEF IsTree
<1> QED BY <1>24 DEF M, n

\* And a child divided in two does.
LEMMA SplitTree ==
  ASSUME NEW nd, NEW jd, NEW r, NEW L, NEW p \in Bids, NEW c \in Bids, NEW s \in Bids, NEW i \in Nat,
         IsTree(jd, r, L), Joins(nd, jd, p, i, c, s)
  PROVE  IsTree(nd, r, SplitLabel(L, p, i, c, s, Len(nd[c].keys), nd[p].keys[i]))
<1> DEFINE n == Len(nd[c].keys)
           m == Len(nd[s].keys)
           k == Len(jd[p].keys)
           sep == nd[p].keys[i]
           M == SplitLabel(L, p, i, c, s, n, sep)
<1>1. nd[p] # None /\ nd[c] # None /\ nd[s] # None /\ jd[p] # None /\ jd[c] # None
  BY NodeFacts DEF Joins
<1>2. n \in Nat /\ m \in Nat /\ k \in Nat
  BY NodeFacts DEF Joins
<1>3. /\ i \in 1 .. k + 1 /\ i + 1 \in 1 .. k + 2
      /\ Len(nd[p].kids) = k + 2 /\ nd[p].kids[i] = c /\ nd[p].kids[i + 1] = s
      /\ p # c /\ p # s /\ c # s
      /\ Len(nd[p].keys) = k + 1 /\ Len(jd[c].keys) = n + m + 1
  BY <1>2 DEF Joins
<1>31. /\ \A j \in 1 .. k : jd[p].keys[j] = nd[p].keys[IF j < i THEN j ELSE j + 1]
       /\ \A j \in 1 .. n : jd[c].keys[j] = nd[c].keys[j]
       /\ jd[c].keys[n + 1] = sep
       /\ \A j \in 1 .. m : jd[c].keys[j + n + 1] = nd[s].keys[j]
  BY DEF Joins
<1>32. /\ \A j \in 1 .. k + 1 : jd[p].kids[j] = nd[p].kids[IF j <= i THEN j ELSE j + 1]
       /\ Len(jd[p].kids) = k + 1
       /\ \/ Len(jd[c].kids) = 0 /\ Len(nd[c].kids) = 0 /\ Len(nd[s].kids) = 0
          \/ Len(jd[c].kids) = n + m + 2 /\ Len(nd[c].kids) = n + 1 /\ Len(nd[s].kids) = m + 1
       /\ \A j \in 1 .. Len(nd[c].kids) : jd[c].kids[j] = nd[c].kids[j]
       /\ \A j \in 1 .. Len(nd[s].kids) : jd[c].kids[j + n + 1] = nd[s].kids[j]
       /\ \A x \in Bids \ {p, c, s} : jd[x] = nd[x]
       /\ jd[s] = None /\ nd[p] \in Node /\ nd[c] \in Node /\ nd[s] \in Node
  BY DEF Joins
<1>4. /\ c # r /\ L.h[p] = L.h[c] + 1 /\ L.parent[c] = p /\ L.place[c] = i
      /\ L.lo[c] = SepOf(jd, L, p, i - 1) /\ L.hi[c] = SepOf(jd, L, p, i)
  <2>1. jd[p].kids[i] = c /\ i \in 1 .. Len(jd[p].kids)
    BY <1>2, <1>3, <1>32
  <2> QED BY ONLY <1>1, <2>1, TreeChild, IsTree(jd, r, L), p \in Bids
<1>6. \A x \in Bids :
        /\ M.h[x] = IF x = s THEN L.h[c] ELSE L.h[x]
        /\ M.lo[x] = IF x = s THEN sep ELSE L.lo[x]
        /\ M.hi[x] = IF x = c THEN sep ELSE IF x = s THEN L.hi[c] ELSE L.hi[x]
        /\ M.parent[x] = IF x = s THEN p
                         ELSE IF L.parent[x] = c /\ L.place[x] > n + 1 THEN s ELSE L.parent[x]
        /\ M.place[x] = IF x = s THEN i + 1
                        ELSE IF L.parent[x] = c /\ L.place[x] > n + 1 THEN L.place[x] - n - 1
                        ELSE IF L.parent[x] = p /\ L.place[x] > i THEN L.place[x] + 1 ELSE L.place[x]
  BY DEF SplitLabel
<1>60. Len(nd[c].keys) = n /\ Len(nd[s].keys) = m /\ Len(jd[p].keys) = k
  OBVIOUS
<1> HIDE DEF M, n, m, k, sep
<1>61. /\ SepOf(jd, L, p, 0) = L.lo[p] /\ SepOf(jd, L, p, k + 1) = L.hi[p]
       /\ \A j \in 1 .. k : SepOf(jd, L, p, j) = jd[p].keys[j]
  BY ONLY <1>2, <1>60 DEF SepOf, Sep
<1>62. /\ SepOf(jd, L, c, 0) = L.lo[c] /\ SepOf(jd, L, c, n + m + 2) = L.hi[c]
       /\ \A j \in 1 .. n + m + 1 : SepOf(jd, L, c, j) = jd[c].keys[j]
  BY ONLY <1>2, <1>3 DEF SepOf, Sep
<1>63. /\ SepOf(nd, M, p, 0) = M.lo[p] /\ SepOf(nd, M, p, k + 2) = M.hi[p]
       /\ \A j \in 1 .. k + 1 : SepOf(nd, M, p, j) = nd[p].keys[j]
  BY ONLY <1>2, <1>3 DEF SepOf, Sep
<1>64. /\ SepOf(nd, M, c, 0) = M.lo[c] /\ SepOf(nd, M, c, n + 1) = M.hi[c]
       /\ \A j \in 1 .. n : SepOf(nd, M, c, j) = nd[c].keys[j]
  BY ONLY <1>2, <1>60 DEF SepOf, Sep
<1>65. /\ SepOf(nd, M, s, 0) = M.lo[s] /\ SepOf(nd, M, s, m + 1) = M.hi[s]
       /\ \A j \in 1 .. m : SepOf(nd, M, s, j) = nd[s].keys[j]
  BY ONLY <1>2, <1>60 DEF SepOf, Sep
<1>66. \A j \in 1 .. k + 1 : nd[p].keys[j] = IF j < i THEN jd[p].keys[j]
                                             ELSE IF j = i THEN sep ELSE jd[p].keys[j - 1]
  <2> SUFFICES ASSUME NEW j \in 1 .. k + 1
               PROVE  nd[p].keys[j] = IF j < i THEN jd[p].keys[j]
                                      ELSE IF j = i THEN sep ELSE jd[p].keys[j - 1]
    OBVIOUS
  <2>1. CASE j < i
    BY ONLY <1>2, <1>3, <1>31, <2>1, j \in 1 .. k + 1
  <2>2. CASE j > i
    <3>1. j - 1 \in 1 .. k /\ ~ (j - 1 < i) /\ (j - 1) + 1 = j
      BY ONLY <1>2, <1>3, <2>2, j \in 1 .. k + 1
    <3> QED BY ONLY <1>31, <2>2, <3>1, <1>3, j \in 1 .. k + 1
  <2>3. CASE j = i
    BY <1>3, <2>3 DEF sep
  <2> QED BY <1>3, <2>1, <2>2, <2>3
<1>7. \A x \in Bids : nd[x] # None <=> jd[x] # None \/ x = s
  BY <1>1, <1>32
<1>8. r \in Bids /\ nd[r] # None /\ M.lo[r] = 0 /\ M.hi[r] = MaxKey + 1 /\ s # r
  <2>1. r \in Bids /\ jd[r] # None /\ L.lo[r] = 0 /\ L.hi[r] = MaxKey + 1
    BY <1>1, TreeNode
  <2> QED BY <1>4, <1>32, <1>6, <1>7, <2>1
<1>9. L.h[c] \in Nat /\ L.h[p] \in Nat /\ IsShaped(jd, L, p) /\ IsShaped(jd, L, c)
      /\ IsLabel(L, p) /\ IsLabel(L, c)
  BY <1>1, TreeNode
<1>10. \A j, l \in 0 .. n + m + 2 : j < l => SepOf(jd, L, c, j) < SepOf(jd, L, c, l)
  BY ONLY <1>2, <1>3, <1>9 DEF IsShaped
<1>11. \A j, l \in 0 .. k + 1 : j < l => SepOf(jd, L, p, j) < SepOf(jd, L, p, l)
  BY ONLY <1>2, <1>60, <1>9 DEF IsShaped
<1>12. sep = SepOf(jd, L, c, n + 1) /\ n + 1 \in 1 .. n + m + 1
  BY <1>2, <1>31, <1>62
<1>13. \A j \in 0 .. n + 1 : SepOf(nd, M, c, j) = SepOf(jd, L, c, j)
  <2> SUFFICES ASSUME NEW j \in 0 .. n + 1 PROVE SepOf(nd, M, c, j) = SepOf(jd, L, c, j)
    OBVIOUS
  <2>1. CASE j = 0
    BY <1>3, <1>6, <1>62, <1>64, <2>1
  <2>2. CASE j = n + 1
    BY <1>6, <1>12, <1>64, <2>2
  <2>3. CASE j \in 1 .. n
    <3>1. j \in 1 .. n + m + 1
      BY <1>2, <2>3
    <3> QED BY <1>31, <1>62, <1>64, <2>3, <3>1
  <2> QED BY <1>2, <2>1, <2>2, <2>3
<1>14. \A j \in 0 .. m + 1 : SepOf(nd, M, s, j) = SepOf(jd, L, c, j + n + 1)
  <2> SUFFICES ASSUME NEW j \in 0 .. m + 1 PROVE SepOf(nd, M, s, j) = SepOf(jd, L, c, j + n + 1)
    OBVIOUS
  <2>1. CASE j = 0
    <3>1. j + n + 1 = n + 1
      BY <1>2, <2>1
    <3> QED BY <1>6, <1>12, <1>65, <2>1, <3>1
  <2>2. CASE j = m + 1
    <3>1. j + n + 1 = n + m + 2
      BY <1>2, <2>2
    <3> QED BY <1>3, <1>6, <1>62, <1>65, <2>2, <3>1
  <2>3. CASE j \in 1 .. m
    <3>1. j + n + 1 \in 1 .. n + m + 1
      BY <1>2, <2>3
    <3> QED BY <1>31, <1>62, <1>65, <2>3, <3>1
  <2> QED BY <1>2, <2>1, <2>2, <2>3
<1>15. \A j \in 0 .. k + 2 : SepOf(nd, M, p, j) = IF j < i THEN SepOf(jd, L, p, j)
                                                  ELSE IF j = i THEN sep ELSE SepOf(jd, L, p, j - 1)
  <2> SUFFICES ASSUME NEW j \in 0 .. k + 2
               PROVE  SepOf(nd, M, p, j) = IF j < i THEN SepOf(jd, L, p, j)
                                           ELSE IF j = i THEN sep ELSE SepOf(jd, L, p, j - 1)
    OBVIOUS
  <2>1. CASE j = 0
    BY <1>2, <1>3, <1>6, <1>61, <1>63, <2>1
  <2>2. CASE j = k + 2
    <3>1. ~ (j < i) /\ j # i /\ j - 1 = k + 1
      BY <1>2, <1>3, <2>2
    <3> QED BY <1>3, <1>6, <1>61, <1>63, <2>2, <3>1
  <2>3. CASE j \in 1 .. k + 1
    <3>1. SepOf(nd, M, p, j) = IF j < i THEN jd[p].keys[j]
                               ELSE IF j = i THEN sep ELSE jd[p].keys[j - 1]
      BY <1>63, <1>66, <2>3
    <3>2. (j < i => j \in 1 .. k) /\ (j > i => j - 1 \in 1 .. k)
      BY <1>2, <1>3, <2>3
    <3>3. i \in Int /\ j \in Int
      OBVIOUS
    <3> QED BY ONLY <1>61, <3>1, <3>2, <3>3
  <2> QED BY ONLY <1>2, j \in 0 .. k + 2, <2>1, <2>2, <2>3

<1>16. IsShaped(nd, M, p)
  <2>1. Len(nd[p].kids) = IF M.h[p] = 0 THEN 0 ELSE Len(nd[p].keys) + 1
    BY <1>2, <1>3, <1>4, <1>6, <1>9
  <2>2. SepOf(jd, L, p, i - 1) < sep /\ sep < SepOf(jd, L, p, i) /\ sep \in Int
    <3>1. SepOf(jd, L, c, 0) < sep /\ sep < SepOf(jd, L, c, n + m + 2)
      BY <1>2, <1>10, <1>12
    <3>2. sep \in Keys
      BY <1>3, <1>32, NodeFacts DEF sep
    <3> QED BY <1>4, <1>62, <3>1, <3>2 DEF Keys
  <2>3. \A j \in 0 .. k + 1 : SepOf(jd, L, p, j) \in Int
    <3>1. \A j \in 1 .. k : jd[p].keys[j] \in Int
      BY <1>1, <1>60, TreeNode, NodeFacts DEF Keys
    <3>2. L.lo[p] \in Int /\ L.hi[p] \in Int
      BY <1>9 DEF IsLabel
    <3> QED BY ONLY <1>2, <1>61, <3>1, <3>2
  <2>4. ASSUME NEW j \in 0 .. k + 2, NEW l \in 0 .. k + 2, j < l
        PROVE  SepOf(nd, M, p, j) < SepOf(nd, M, p, l)
    <3>1. CASE l < i \/ j > i
      <4>1. \/ j < i /\ l < i /\ j \in 0 .. k + 1 /\ l \in 0 .. k + 1
            \/ j > i /\ l > i /\ j - 1 \in 0 .. k + 1 /\ l - 1 \in 0 .. k + 1 /\ j - 1 < l - 1
        BY ONLY <1>2, <1>3, <2>4, <3>1
      <4>2. i \in Int /\ j \in Int /\ l \in Int
        OBVIOUS
      <4> QED BY ONLY <1>11, <1>15, <2>4, <4>1, <4>2
    <3>2. ASSUME NEW g \in 0 .. k + 2, g < i PROVE SepOf(nd, M, p, g) < sep
      <4>1. g \in 0 .. k + 1 /\ i - 1 \in 0 .. k + 1 /\ g <= i - 1
        BY ONLY <1>2, <1>3, <3>2
      <4>2. SepOf(jd, L, p, g) <= SepOf(jd, L, p, i - 1)
        BY ONLY <1>11, <2>3, <4>1
      <4>3. SepOf(nd, M, p, g) = SepOf(jd, L, p, g)
        BY ONLY <1>15, <3>2
      <4> QED BY ONLY <2>2, <2>3, <4>1, <4>2, <4>3
    <3>3. ASSUME NEW g \in 0 .. k + 2, g > i PROVE sep < SepOf(nd, M, p, g)
      <4>1. g - 1 \in 0 .. k + 1 /\ i \in 0 .. k + 1 /\ i <= g - 1 /\ ~ (g < i) /\ g # i
        BY ONLY <1>2, <1>3, <3>3
      <4>2. SepOf(jd, L, p, i) <= SepOf(jd, L, p, g - 1)
        BY ONLY <1>11, <2>3, <4>1
      <4>3. SepOf(nd, M, p, g) = SepOf(jd, L, p, g - 1)
        BY ONLY <1>15, <3>3, <4>1
      <4> QED BY ONLY <2>2, <2>3, <4>1, <4>2, <4>3
    <3>4. SepOf(nd, M, p, i) = sep
      <4>1. i \in 0 .. k + 2 /\ ~ (i < i)
        BY ONLY <1>2, <1>3
      <4> QED BY ONLY <1>15, <4>1
    <3>5. CASE j < i /\ l > i
      <4>1. SepOf(nd, M, p, j) \in Int /\ SepOf(nd, M, p, l) \in Int
        <5>1. j \in 0 .. k + 1 /\ l - 1 \in 0 .. k + 1 /\ ~ (l < i) /\ l # i
          BY ONLY <1>2, <1>3, <2>4, <3>5
        <5> QED BY ONLY <1>15, <2>3, <3>5, <5>1, j \in 0 .. k + 2, l \in 0 .. k + 2
      <4>2. SepOf(nd, M, p, j) < sep /\ sep < SepOf(nd, M, p, l)
        BY ONLY <3>2, <3>3, <3>5, j \in 0 .. k + 2, l \in 0 .. k + 2
      <4> QED BY ONLY <2>2, <4>1, <4>2
    <3>6. CASE j = i \/ l = i
      BY ONLY <1>2, <1>3, <2>4, <3>2, <3>3, <3>4, <3>6
    <3> QED BY ONLY <1>2, <1>3, <2>4, <3>1, <3>5, <3>6
  <2> QED BY ONLY <1>2, <1>3, <2>1, <2>4 DEF IsShaped
<1>17. IsShaped(nd, M, c) /\ IsShaped(nd, M, s)
  <2>1. /\ Len(nd[c].kids) = IF M.h[c] = 0 THEN 0 ELSE n + 1
        /\ Len(nd[s].kids) = IF M.h[s] = 0 THEN 0 ELSE m + 1
    <3>1. Len(jd[c].kids) = IF L.h[c] = 0 THEN 0 ELSE n + m + 2
      BY <1>2, <1>3, <1>9 DEF IsShaped
    <3> QED BY <1>2, <1>3, <1>6, <1>32, <3>1
  <2>2. ASSUME NEW j \in 0 .. n + 1, NEW l \in 0 .. n + 1, j < l
        PROVE  SepOf(nd, M, c, j) < SepOf(nd, M, c, l)
    <3>1. j \in 0 .. n + m + 2 /\ l \in 0 .. n + m + 2
      BY ONLY <1>2
    <3> QED BY <1>10, <1>13, <2>2, <3>1
  <2>3. ASSUME NEW j \in 0 .. m + 1, NEW l \in 0 .. m + 1, j < l
        PROVE  SepOf(nd, M, s, j) < SepOf(nd, M, s, l)
    <3>1. j + n + 1 \in 0 .. n + m + 2 /\ l + n + 1 \in 0 .. n + m + 2 /\ j + n + 1 < l + n + 1
      BY ONLY <1>2, <2>3
    <3> QED BY <1>10, <1>14, <3>1
  <2> QED BY ONLY <1>60, <2>1, <2>2, <2>3 DEF IsShaped
<1>18. ASSUME NEW x \in Bids \ {p, c, s}
       PROVE  \A j : SepOf(nd, M, x, j) = SepOf(jd, L, x, j)
  BY <1>6, <1>32 DEF SepOf, Sep
<1>19. ASSUME NEW x \in Bids, jd[x] # None, x # r
       PROVE  /\ L.parent[x] \in Bids /\ jd[L.parent[x]] # None /\ x # s
              /\ L.place[x] \in 1 .. Len(jd[L.parent[x]].kids)
              /\ jd[L.parent[x]].kids[L.place[x]] = x
  <2>1. HasParent(jd, L, x)
    BY <1>19, TreeNode
  <2>2. L.parent[x] \in Bids /\ jd[L.parent[x]] # None
        /\ L.place[x] \in DOMAIN jd[L.parent[x]].kids /\ jd[L.parent[x]].kids[L.place[x]] = x
    BY <2>1 DEF HasParent
  <2>3. DOMAIN jd[L.parent[x]].kids = 1 .. Len(jd[L.parent[x]].kids)
    BY ONLY <2>2, TreeNode, IsTree(jd, r, L)
  <2> QED BY <1>19, <1>32, <2>2, <2>3

<1>20. ASSUME NEW j \in 1 .. k + 2
       PROVE  IsChild(nd, r, M, p, j)
  <2>1. CASE j = i + 1
    <3>1. M.lo[s] = SepOf(nd, M, p, i)
      <4>1. i \in 0 .. k + 2 /\ ~ (i < i)
        BY ONLY <1>2, <1>3
      <4> QED BY <1>6, <1>15, <4>1
    <3>2. M.hi[s] = SepOf(nd, M, p, i + 1)
      <4>1. i + 1 \in 0 .. k + 2 /\ ~ (i + 1 < i) /\ i + 1 # i /\ (i + 1) - 1 = i
        BY ONLY <1>2, <1>3
      <4> QED BY <1>3, <1>4, <1>6, <1>15, <4>1
    <3>3. (i + 1) - 1 = i
      OBVIOUS
    <3> QED BY <1>1, <1>3, <1>4, <1>6, <1>8, <2>1, <3>1, <3>2, <3>3 DEF IsChild
  <2>2. CASE j # i + 1
    <3> DEFINE g == IF j <= i THEN j ELSE j - 1
               d == nd[p].kids[j]
    <3>1. g \in 1 .. k + 1 /\ j = (IF g <= i THEN g ELSE g + 1)
      BY ONLY <1>2, <1>3, <2>2, j \in 1 .. k + 2
    <3> HIDE DEF g
    <3>2. jd[p].kids[g] = d /\ g \in 1 .. Len(jd[p].kids)
      BY <1>32, <3>1
    <3>3. /\ d \in Bids /\ jd[d] # None /\ d # r /\ L.h[p] = L.h[d] + 1
          /\ L.parent[d] = p /\ L.place[d] = g
          /\ L.lo[d] = SepOf(jd, L, p, g - 1) /\ L.hi[d] = SepOf(jd, L, p, g)
      BY ONLY <1>1, <3>2, TreeChild, IsTree(jd, r, L), p \in Bids
    <3> HIDE DEF d
    <3>4. d # s
      BY <1>32, <3>3
    <3>5. M.parent[d] = p /\ M.place[d] = j
      BY <1>2, <1>3, <1>6, <3>1, <3>3, <3>4
    <3>6. M.lo[d] = SepOf(nd, M, p, j - 1)
      <4>1. /\ j - 1 \in 0 .. k + 2 /\ j - 1 # i
            /\ (j - 1 < i => g - 1 = j - 1) /\ (~ (j - 1 < i) => g - 1 = (j - 1) - 1)
        BY ONLY <1>2, <1>3, <2>2, <3>1, j \in 1 .. k + 2
      <4>2. SepOf(nd, M, p, j - 1) = SepOf(jd, L, p, g - 1)
        BY ONLY <1>15, <4>1
      <4> QED BY <1>6, <3>3, <3>4, <4>2
    <3>7. M.hi[d] = SepOf(nd, M, p, j)
      <4>1. CASE j = i
        <5>1. g = i /\ j \in 0 .. k + 2 /\ ~ (j < i)
          BY ONLY <1>2, <1>3, <3>1, <4>1, j \in 1 .. k + 2
        <5>2. d = c
          BY <1>3, <4>1 DEF d
        <5> QED BY <1>6, <1>15, <3>4, <4>1, <5>1, <5>2
      <4>2. CASE j # i
        <5>1. g # i /\ j \in 0 .. k + 2 /\ (j < i => g = j) /\ (~ (j < i) => g = j - 1)
          BY ONLY <1>2, <1>3, <2>2, <3>1, <4>2, j \in 1 .. k + 2
        <5>2. SepOf(nd, M, p, j) = SepOf(jd, L, p, g)
          BY ONLY <1>15, <4>2, <5>1
        <5>3. d # c
          BY <1>4, <3>3, <5>1
        <5> QED BY <1>6, <3>3, <3>4, <5>2, <5>3
      <4> QED BY <4>1, <4>2
    <3> QED BY <1>3, <1>6, <1>7, <3>3, <3>4, <3>5, <3>6, <3>7 DEF IsChild, d
  <2> QED BY <2>1, <2>2
<1>21. ASSUME NEW j \in 1 .. Len(nd[c].kids)
       PROVE  IsChild(nd, r, M, c, j)
  <2> DEFINE d == nd[c].kids[j]
  <2>0. Len(jd[c].kids) = n + m + 2 /\ Len(nd[c].kids) = n + 1 /\ j \in 1 .. n + 1
    BY <1>32
  <2>1. jd[c].kids[j] = d /\ j \in 1 .. Len(jd[c].kids)
    BY <1>2, <1>32, <2>0
  <2>2. /\ d \in Bids /\ jd[d] # None /\ d # r /\ d # c /\ L.h[c] = L.h[d] + 1
        /\ L.parent[d] = c /\ L.place[d] = j
        /\ L.lo[d] = SepOf(jd, L, c, j - 1) /\ L.hi[d] = SepOf(jd, L, c, j)
    BY ONLY <1>1, <2>1, TreeChild, IsTree(jd, r, L), c \in Bids
  <2>3. nd[c].kids[j] = d
    OBVIOUS
  <2> HIDE DEF d
  <2>4. d # s
    BY <1>32, <2>2
  <2>5. SepOf(nd, M, c, j - 1) = SepOf(jd, L, c, j - 1) /\ SepOf(nd, M, c, j) = SepOf(jd, L, c, j)
    <3>1. j - 1 \in 0 .. n + 1 /\ j \in 0 .. n + 1
      BY <1>2, <2>0
    <3> QED BY <1>13, <3>1
  <2>6. M.parent[d] = c /\ M.place[d] = j
    BY <1>2, <1>3, <1>6, <2>0, <2>2, <2>4
  <2> QED BY <1>3, <1>6, <1>7, <2>2, <2>3, <2>4, <2>5, <2>6 DEF IsChild
<1>22. ASSUME NEW j \in 1 .. Len(nd[s].kids)
       PROVE  IsChild(nd, r, M, s, j)
  <2> DEFINE d == nd[s].kids[j]
             g == j + n + 1
  <2>0. Len(jd[c].kids) = n + m + 2 /\ j \in 1 .. m + 1 /\ g \in 1 .. n + m + 2 /\ g = j + n + 1
    BY <1>2, <1>32
  <2>1. jd[c].kids[g] = d /\ g \in 1 .. Len(jd[c].kids)
    BY <1>2, <1>32, <2>0
  <2> HIDE DEF g
  <2>2. /\ d \in Bids /\ jd[d] # None /\ d # r /\ d # c /\ L.h[c] = L.h[d] + 1
        /\ L.parent[d] = c /\ L.place[d] = g
        /\ L.lo[d] = SepOf(jd, L, c, g - 1) /\ L.hi[d] = SepOf(jd, L, c, g)
    BY ONLY <1>1, <2>1, TreeChild, IsTree(jd, r, L), c \in Bids
  <2>3. nd[s].kids[j] = d
    OBVIOUS
  <2> HIDE DEF d
  <2>4. d # s
    BY <1>32, <2>2
  <2>5. SepOf(nd, M, s, j - 1) = SepOf(jd, L, c, g - 1) /\ SepOf(nd, M, s, j) = SepOf(jd, L, c, g)
    <3>1. j - 1 \in 0 .. m + 1 /\ j \in 0 .. m + 1 /\ (j - 1) + n + 1 = g - 1
      BY <1>2, <2>0
    <3> QED BY <1>14, <2>0, <3>1
  <2>6. M.parent[d] = s /\ M.place[d] = j
    <3>1. g > n + 1 /\ g - n - 1 = j
      BY <1>2, <2>0
    <3> QED BY <1>6, <2>2, <2>4, <3>1
  <2> QED BY <1>3, <1>6, <1>7, <2>2, <2>3, <2>4, <2>5, <2>6 DEF IsChild
<1>23. ASSUME NEW x \in Bids \ {p, c, s}, jd[x] # None, NEW j \in 1 .. Len(nd[x].kids)
       PROVE  IsChild(nd, r, M, x, j)
  <2> DEFINE d == nd[x].kids[j]
  <2>1. jd[x].kids[j] = d /\ j \in 1 .. Len(jd[x].kids)
    BY <1>32
  <2>2. /\ d \in Bids /\ jd[d] # None /\ d # r /\ L.h[x] = L.h[d] + 1
        /\ L.parent[d] = x /\ L.place[d] = j
        /\ L.lo[d] = SepOf(jd, L, x, j - 1) /\ L.hi[d] = SepOf(jd, L, x, j)
    BY ONLY <1>23, <2>1, TreeChild, IsTree(jd, r, L), SMTT(40)
  <2>3. nd[x].kids[j] = d
    OBVIOUS
  <2> HIDE DEF d
  <2>4. d # c /\ d # s
    BY <1>4, <1>32, <2>2
  <2> QED BY <1>6, <1>7, <1>18, <2>2, <2>3, <2>4 DEF IsChild
<1>24. ASSUME NEW x \in Bids, jd[x] # None, x # r
       PROVE  HasParent(nd, M, x)
  <2> DEFINE y == L.parent[x]
             j == L.place[x]
  <2>1. y \in Bids /\ jd[y] # None /\ x # s /\ j \in 1 .. Len(jd[y].kids) /\ jd[y].kids[j] = x
    BY <1>19, <1>24
  <2>2. L.parent[x] = y /\ L.place[x] = j
    OBVIOUS
  <2> HIDE DEF y, j
  <2>3. /\ DOMAIN nd[p].kids = 1 .. Len(nd[p].kids) /\ DOMAIN nd[c].kids = 1 .. Len(nd[c].kids)
        /\ DOMAIN nd[s].kids = 1 .. Len(nd[s].kids)
    BY <1>32, NodeFacts
  <2>4. CASE y = c /\ j > n + 1
    <3>1. M.parent[x] = s /\ M.place[x] = j - n - 1
      BY <1>6, <2>1, <2>2, <2>4
    <3>2. Len(nd[s].kids) = m + 1 /\ Len(jd[c].kids) = n + m + 2
      BY <1>2, <1>32, <2>1, <2>4
    <3>3. j - n - 1 \in 1 .. Len(nd[s].kids) /\ (j - n - 1) + n + 1 = j
      BY ONLY <1>2, <2>1, <2>4, <3>2
    <3>4. nd[s].kids[j - n - 1] = x
      BY ONLY <1>32, <2>1, <2>4, <3>3
    <3> QED BY <1>1, <2>3, <3>1, <3>3, <3>4 DEF HasParent
  <2>5. CASE y = c /\ ~ (j > n + 1)
    <3>1. M.parent[x] = c /\ M.place[x] = j
      BY <1>3, <1>6, <2>1, <2>2, <2>5
    <3>2. j \in 1 .. Len(nd[c].kids)
      BY <1>2, <1>32, <2>1, <2>5
    <3> QED BY <1>1, <1>32, <2>1, <2>3, <2>5, <3>1, <3>2 DEF HasParent
  <2>6. CASE y = p
    <3> DEFINE g == IF j <= i THEN j ELSE j + 1
    <3>1. M.parent[x] = p /\ M.place[x] = g
      BY <1>2, <1>3, <1>6, <2>1, <2>2, <2>6
    <3>2. j \in 1 .. k + 1 /\ g \in 1 .. k + 2
      BY <1>2, <1>3, <1>32, <2>1, <2>6
    <3>3. nd[p].kids[g] = x
      BY <1>32, <2>1, <2>6, <3>2
    <3> HIDE DEF g
    <3> QED BY <1>1, <1>3, <2>3, <3>1, <3>2, <3>3 DEF HasParent
  <2>7. CASE y \notin {p, c, s}
    <3>1. M.parent[x] = y /\ M.place[x] = j
      BY <1>6, <2>1, <2>2, <2>7
    <3>2. DOMAIN jd[y].kids = 1 .. Len(jd[y].kids) /\ jd[y] = nd[y]
      BY <1>32, <2>1, <2>7, TreeNode
    <3> QED BY <1>7, <2>1, <2>7, <3>1, <3>2 DEF HasParent
  <2>8. y # s
    BY <1>32, <2>1
  <2> QED BY <2>4, <2>5, <2>6, <2>7, <2>8
<1>25. HasParent(nd, M, s)
  <2>1. DOMAIN nd[p].kids = 1 .. Len(nd[p].kids)
    BY <1>32, NodeFacts
  <2> QED BY <1>1, <1>3, <1>6, <2>1 DEF HasParent
<1>26. ASSUME NEW x \in Bids, nd[x] # None
       PROVE  /\ nd[x] \in Node /\ IsLabel(M, x) /\ IsShaped(nd, M, x)
              /\ \A j \in DOMAIN nd[x].kids : IsChild(nd, r, M, x, j)
              /\ x # r => HasParent(nd, M, x)
  <2>1. x = s \/ jd[x] # None
    BY <1>7, <1>26
  <2>2. nd[x] \in Node
    BY <1>32, <2>1, TreeNode
  <2>3. IsLabel(M, x)
    <3>1. x # s => IsLabel(L, x)
      BY <2>1, TreeNode
    <3>2. sep \in 0 .. MaxKey + 1
      <4>1. sep \in Keys
        BY <1>3, <1>32, NodeFacts DEF sep
      <4> QED BY <4>1, BTreeAssumption DEF Keys
    <3> QED BY <1>6, <1>9, <3>1, <3>2 DEF IsLabel
  <2>4. IsShaped(nd, M, x)
    <3>1. CASE x \notin {p, c, s}
      <4>1. IsShaped(jd, L, x)
        BY <2>1, <3>1, TreeNode
      <4> QED BY <1>6, <1>18, <1>32, <3>1, <4>1, SMTT(40) DEF IsShaped
    <3> QED BY <1>16, <1>17, <3>1
  <2>5. ASSUME NEW j \in DOMAIN nd[x].kids PROVE IsChild(nd, r, M, x, j)
    <3>1. j \in 1 .. Len(nd[x].kids)
      BY <2>2, NodeFacts
    <3> QED BY <1>3, <1>20, <1>21, <1>22, <1>23, <2>1, <3>1
  <2> QED BY <1>24, <1>25, <2>1, <2>2, <2>3, <2>4, <2>5
<1>27. IsTree(nd, r, M)
  BY <1>8, <1>26 DEF IsTree
<1> QED BY <1>27 DEF M, n, sep

\* The elements of a sequence without its last or its first.
LEMMA EndsAre ==
  ASSUME NEW S, NEW s \in Seq(S), Len(s) > 0
  PROVE  /\ Front(s) \in Seq(S) /\ Len(Front(s)) = Len(s) - 1
         /\ \A j \in 1 .. Len(s) - 1 : Front(s)[j] = s[j]
         /\ Tail(s) \in Seq(S) /\ Len(Tail(s)) = Len(s) - 1
         /\ \A j \in 1 .. Len(s) - 1 : Tail(s)[j] = s[j + 1]
         /\ Last(s) = s[Len(s)] /\ Head(s) = s[1] /\ Last(s) \in S /\ Head(s) \in S
<1>0. Len(s) \in Nat /\ s # <<>> /\ DOMAIN s = 1 .. Len(s)
  BY LenProperties, EmptySeq
<1>1. /\ SubSeq(s, 1, Len(s) - 1) \in Seq(S) /\ Len(SubSeq(s, 1, Len(s) - 1)) = Len(s) - 1
      /\ \A j \in 1 .. Len(s) - 1 : SubSeq(s, 1, Len(s) - 1)[j] = s[j]
  <2> DEFINE n == Len(s) - 1
  <2>1. n \in Int /\ n <= Len(s) /\ 1 <= n + 1 /\ n - 1 + 1 = n /\ \A j \in 1 .. n : 1 + j - 1 = j
    BY <1>0
  <2> HIDE DEF n
  <2>2. /\ SubSeq(s, 1, n) \in Seq(S) /\ Len(SubSeq(s, 1, n)) = n - 1 + 1
        /\ \A j \in 1 .. n - 1 + 1 : SubSeq(s, 1, n)[j] = s[1 + j - 1]
    BY <2>1, PieceIs
  <2>3. /\ SubSeq(s, 1, n) \in Seq(S) /\ Len(SubSeq(s, 1, n)) = n
        /\ \A j \in 1 .. n : SubSeq(s, 1, n)[j] = s[j]
    BY <2>1, <2>2
  <2> QED BY <2>3 DEF n
<1>2. /\ Tail(s) \in Seq(S) /\ Len(Tail(s)) = Len(s) - 1 /\ Head(s) \in S
      /\ \A j \in 1 .. Len(s) - 1 : Tail(s)[j] = s[j + 1]
  BY <1>0, HeadTailProperties
<1>3. Last(s) = s[Len(s)] /\ Head(s) = s[1] /\ s[Len(s)] \in S
  BY <1>0, ElementOfSeq DEF Last
<1> QED BY <1>1, <1>2, <1>3 DEF Front

\* The elements of a sequence with one put before or after them.
LEMMA PushIs ==
  ASSUME NEW S, NEW s \in Seq(S), NEW e \in S
  PROVE  /\ <<e>> \o s \in Seq(S) /\ Len(<<e>> \o s) = Len(s) + 1 /\ (<<e>> \o s)[1] = e
         /\ \A j \in 1 .. Len(s) : (<<e>> \o s)[j + 1] = s[j]
         /\ Append(s, e) \in Seq(S) /\ Len(Append(s, e)) = Len(s) + 1
         /\ Append(s, e)[Len(s) + 1] = e
         /\ \A j \in 1 .. Len(s) : Append(s, e)[j] = s[j]
<1> DEFINE l == <<e>>
<1>0. Len(s) \in Nat
  BY LenProperties
<1>1. l \in Seq(S) /\ Len(l) = 1 /\ l[1] = e
  OBVIOUS
<1> HIDE DEF l
<1> DEFINE w == l \o s
<1>2. /\ w \in Seq(S) /\ Len(w) = 1 + Len(s)
      /\ \A j \in 1 .. 1 + Len(s) : w[j] = IF j <= 1 THEN l[j] ELSE s[j - 1]
  <2>1. s \in Seq(S)
    OBVIOUS
  <2>2. /\ l \o s \in Seq(S) /\ Len(l \o s) = Len(l) + Len(s)
        /\ \A j \in 1 .. Len(l) + Len(s) : (l \o s)[j] = IF j <= Len(l) THEN l[j] ELSE s[j - Len(l)]
    BY ONLY <1>1, <2>1, ConcatIs
  <2> QED BY <1>1, <2>2 DEF w
<1> HIDE DEF w
<1>3. \A j \in 1 .. Len(s) : j + 1 \in 1 .. 1 + Len(s) /\ ~ (j + 1 <= 1) /\ (j + 1) - 1 = j
  BY <1>0
<1>4. w \in Seq(S) /\ Len(w) = Len(s) + 1 /\ w[1] = e /\ \A j \in 1 .. Len(s) : w[j + 1] = s[j]
  BY <1>0, <1>1, <1>2, <1>3
<1>5. /\ Append(s, e) \in Seq(S) /\ Len(Append(s, e)) = Len(s) + 1
      /\ Append(s, e)[Len(s) + 1] = e
      /\ \A j \in 1 .. Len(s) : Append(s, e)[j] = s[j]
  BY <1>0, AppendProperties
<1> QED BY <1>4, <1>5 DEF w, l

\* What is left to y, and given to z.
Halved(nd, y, z) == DOMAIN nd = Bids /\ Len(nd[y].keys) = T - 1 /\ Len(nd[z].keys) = T - 1

\* Splitting the full child y of p.
LEMMA SplitJoins ==
  ASSUME NEW nodes, NEW p \in Bids, NEW y \in Bids, NEW z \in Bids, NEW i \in Nat,
         DOMAIN nodes = Bids, nodes[p] \in Node, nodes[y] \in Node, nodes[z] = None, p # y,
         i \in 1 .. Len(nodes[p].keys) + 1, nodes[p].kids[i] = y,
         Len(nodes[p].kids) = Len(nodes[p].keys) + 1,
         Len(nodes[y].keys) = 2 * T - 1, Len(nodes[y].kids) \in {0, 2 * T}
  PROVE  /\ Joins(SplitChild(nodes, p, i, y, z), nodes, p, i, y, z)
         /\ Halved(SplitChild(nodes, p, i, y, z), y, z)
<1> DEFINE k == Len(nodes[p].keys)
           pk == InsertAt(nodes[p].keys, i, nodes[y].keys[T])
           pc == InsertAt(nodes[p].kids, i + 1, z)
           yk == SubSeq(nodes[y].keys, 1, T - 1)
           yc == Part(nodes[y].kids, 1, T)
           zk == SubSeq(nodes[y].keys, T + 1, 2 * T - 1)
           zc == Part(nodes[y].kids, T + 1, 2 * T)
           nd == SplitChild(nodes, p, i, y, z)
<1>0. T \in Nat /\ T > 1 /\ k \in Nat
  BY BTreeAssumption, NodeFacts
<1>1. p # z /\ y # z
  BY NodeFacts
<1>2. /\ nd[p] = [keys |-> pk, kids |-> pc] /\ nd[y] = [keys |-> yk, kids |-> yc]
      /\ nd[z] = [keys |-> zk, kids |-> zc] /\ \A x \in Bids \ {p, y, z} : nd[x] = nodes[x]
      /\ DOMAIN nd = Bids
  BY <1>1 DEF SplitChild
<1>3. /\ pk \in Seq(Keys) /\ Len(pk) = k + 1
      /\ \A j \in 1 .. k + 1 : pk[j] = IF j < i THEN nodes[p].keys[j]
                                       ELSE IF j = i THEN nodes[y].keys[T] ELSE nodes[p].keys[j - 1]
  <2> DEFINE a == nodes[p].keys  e == nodes[y].keys[T]
  <2>1. a \in Seq(Keys) /\ e \in Keys /\ i \in 1 .. Len(a) + 1
    <3>1. T \in 1 .. Len(nodes[y].keys)
      BY <1>0
    <3> QED BY <3>1, NodeFacts
  <2> HIDE DEF a, e
  <2>2. /\ InsertAt(a, i, e) \in Seq(Keys) /\ Len(InsertAt(a, i, e)) = Len(a) + 1
        /\ \A j \in 1 .. Len(a) + 1 :
              InsertAt(a, i, e)[j] = IF j < i THEN a[j] ELSE IF j = i THEN e ELSE a[j - 1]
    BY ONLY <2>1, InsertAtIs, SMTT(30)
  <2> QED BY <2>2 DEF a, e
<1>4. /\ pc \in Seq(Bids) /\ Len(pc) = k + 2
      /\ \A j \in 1 .. k + 2 : pc[j] = IF j < i + 1 THEN nodes[p].kids[j]
                                       ELSE IF j = i + 1 THEN z ELSE nodes[p].kids[j - 1]
  <2> DEFINE g == i + 1  a == nodes[p].kids
  <2>1. a \in Seq(Bids) /\ Len(a) = k + 1 /\ g \in 1 .. Len(a) + 1 /\ z \in Bids
    BY <1>0, NodeFacts
  <2> HIDE DEF g, a
  <2>2. /\ InsertAt(a, g, z) \in Seq(Bids) /\ Len(InsertAt(a, g, z)) = Len(a) + 1
        /\ \A j \in 1 .. Len(a) + 1 :
              InsertAt(a, g, z)[j] = IF j < g THEN a[j] ELSE IF j = g THEN z ELSE a[j - 1]
    <3>1. ASSUME NEW ss \in Seq(Bids), NEW ii \in 1 .. Len(ss) + 1, NEW ee \in Bids
          PROVE  /\ InsertAt(ss, ii, ee) \in Seq(Bids) /\ Len(InsertAt(ss, ii, ee)) = Len(ss) + 1
                 /\ \A j \in 1 .. Len(ss) + 1 : InsertAt(ss, ii, ee)[j] =
                       IF j < ii THEN ss[j] ELSE IF j = ii THEN ee ELSE ss[j - 1]
      BY ONLY InsertAtIs
    <3> QED BY ONLY <2>1, <3>1
  <2>3. Len(a) + 1 = k + 2
    BY <1>0, <2>1
  <2> QED BY <2>2, <2>3 DEF g, a
<1>5. /\ yk \in Seq(Keys) /\ Len(yk) = T - 1 /\ \A j \in 1 .. T - 1 : yk[j] = nodes[y].keys[j]
      /\ zk \in Seq(Keys) /\ Len(zk) = T - 1 /\ \A j \in 1 .. T - 1 : zk[j] = nodes[y].keys[j + T]
  <2> DEFINE a == T - 1  b == T + 1  c == 2 * T - 1
  <2>1. /\ nodes[y].keys \in Seq(Keys) /\ a \in Int /\ a <= Len(nodes[y].keys) /\ 1 <= a + 1
        /\ b \in Int /\ c \in Int /\ b >= 1 /\ c <= Len(nodes[y].keys) /\ b <= c + 1
        /\ a - 1 + 1 = a /\ c - b + 1 = a
        /\ \A j \in 1 .. a : 1 + j - 1 = j /\ b + j - 1 = j + T
    <3>1. nodes[y].keys \in Seq(Keys)
      BY NodeFacts
    <3> QED BY <1>0, <3>1
  <2> HIDE DEF a, b, c
  <2>2. /\ SubSeq(nodes[y].keys, 1, a) \in Seq(Keys) /\ Len(SubSeq(nodes[y].keys, 1, a)) = a - 1 + 1
        /\ \A j \in 1 .. a - 1 + 1 : SubSeq(nodes[y].keys, 1, a)[j] = nodes[y].keys[1 + j - 1]
    BY <2>1, PieceIs
  <2>3. /\ SubSeq(nodes[y].keys, b, c) \in Seq(Keys) /\ Len(SubSeq(nodes[y].keys, b, c)) = c - b + 1
        /\ \A j \in 1 .. c - b + 1 : SubSeq(nodes[y].keys, b, c)[j] = nodes[y].keys[b + j - 1]
    BY <2>1, PieceIs
  <2>4. /\ SubSeq(nodes[y].keys, 1, a) \in Seq(Keys) /\ Len(SubSeq(nodes[y].keys, 1, a)) = a
        /\ \A j \in 1 .. a : SubSeq(nodes[y].keys, 1, a)[j] = nodes[y].keys[j]
        /\ SubSeq(nodes[y].keys, b, c) \in Seq(Keys) /\ Len(SubSeq(nodes[y].keys, b, c)) = a
        /\ \A j \in 1 .. a : SubSeq(nodes[y].keys, b, c)[j] = nodes[y].keys[j + T]
    BY ONLY <2>1, <2>2, <2>3
  <2> QED BY <2>4 DEF a, b, c
<1>6. /\ yc \in Seq(Bids) /\ zc \in Seq(Bids)
      /\ \/ Len(nodes[y].kids) = 0 /\ Len(yc) = 0 /\ Len(zc) = 0
         \/ Len(nodes[y].kids) = 2 * T /\ Len(yc) = T /\ Len(zc) = T
      /\ \A j \in 1 .. Len(yc) : yc[j] = nodes[y].kids[j]
      /\ \A j \in 1 .. Len(zc) : zc[j] = nodes[y].kids[j + T]
  <2>0. nodes[y].kids \in Seq(Bids)
    BY NodeFacts
  <2>1. CASE Len(nodes[y].kids) = 0
    <3>1. nodes[y].kids = <<>>
      BY <2>0, <2>1, EmptySeq
    <3>2. yc = <<>> /\ zc = <<>>
      BY <3>1 DEF Part
    <3>3. <<>> \in Seq(Bids) /\ Len(<<>>) = 0
      BY EmptySeq
    <3> HIDE DEF yc, zc
    <3> QED BY <2>1, <3>2, <3>3
  <2>2. CASE Len(nodes[y].kids) = 2 * T
    <3>1. nodes[y].kids # <<>>
      BY <1>0, <2>2, EmptySeq
    <3> DEFINE b == T + 1  c == 2 * T
    <3>2. yc = SubSeq(nodes[y].kids, 1, T) /\ zc = SubSeq(nodes[y].kids, b, c)
      BY <3>1 DEF Part
    <3>3. /\ T \in Int /\ T <= Len(nodes[y].kids) /\ 1 <= T + 1 /\ T - 1 + 1 = T
          /\ b \in Int /\ c \in Int /\ b >= 1 /\ c <= Len(nodes[y].kids) /\ b <= c + 1
          /\ c - b + 1 = T
          /\ \A j \in 1 .. T : 1 + j - 1 = j /\ b + j - 1 = j + T
      BY <1>0, <2>2
    <3> HIDE DEF b, c, yc, zc
    <3>4. /\ SubSeq(nodes[y].kids, 1, T) \in Seq(Bids) /\ Len(SubSeq(nodes[y].kids, 1, T)) = T - 1 + 1
          /\ \A j \in 1 .. T - 1 + 1 : SubSeq(nodes[y].kids, 1, T)[j] = nodes[y].kids[1 + j - 1]
      BY <2>0, <3>3, PieceIs
    <3>5. /\ SubSeq(nodes[y].kids, b, c) \in Seq(Bids) /\ Len(SubSeq(nodes[y].kids, b, c)) = c - b + 1
          /\ \A j \in 1 .. c - b + 1 : SubSeq(nodes[y].kids, b, c)[j] = nodes[y].kids[b + j - 1]
      BY <2>0, <3>3, PieceIs
    <3> QED BY ONLY <2>2, <3>2, <3>3, <3>4, <3>5, ZenonT(30)
  <2> QED BY <2>1, <2>2
<1> HIDE DEF pk, pc, yk, yc, zk, zc, nd
<1>7. /\ nd[p].keys = pk /\ nd[p].kids = pc /\ nd[y].keys = yk /\ nd[y].kids = yc
      /\ nd[z].keys = zk /\ nd[z].kids = zc
      /\ nd[p] \in Node /\ nd[y] \in Node /\ nd[z] \in Node
  BY <1>2, <1>3, <1>4, <1>5, <1>6 DEF Node
<1>8. /\ \A j \in 1 .. k : nodes[p].keys[j] = pk[IF j < i THEN j ELSE j + 1]
      /\ \A j \in 1 .. k + 1 : nodes[p].kids[j] = pc[IF j <= i THEN j ELSE j + 1]
      /\ pc[i] = y /\ pc[i + 1] = z /\ pk[i] = nodes[y].keys[T]
  <2>1. ASSUME NEW j \in 1 .. k PROVE nodes[p].keys[j] = pk[IF j < i THEN j ELSE j + 1]
    <3>1. CASE j < i
      BY <1>0, <1>3, <3>1
    <3>2. CASE ~ (j < i)
      <4>1. j + 1 \in 1 .. k + 1 /\ ~ (j + 1 < i) /\ j + 1 # i /\ (j + 1) - 1 = j
        BY <1>0, <3>2
      <4> QED BY <1>3, <3>2, <4>1
    <3> QED BY <3>1, <3>2
  <2>2. ASSUME NEW j \in 1 .. k + 1 PROVE nodes[p].kids[j] = pc[IF j <= i THEN j ELSE j + 1]
    <3>1. CASE j <= i
      BY <1>0, <1>4, <3>1
    <3>2. CASE ~ (j <= i)
      <4>1. j + 1 \in 1 .. k + 2 /\ ~ (j + 1 < i + 1) /\ j + 1 # i + 1 /\ (j + 1) - 1 = j
        BY <1>0, <3>2
      <4> QED BY <1>4, <3>2, <4>1
    <3> QED BY <3>1, <3>2
  <2>3. i \in 1 .. k + 2 /\ i < i + 1 /\ i + 1 \in 1 .. k + 2 /\ ~ (i + 1 < i + 1) /\ ~ (i < i)
    BY <1>0
  <2>4. pc[i] = y /\ pc[i + 1] = z
    BY <1>4, <2>3
  <2>5. pk[i] = nodes[y].keys[T]
    BY <1>3, <2>3
  <2> QED BY <2>1, <2>2, <2>4, <2>5
<1>9. /\ Len(nodes[y].keys) = (T - 1) + (T - 1) + 1
      /\ \A j \in 1 .. T - 1 : nodes[y].keys[j] = yk[j]
      /\ (T - 1) + 1 = T
      /\ \A j \in 1 .. T - 1 : j + (T - 1) + 1 = j + T
      /\ \A j \in 1 .. T : j + (T - 1) + 1 = j + T
  BY <1>0, <1>5
<1>10. \/ Len(nodes[y].kids) = 0 /\ Len(yc) = 0 /\ Len(zc) = 0
       \/ Len(nodes[y].kids) = (T - 1) + (T - 1) + 2 /\ Len(yc) = (T - 1) + 1 /\ Len(zc) = (T - 1) + 1
  BY <1>0, <1>6
<1>101. \A j \in 1 .. Len(zc) : j + (T - 1) + 1 = j + T
  BY <1>0
<1> DEFINE n == Len(yk)  m == Len(zk)
<1>11. n = T - 1 /\ m = T - 1
  BY <1>5
<1> HIDE DEF n, m, k
<1>12. /\ p # y /\ p # z /\ y # z /\ i \in 1 .. k + 1
       /\ nd[p] \in Node /\ nd[y] \in Node /\ nd[z] \in Node
       /\ nodes[p] \in Node /\ nodes[y] \in Node /\ nodes[z] = None
       /\ Len(nd[p].keys) = k + 1 /\ Len(nd[p].kids) = k + 2 /\ Len(nodes[p].kids) = k + 1
       /\ \A j \in 1 .. k : nodes[p].keys[j] = nd[p].keys[IF j < i THEN j ELSE j + 1]
       /\ \A j \in 1 .. k + 1 : nodes[p].kids[j] = nd[p].kids[IF j <= i THEN j ELSE j + 1]
       /\ nd[p].kids[i] = y /\ nd[p].kids[i + 1] = z
  BY <1>1, <1>3, <1>4, <1>7, <1>8 DEF k
<1>13. /\ Len(nodes[y].keys) = n + m + 1
       /\ \A j \in 1 .. n : nodes[y].keys[j] = nd[y].keys[j]
       /\ nodes[y].keys[n + 1] = nd[p].keys[i]
       /\ \A j \in 1 .. m : nodes[y].keys[j + n + 1] = nd[z].keys[j]
  BY ONLY <1>5, <1>7, <1>8, <1>9, <1>11
<1>14. /\ \/ Len(nodes[y].kids) = 0 /\ Len(nd[y].kids) = 0 /\ Len(nd[z].kids) = 0
          \/ Len(nodes[y].kids) = n + m + 2 /\ Len(nd[y].kids) = n + 1 /\ Len(nd[z].kids) = m + 1
       /\ \A j \in 1 .. Len(nd[y].kids) : nodes[y].kids[j] = nd[y].kids[j]
       /\ \A j \in 1 .. Len(nd[z].kids) : nodes[y].kids[j + n + 1] = nd[z].kids[j]
       /\ \A x \in Bids \ {p, y, z} : nodes[x] = nd[x]
  BY ONLY <1>2, <1>6, <1>7, <1>10, <1>101, <1>11
<1>15. Len(nd[y].keys) = n /\ Len(nd[z].keys) = m /\ Len(nodes[p].keys) = k
  BY <1>7 DEF n, m, k
<1>16. Joins(nd, nodes, p, i, y, z)
  BY ONLY <1>12, <1>13, <1>14, <1>15 DEF Joins
<1> QED BY <1>2, <1>7, <1>8, <1>11, <1>15, <1>16 DEF nd, Halved


\* A key or a child taken out, and two sequences of them joined.
LEMMA RemoveAtOf ==
  /\ \A s \in Seq(Keys) : \A i \in 1 .. Len(s) :
       /\ RemoveAt(s, i) \in Seq(Keys) /\ Len(RemoveAt(s, i)) = Len(s) - 1
       /\ \A j \in 1 .. Len(s) - 1 : RemoveAt(s, i)[j] = IF j < i THEN s[j] ELSE s[j + 1]
  /\ \A s \in Seq(Bids) : \A i \in 1 .. Len(s) :
       /\ RemoveAt(s, i) \in Seq(Bids) /\ Len(RemoveAt(s, i)) = Len(s) - 1
       /\ \A j \in 1 .. Len(s) - 1 : RemoveAt(s, i)[j] = IF j < i THEN s[j] ELSE s[j + 1]
BY RemoveAtIs

\* Keys, and bids, joined.
LEMMA ConcatOf ==
  /\ \A s, t \in Seq(Keys) :
       /\ s \o t \in Seq(Keys) /\ Len(s \o t) = Len(s) + Len(t)
       /\ \A j \in 1 .. Len(s) + Len(t) : (s \o t)[j] = IF j <= Len(s) THEN s[j] ELSE t[j - Len(s)]
  /\ \A s, t \in Seq(Bids) :
       /\ s \o t \in Seq(Bids) /\ Len(s \o t) = Len(s) + Len(t)
       /\ \A j \in 1 .. Len(s) + Len(t) : (s \o t)[j] = IF j <= Len(s) THEN s[j] ELSE t[j - Len(s)]
BY ConcatIs

\* Merging the children at i and i + 1.
LEMMA MergeJoins ==
  ASSUME NEW nodes, NEW p \in Bids, NEW c \in Bids, NEW s \in Bids, NEW i \in Nat,
         DOMAIN nodes = Bids, nodes[p] \in Node, nodes[c] \in Node, nodes[s] \in Node,
         p # c, p # s, c # s, i \in 1 .. Len(nodes[p].keys),
         nodes[p].kids[i] = c, nodes[p].kids[i + 1] = s,
         Len(nodes[p].kids) = Len(nodes[p].keys) + 1,
         \/ Len(nodes[c].kids) = 0 /\ Len(nodes[s].kids) = 0
         \/ Len(nodes[c].kids) = Len(nodes[c].keys) + 1 /\ Len(nodes[s].kids) = Len(nodes[s].keys) + 1
  PROVE  /\ Joins(nodes, MergeAt(nodes, p, i), p, i, c, s)
         /\ DOMAIN MergeAt(nodes, p, i) = Bids
<1> DEFINE n == Len(nodes[c].keys)
           m == Len(nodes[s].keys)
           k == Len(nodes[p].keys) - 1
           pk == RemoveAt(nodes[p].keys, i)
           pc == RemoveAt(nodes[p].kids, i + 1)
           ck1 == Append(nodes[c].keys, nodes[p].keys[i])
           ck == ck1 \o nodes[s].keys
           cc == nodes[c].kids \o nodes[s].kids
           jd == MergeAt(nodes, p, i)
<1>0. /\ n \in Nat /\ m \in Nat /\ k \in Nat /\ i \in 1 .. k + 1
      /\ Len(nodes[p].keys) = k + 1 /\ Len(nodes[p].kids) = k + 2
  <2>1. n \in Nat /\ m \in Nat /\ Len(nodes[p].keys) \in Nat
    BY NodeFacts
  <2> QED BY <2>1
<1>1. /\ jd[p] = [keys |-> pk, kids |-> pc] /\ jd[c] = [keys |-> ck, kids |-> cc]
      /\ jd[s] = None /\ \A x \in Bids \ {p, c, s} : jd[x] = nodes[x]
      /\ DOMAIN jd = Bids
  BY DEF MergeAt
<1>2. /\ nodes[p].keys \in Seq(Keys) /\ nodes[p].kids \in Seq(Bids)
      /\ nodes[c].keys \in Seq(Keys) /\ nodes[c].kids \in Seq(Bids)
      /\ nodes[s].keys \in Seq(Keys) /\ nodes[s].kids \in Seq(Bids)
      /\ nodes[p].keys[i] \in Keys
      /\ Len(nodes[c].kids) \in Nat /\ Len(nodes[s].kids) \in Nat
  BY NodeFacts
<1>20. Len(nodes[c].keys) = n /\ Len(nodes[s].keys) = m
  OBVIOUS
<1>21. \/ Len(nodes[c].kids) = 0 /\ Len(nodes[s].kids) = 0
       \/ Len(nodes[c].kids) = n + 1 /\ Len(nodes[s].kids) = m + 1
  OBVIOUS
<1> HIDE DEF n, m, k, jd
<1>3. /\ pk \in Seq(Keys) /\ Len(pk) = k
      /\ \A j \in 1 .. k : pk[j] = nodes[p].keys[IF j < i THEN j ELSE j + 1]
  <2>1. i \in 1 .. Len(nodes[p].keys) /\ Len(nodes[p].keys) - 1 = k
    BY ONLY <1>0
  <2>2. /\ pk \in Seq(Keys) /\ Len(pk) = Len(nodes[p].keys) - 1
        /\ \A j \in 1 .. Len(nodes[p].keys) - 1 :
              pk[j] = IF j < i THEN nodes[p].keys[j] ELSE nodes[p].keys[j + 1]
    BY ONLY <1>2, <2>1, RemoveAtOf
  <2> HIDE DEF pk
  <2> QED BY ONLY <2>1, <2>2
<1>4. /\ pc \in Seq(Bids) /\ Len(pc) = k + 1
      /\ \A j \in 1 .. k + 1 : pc[j] = nodes[p].kids[IF j <= i THEN j ELSE j + 1]
  <2> DEFINE g == i + 1
  <2>1. g \in 1 .. Len(nodes[p].kids) /\ Len(nodes[p].kids) - 1 = k + 1
        /\ \A j \in 1 .. k + 1 : j < g <=> j <= i
    BY ONLY <1>0
  <2>2. pc = RemoveAt(nodes[p].kids, g)
    OBVIOUS
  <2> HIDE DEF pc, g
  <2>3. /\ pc \in Seq(Bids) /\ Len(pc) = Len(nodes[p].kids) - 1
        /\ \A j \in 1 .. Len(nodes[p].kids) - 1 :
              pc[j] = IF j < g THEN nodes[p].kids[j] ELSE nodes[p].kids[j + 1]
    BY ONLY <1>2, <2>1, <2>2, RemoveAtOf
  <2> QED BY ONLY <2>1, <2>3
<1>5. /\ ck1 \in Seq(Keys) /\ Len(ck1) = n + 1 /\ ck1[n + 1] = nodes[p].keys[i]
      /\ \A j \in 1 .. n : ck1[j] = nodes[c].keys[j]
  <2> DEFINE a == nodes[c].keys  e == nodes[p].keys[i]
  <2>1. a \in Seq(Keys) /\ e \in Keys /\ Len(a) = n
    BY <1>2, <1>20
  <2> HIDE DEF a, e
  <2>2. /\ Append(a, e) \in Seq(Keys) /\ Len(Append(a, e)) = Len(a) + 1
        /\ Append(a, e)[Len(a) + 1] = e
        /\ \A j \in 1 .. Len(a) : Append(a, e)[j] = a[j]
    BY ONLY <2>1, AppendProperties
  <2> QED BY <2>1, <2>2 DEF a, e
<1> HIDE DEF ck1
<1>6. /\ ck \in Seq(Keys) /\ Len(ck) = n + m + 1
      /\ \A j \in 1 .. n : ck[j] = nodes[c].keys[j]
      /\ ck[n + 1] = nodes[p].keys[i]
      /\ \A j \in 1 .. m : ck[j + n + 1] = nodes[s].keys[j]
  <2>1. /\ ck \in Seq(Keys) /\ Len(ck) = Len(ck1) + Len(nodes[s].keys)
        /\ \A j \in 1 .. Len(ck1) + Len(nodes[s].keys) :
              ck[j] = IF j <= Len(ck1) THEN ck1[j] ELSE nodes[s].keys[j - Len(ck1)]
    BY ONLY <1>2, <1>5, ConcatOf
  <2> HIDE DEF ck
  <2>2. \A j \in 1 .. n + m + 1 : ck[j] = IF j <= n + 1 THEN ck1[j] ELSE nodes[s].keys[j - (n + 1)]
    BY ONLY <1>0, <1>20, <1>5, <2>1
  <2>3. \A j \in 1 .. m : /\ j + n + 1 \in 1 .. n + m + 1 /\ ~ (j + n + 1 <= n + 1)
                          /\ (j + n + 1) - (n + 1) = j
    BY ONLY <1>0
  <2>4. \A j \in 1 .. n : j \in 1 .. n + m + 1 /\ j <= n + 1
    BY ONLY <1>0
  <2>5. n + 1 \in 1 .. n + m + 1 /\ n + 1 <= n + 1 /\ (n + 1) + m = n + m + 1
    BY ONLY <1>0
  <2> QED BY ONLY <1>5, <1>20, <2>1, <2>2, <2>3, <2>4, <2>5, SMTT(40)
<1>7. /\ cc \in Seq(Bids)
      /\ \/ Len(cc) = 0 /\ Len(nodes[c].kids) = 0 /\ Len(nodes[s].kids) = 0
         \/ Len(cc) = n + m + 2 /\ Len(nodes[c].kids) = n + 1 /\ Len(nodes[s].kids) = m + 1
      /\ \A j \in 1 .. Len(nodes[c].kids) : cc[j] = nodes[c].kids[j]
      /\ \A j \in 1 .. Len(nodes[s].kids) : cc[j + n + 1] = nodes[s].kids[j]
  <2> DEFINE a == Len(nodes[c].kids)  b == Len(nodes[s].kids)
  <2>1. /\ cc \in Seq(Bids) /\ Len(cc) = a + b
        /\ \A j \in 1 .. a + b : cc[j] = IF j <= a THEN nodes[c].kids[j] ELSE nodes[s].kids[j - a]
    BY ONLY <1>2, ConcatOf
  <2>2. a \in Nat /\ b \in Nat /\ ((a = 0 /\ b = 0) \/ (a = n + 1 /\ b = m + 1))
    BY ONLY <1>2, <1>21
  <2> HIDE DEF cc, a, b
  <2>3. \A j \in 1 .. b : j + n + 1 \in 1 .. a + b /\ ~ (j + n + 1 <= a) /\ (j + n + 1) - a = j
    BY ONLY <1>0, <2>2
  <2>4. \A j \in 1 .. a : j \in 1 .. a + b
    BY ONLY <2>2
  <2>5. a + b = 0 \/ a + b = n + m + 2
    BY ONLY <1>0, <2>2
  <2>6. \A j \in 1 .. a : cc[j] = nodes[c].kids[j]
    BY ONLY <2>1, <2>4
  <2>7. \A j \in 1 .. b : cc[j + n + 1] = nodes[s].kids[j]
    BY ONLY <2>1, <2>3
  <2>8. \/ Len(cc) = 0 /\ a = 0 /\ b = 0
        \/ Len(cc) = n + m + 2 /\ a = n + 1 /\ b = m + 1
    BY ONLY <1>0, <2>1, <2>2
  <2> QED BY <2>1, <2>6, <2>7, <2>8 DEF a, b
<1> HIDE DEF pk, pc, ck, cc
<1>8. /\ jd[p].keys = pk /\ jd[p].kids = pc /\ jd[c].keys = ck /\ jd[c].kids = cc
      /\ jd[p] \in Node /\ jd[c] \in Node
  BY <1>1, <1>3, <1>4, <1>6, <1>7 DEF Node
<1>9. Len(jd[p].keys) = k
  BY <1>3, <1>8
<1>10. /\ p # c /\ p # s /\ c # s /\ i \in 1 .. k + 1
       /\ nodes[p] \in Node /\ nodes[c] \in Node /\ nodes[s] \in Node
       /\ jd[p] \in Node /\ jd[c] \in Node /\ jd[s] = None
       /\ Len(nodes[p].keys) = k + 1 /\ Len(nodes[p].kids) = k + 2 /\ Len(jd[p].kids) = k + 1
       /\ \A j \in 1 .. k : jd[p].keys[j] = nodes[p].keys[IF j < i THEN j ELSE j + 1]
       /\ \A j \in 1 .. k + 1 : jd[p].kids[j] = nodes[p].kids[IF j <= i THEN j ELSE j + 1]
       /\ nodes[p].kids[i] = c /\ nodes[p].kids[i + 1] = s
       /\ \A x \in Bids \ {p, c, s} : jd[x] = nodes[x]
  BY <1>0, <1>1, <1>3, <1>4, <1>8
<1>11. Joins(nodes, jd, p, i, c, s)
  BY ONLY <1>6, <1>7, <1>8, <1>9, <1>10, <1>20 DEF Joins
<1> QED BY <1>1, <1>11 DEF jd


\* Keys, and bids, without the last or the first.
LEMMA EndsOf ==
  /\ \A s \in Seq(Keys) : Len(s) > 0 =>
       /\ Front(s) \in Seq(Keys) /\ Len(Front(s)) = Len(s) - 1
       /\ \A j \in 1 .. Len(s) - 1 : Front(s)[j] = s[j]
       /\ Tail(s) \in Seq(Keys) /\ Len(Tail(s)) = Len(s) - 1
       /\ \A j \in 1 .. Len(s) - 1 : Tail(s)[j] = s[j + 1]
       /\ Last(s) = s[Len(s)] /\ Head(s) = s[1] /\ Last(s) \in Keys /\ Head(s) \in Keys
  /\ \A s \in Seq(Bids) : Len(s) > 0 =>
       /\ Front(s) \in Seq(Bids) /\ Len(Front(s)) = Len(s) - 1
       /\ \A j \in 1 .. Len(s) - 1 : Front(s)[j] = s[j]
       /\ Tail(s) \in Seq(Bids) /\ Len(Tail(s)) = Len(s) - 1
       /\ \A j \in 1 .. Len(s) - 1 : Tail(s)[j] = s[j + 1]
       /\ Last(s) = s[Len(s)] /\ Head(s) = s[1] /\ Last(s) \in Bids /\ Head(s) \in Bids
BY EndsAre

\* Keys, and bids, with one before or after them.
LEMMA PushOf ==
  /\ \A s \in Seq(Keys) : \A e \in Keys :
       /\ <<e>> \o s \in Seq(Keys) /\ Len(<<e>> \o s) = Len(s) + 1 /\ (<<e>> \o s)[1] = e
       /\ \A j \in 1 .. Len(s) : (<<e>> \o s)[j + 1] = s[j]
       /\ Append(s, e) \in Seq(Keys) /\ Len(Append(s, e)) = Len(s) + 1
       /\ Append(s, e)[Len(s) + 1] = e
       /\ \A j \in 1 .. Len(s) : Append(s, e)[j] = s[j]
  /\ \A s \in Seq(Bids) : \A e \in Bids :
       /\ <<e>> \o s \in Seq(Bids) /\ Len(<<e>> \o s) = Len(s) + 1 /\ (<<e>> \o s)[1] = e
       /\ \A j \in 1 .. Len(s) : (<<e>> \o s)[j + 1] = s[j]
BY PushIs

\* The child c has a key of its sibling s.
KeyGiven(nodes, nd, c, s) ==
  /\ DOMAIN nd = Bids
  /\ Len(nd[c].keys) = Len(nodes[c].keys) + 1 /\ Len(nd[s].keys) = Len(nodes[s].keys) - 1

\* A borrowed key leaves what the two children join to as it is.
LEMMA BorrowPrevJoins ==
  ASSUME NEW nodes, NEW jd, NEW p \in Bids, NEW c \in Bids, NEW s \in Bids, NEW i \in Nat,
         DOMAIN nodes = Bids, Joins(nodes, jd, p, i - 1, s, c), nodes[p].kids[i] = c,
         Len(nodes[s].keys) > 0
  PROVE  /\ Joins(BorrowFromPrev(nodes, p, i), jd, p, i - 1, s, c)
         /\ KeyGiven(nodes, BorrowFromPrev(nodes, p, i), c, s)
<1> DEFINE n == Len(nodes[s].keys)
           m == Len(nodes[c].keys)
           k == Len(jd[p].keys)
           kid == IF nodes[c].kids = <<>> THEN <<>> ELSE <<Last(nodes[s].kids)>>
           pk == [nodes[p].keys EXCEPT ![i - 1] = Last(nodes[s].keys)]
           ck == <<nodes[p].keys[i - 1]>> \o nodes[c].keys
           cc == kid \o nodes[c].kids
           sk == Front(nodes[s].keys)
           sc == IF kid = <<>> THEN <<>> ELSE Front(nodes[s].kids)
           nd == BorrowFromPrev(nodes, p, i)
<1>0. n \in Nat /\ m \in Nat /\ k \in Nat /\ n > 0
  BY NodeFacts DEF Joins
<1>1. /\ p # c /\ p # s /\ c # s /\ i - 1 \in 1 .. k + 1
      /\ nodes[p] \in Node /\ nodes[c] \in Node /\ nodes[s] \in Node
      /\ jd[p] \in Node /\ jd[s] \in Node /\ jd[c] = None
      /\ Len(nodes[p].keys) = k + 1 /\ Len(nodes[p].kids) = k + 2 /\ Len(jd[p].kids) = k + 1
      /\ \A j \in 1 .. k : jd[p].keys[j] = nodes[p].keys[IF j < i - 1 THEN j ELSE j + 1]
      /\ \A j \in 1 .. k + 1 : jd[p].kids[j] = nodes[p].kids[IF j <= i - 1 THEN j ELSE j + 1]
      /\ nodes[p].kids[i - 1] = s /\ nodes[p].kids[(i - 1) + 1] = c
      /\ \A x \in Bids \ {p, s, c} : jd[x] = nodes[x]
  BY DEF Joins
<1>2. /\ Len(jd[s].keys) = n + m + 1
      /\ \A j \in 1 .. n : jd[s].keys[j] = nodes[s].keys[j]
      /\ jd[s].keys[n + 1] = nodes[p].keys[i - 1]
      /\ \A j \in 1 .. m : jd[s].keys[j + n + 1] = nodes[c].keys[j]
      /\ \/ Len(jd[s].kids) = 0 /\ Len(nodes[s].kids) = 0 /\ Len(nodes[c].kids) = 0
         \/ Len(jd[s].kids) = n + m + 2 /\ Len(nodes[s].kids) = n + 1 /\ Len(nodes[c].kids) = m + 1
      /\ \A j \in 1 .. Len(nodes[s].kids) : jd[s].kids[j] = nodes[s].kids[j]
      /\ \A j \in 1 .. Len(nodes[c].kids) : jd[s].kids[j + n + 1] = nodes[c].kids[j]
  BY DEF Joins
<1>3. /\ nodes[p].keys \in Seq(Keys) /\ nodes[p].kids \in Seq(Bids)
      /\ nodes[c].keys \in Seq(Keys) /\ nodes[c].kids \in Seq(Bids)
      /\ nodes[s].keys \in Seq(Keys) /\ nodes[s].kids \in Seq(Bids)
      /\ nodes[p].keys[i - 1] \in Keys
      /\ nodes[p] = [keys |-> nodes[p].keys, kids |-> nodes[p].kids]
  BY <1>1, NodeFacts
<1>4. /\ nd[p] = [keys |-> pk, kids |-> nodes[p].kids]
      /\ nd[c] = [keys |-> ck, kids |-> cc] /\ nd[s] = [keys |-> sk, kids |-> sc]
      /\ \A x \in Bids \ {p, s, c} : nd[x] = nodes[x]
      /\ DOMAIN nd = Bids
  BY <1>1, <1>3 DEF BorrowFromPrev
<1>20. Len(nodes[s].keys) = n /\ Len(nodes[c].keys) = m /\ Len(jd[p].keys) = k
  OBVIOUS
<1> HIDE DEF n, m, k, nd
<1>5. /\ sk \in Seq(Keys) /\ Len(sk) = n - 1 /\ \A j \in 1 .. n - 1 : sk[j] = nodes[s].keys[j]
      /\ Last(nodes[s].keys) = nodes[s].keys[n] /\ nodes[s].keys[n] \in Keys
  <2>1. nodes[s].keys \in Seq(Keys) /\ Len(nodes[s].keys) > 0
    BY <1>3
  <2> QED BY ONLY <2>1, <1>20, EndsOf
<1>6. /\ ck \in Seq(Keys) /\ Len(ck) = m + 1 /\ ck[1] = nodes[p].keys[i - 1]
      /\ \A j \in 1 .. m : ck[j + 1] = nodes[c].keys[j]
  BY ONLY <1>3, <1>20, PushOf
<1>7. /\ pk \in Seq(Keys) /\ Len(pk) = k + 1 /\ pk[i - 1] = nodes[s].keys[n]
      /\ \A j \in 1 .. k + 1 : j # i - 1 => pk[j] = nodes[p].keys[j]
  <2> DEFINE g == i - 1
  <2>1. g \in 1 .. Len(nodes[p].keys) /\ g \in 1 .. k + 1
    BY <1>1
  <2> HIDE DEF g
  <2>2. [nodes[p].keys EXCEPT ![g] = nodes[s].keys[n]] \in Seq(Keys)
    BY ONLY <1>3, <1>5, <2>1, ExceptSeq
  <2>3. /\ Len([nodes[p].keys EXCEPT ![g] = nodes[s].keys[n]]) = Len(nodes[p].keys)
        /\ [nodes[p].keys EXCEPT ![g] = nodes[s].keys[n]][g] = nodes[s].keys[n]
        /\ \A j \in 1 .. Len(nodes[p].keys) :
              j # g => [nodes[p].keys EXCEPT ![g] = nodes[s].keys[n]][j] = nodes[p].keys[j]
    BY ONLY <1>3, <1>5, <2>1, ExceptSeq, LenProperties
  <2> QED BY <1>1, <1>5, <2>2, <2>3 DEF g
<1>8. \/ /\ Len(jd[s].kids) = 0 /\ Len(nodes[s].kids) = 0 /\ Len(nodes[c].kids) = 0
         /\ sc = <<>> /\ cc = <<>> /\ Len(cc) = 0 /\ Len(sc) = 0
         /\ sc \in Seq(Bids) /\ cc \in Seq(Bids)
      \/ /\ Len(jd[s].kids) = n + m + 2 /\ Len(nodes[s].kids) = n + 1 /\ Len(nodes[c].kids) = m + 1
         /\ sc \in Seq(Bids) /\ Len(sc) = n /\ \A j \in 1 .. n : sc[j] = nodes[s].kids[j]
         /\ cc \in Seq(Bids) /\ Len(cc) = m + 2 /\ cc[1] = nodes[s].kids[n + 1]
         /\ \A j \in 1 .. m + 1 : cc[j + 1] = nodes[c].kids[j]
  <2>1. CASE Len(nodes[c].kids) = 0
    <3>1. nodes[c].kids = <<>>
      BY <1>3, <2>1, EmptySeq
    <3>2. kid = <<>>
      BY <3>1
    <3>3. sc = <<>> /\ cc = <<>> /\ <<>> \in Seq(Bids) /\ Len(<<>>) = 0
      <4>1. <<>> \o <<>> = <<>>
        BY ConcatEmptySeq, EmptySeq
      <4> QED BY <3>1, <3>2, <4>1, EmptySeq
    <3>4. Len(jd[s].kids) = 0 /\ Len(nodes[s].kids) = 0
      BY ONLY <1>0, <1>2, <2>1
    <3> HIDE DEF sc, cc
    <3> QED BY ONLY <3>3, <3>4, <2>1
  <2>2. CASE Len(nodes[c].kids) # 0
    <3>0. Len(jd[s].kids) = n + m + 2 /\ Len(nodes[s].kids) = n + 1 /\ Len(nodes[c].kids) = m + 1
      BY ONLY <1>2, <2>2
    <3>1. nodes[c].kids # <<>>
      BY <2>2, EmptySeq
    <3> DEFINE e == Last(nodes[s].kids)
    <3>2. /\ Front(nodes[s].kids) \in Seq(Bids) /\ Len(Front(nodes[s].kids)) = n
          /\ \A j \in 1 .. n : Front(nodes[s].kids)[j] = nodes[s].kids[j]
          /\ e = nodes[s].kids[n + 1] /\ e \in Bids
      <4>1. Len(nodes[s].kids) > 0 /\ (n + 1) - 1 = n
        BY ONLY <1>0, <3>0
      <4>2. /\ Front(nodes[s].kids) \in Seq(Bids)
            /\ Len(Front(nodes[s].kids)) = Len(nodes[s].kids) - 1
            /\ \A j \in 1 .. Len(nodes[s].kids) - 1 : Front(nodes[s].kids)[j] = nodes[s].kids[j]
            /\ e = nodes[s].kids[Len(nodes[s].kids)] /\ e \in Bids
        BY ONLY <1>3, <4>1, EndsOf
      <4> QED BY ONLY <3>0, <4>1, <4>2
    <3>3. kid = <<e>> /\ kid # <<>>
      BY <3>1
    <3>4. sc = Front(nodes[s].kids) /\ cc = <<e>> \o nodes[c].kids
      BY <3>3
    <3> HIDE DEF sc, cc, e, kid
    <3>5. /\ cc \in Seq(Bids) /\ Len(cc) = (m + 1) + 1 /\ cc[1] = e
          /\ \A j \in 1 .. m + 1 : cc[j + 1] = nodes[c].kids[j]
      BY ONLY <1>3, <3>0, <3>2, <3>4, PushOf
    <3>6. (m + 1) + 1 = m + 2
      BY ONLY <1>0
    <3> QED BY ONLY <3>0, <3>2, <3>4, <3>5, <3>6
  <2> QED BY <2>1, <2>2
<1> HIDE DEF pk, ck, cc, sk, sc, kid
<1>9. /\ nd[p].keys = pk /\ nd[p].kids = nodes[p].kids /\ nd[c].keys = ck /\ nd[c].kids = cc
      /\ nd[s].keys = sk /\ nd[s].kids = sc
      /\ nd[p] \in Node /\ nd[c] \in Node /\ nd[s] \in Node
  <2>1. cc \in Seq(Bids) /\ sc \in Seq(Bids)
    BY <1>8
  <2> QED BY <1>3, <1>4, <1>5, <1>6, <1>7, <2>1 DEF Node
<1> DEFINE n1 == n - 1  m1 == m + 1
<1>10. Len(nd[s].keys) = n1 /\ Len(nd[c].keys) = m1 /\ Len(nd[p].keys) = k + 1
  BY <1>5, <1>6, <1>7, <1>9
<1>11. /\ n1 \in Nat /\ m1 \in Nat /\ n1 + m1 + 1 = n + m + 1 /\ n1 + m1 + 2 = n + m + 2
       /\ n1 + 1 = n /\ m1 + 1 = m + 2 /\ \A j \in Nat : j + n1 + 1 = j + n
       /\ n1 = n - 1 /\ m1 = m + 1
  BY <1>0
<1> HIDE DEF n1, m1
<1>12. /\ Len(jd[s].keys) = n1 + m1 + 1
       /\ \A j \in 1 .. n1 : jd[s].keys[j] = nd[s].keys[j]
       /\ jd[s].keys[n1 + 1] = nd[p].keys[i - 1]
       /\ \A j \in 1 .. m1 : jd[s].keys[j + n1 + 1] = nd[c].keys[j]
  <2>1. \A j \in 1 .. n1 : jd[s].keys[j] = nd[s].keys[j]
    <3>1. \A j \in 1 .. n1 : j \in 1 .. n
      BY ONLY <1>0, <1>11
    <3> QED BY ONLY <1>2, <1>5, <1>9, <1>11, <3>1
  <2>2. jd[s].keys[n1 + 1] = nd[p].keys[i - 1]
    <3>1. n \in 1 .. n
      BY ONLY <1>0
    <3> QED BY ONLY <1>2, <1>7, <1>9, <1>11, <3>1
  <2>3. ASSUME NEW j \in 1 .. m1 PROVE jd[s].keys[j + n1 + 1] = nd[c].keys[j]
    <3>0. j + n1 + 1 = j + n
      BY ONLY <1>11, j \in 1 .. m1
    <3>1. CASE j = 1
      <4>1. j + n = n + 1
        BY ONLY <1>0, <3>1
      <4> QED BY ONLY <1>2, <1>6, <1>9, <3>0, <3>1, <4>1
    <3>2. CASE j # 1
      <4> DEFINE g == j - 1
      <4>1. g \in 1 .. m /\ g + 1 = j /\ g + n + 1 = j + n
        BY ONLY <1>0, <1>11, <3>2, j \in 1 .. m1
      <4> HIDE DEF g
      <4>2. ck[g + 1] = nodes[c].keys[g] /\ jd[s].keys[g + n + 1] = nodes[c].keys[g]
        BY ONLY <1>2, <1>6, <4>1
      <4> QED BY ONLY <1>9, <3>0, <4>1, <4>2
    <3> QED BY <3>1, <3>2
  <2> QED BY ONLY <1>2, <1>11, <2>1, <2>2, <2>3
<1>13. /\ \/ Len(jd[s].kids) = 0 /\ Len(nd[s].kids) = 0 /\ Len(nd[c].kids) = 0
          \/ Len(jd[s].kids) = n1 + m1 + 2 /\ Len(nd[s].kids) = n1 + 1 /\ Len(nd[c].kids) = m1 + 1
       /\ \A j \in 1 .. Len(nd[s].kids) : jd[s].kids[j] = nd[s].kids[j]
       /\ \A j \in 1 .. Len(nd[c].kids) : jd[s].kids[j + n1 + 1] = nd[c].kids[j]
  <2>1. CASE Len(jd[s].kids) = 0 /\ Len(sc) = 0 /\ Len(cc) = 0
    BY ONLY <1>9, <2>1
  <2>2. CASE /\ Len(jd[s].kids) = n + m + 2 /\ Len(nodes[s].kids) = n + 1 /\ Len(nodes[c].kids) = m + 1
             /\ Len(sc) = n /\ \A j \in 1 .. n : sc[j] = nodes[s].kids[j]
             /\ Len(cc) = m + 2 /\ cc[1] = nodes[s].kids[n + 1]
             /\ \A j \in 1 .. m + 1 : cc[j + 1] = nodes[c].kids[j]
    <3>1. \A j \in 1 .. n : jd[s].kids[j] = sc[j]
      <4>1. \A j \in 1 .. n : j \in 1 .. n + 1
        BY ONLY <1>0
      <4> QED BY ONLY <1>2, <2>2, <4>1
    <3>2. ASSUME NEW j \in 1 .. m + 2 PROVE jd[s].kids[j + n1 + 1] = cc[j]
      <4>0. j + n1 + 1 = j + n
        BY ONLY <1>0, <1>11, j \in 1 .. m + 2
      <4>1. CASE j = 1
        <5>1. j + n = n + 1 /\ n + 1 \in 1 .. n + 1
          BY ONLY <1>0, <4>1
        <5> QED BY ONLY <1>2, <2>2, <4>0, <4>1, <5>1
      <4>2. CASE j # 1
        <5> DEFINE g == j - 1
        <5>1. g \in 1 .. m + 1 /\ g + 1 = j /\ g + n + 1 = j + n
          BY ONLY <1>0, <4>2, j \in 1 .. m + 2
        <5> HIDE DEF g
        <5>2. cc[g + 1] = nodes[c].kids[g] /\ jd[s].kids[g + n + 1] = nodes[c].kids[g]
          BY ONLY <1>2, <2>2, <5>1
        <5> QED BY ONLY <4>0, <5>1, <5>2
      <4> QED BY <4>1, <4>2
    <3> QED BY ONLY <1>9, <1>11, <2>2, <3>1, <3>2
  <2> QED BY ONLY <1>8, <2>1, <2>2
<1>14. /\ p # c /\ p # s /\ c # s /\ i - 1 \in 1 .. k + 1
       /\ nd[p] \in Node /\ nd[c] \in Node /\ nd[s] \in Node
       /\ jd[p] \in Node /\ jd[s] \in Node /\ jd[c] = None
       /\ Len(nd[p].keys) = k + 1 /\ Len(nd[p].kids) = k + 2 /\ Len(jd[p].kids) = k + 1
       /\ nd[p].kids[i - 1] = s /\ nd[p].kids[(i - 1) + 1] = c
       /\ \A x \in Bids \ {p, s, c} : jd[x] = nd[x]
       /\ \A j \in 1 .. k + 1 : jd[p].kids[j] = nd[p].kids[IF j <= i - 1 THEN j ELSE j + 1]
  BY <1>1, <1>4, <1>9, <1>10
<1>15. \A j \in 1 .. k : jd[p].keys[j] = nd[p].keys[IF j < i - 1 THEN j ELSE j + 1]
  <2> SUFFICES ASSUME NEW j \in 1 .. k
               PROVE  jd[p].keys[j] = nd[p].keys[IF j < i - 1 THEN j ELSE j + 1]
    OBVIOUS
  <2> DEFINE g == IF j < i - 1 THEN j ELSE j + 1
  <2>1. g \in 1 .. k + 1 /\ g # i - 1
    BY ONLY <1>0, <1>1, i \in Nat, j \in 1 .. k
  <2> QED BY ONLY <1>1, <1>7, <1>9, <2>1, j \in 1 .. k
<1>16. Joins(nd, jd, p, i - 1, s, c)
  BY ONLY <1>10, <1>12, <1>13, <1>14, <1>15, <1>20 DEF Joins
<1> QED BY <1>4, <1>10, <1>11, <1>16, <1>20 DEF nd, KeyGiven

\* Borrowing from the next child leaves what the two join to as it is.
LEMMA BorrowNextJoins ==
  ASSUME NEW nodes, NEW jd, NEW p \in Bids, NEW c \in Bids, NEW s \in Bids, NEW i \in Nat,
         DOMAIN nodes = Bids, Joins(nodes, jd, p, i, c, s), Len(nodes[s].keys) > 0
  PROVE  /\ Joins(BorrowFromNext(nodes, p, i), jd, p, i, c, s)
         /\ KeyGiven(nodes, BorrowFromNext(nodes, p, i), c, s)
<1> DEFINE n == Len(nodes[c].keys)
           m == Len(nodes[s].keys)
           k == Len(jd[p].keys)
           kid == IF nodes[c].kids = <<>> THEN <<>> ELSE <<Head(nodes[s].kids)>>
           pk == [nodes[p].keys EXCEPT ![i] = Head(nodes[s].keys)]
           ck == Append(nodes[c].keys, nodes[p].keys[i])
           cc == nodes[c].kids \o kid
           sk == Tail(nodes[s].keys)
           sc == IF kid = <<>> THEN <<>> ELSE Tail(nodes[s].kids)
           nd == BorrowFromNext(nodes, p, i)
<1>0. n \in Nat /\ m \in Nat /\ k \in Nat /\ m > 0
  BY NodeFacts DEF Joins
<1>1. /\ p # c /\ p # s /\ c # s /\ i \in 1 .. k + 1
      /\ nodes[p] \in Node /\ nodes[c] \in Node /\ nodes[s] \in Node
      /\ jd[p] \in Node /\ jd[c] \in Node /\ jd[s] = None
      /\ Len(nodes[p].keys) = k + 1 /\ Len(nodes[p].kids) = k + 2 /\ Len(jd[p].kids) = k + 1
      /\ \A j \in 1 .. k : jd[p].keys[j] = nodes[p].keys[IF j < i THEN j ELSE j + 1]
      /\ \A j \in 1 .. k + 1 : jd[p].kids[j] = nodes[p].kids[IF j <= i THEN j ELSE j + 1]
      /\ nodes[p].kids[i] = c /\ nodes[p].kids[i + 1] = s
      /\ \A x \in Bids \ {p, c, s} : jd[x] = nodes[x]
  BY DEF Joins
<1>2. /\ Len(jd[c].keys) = n + m + 1
      /\ \A j \in 1 .. n : jd[c].keys[j] = nodes[c].keys[j]
      /\ jd[c].keys[n + 1] = nodes[p].keys[i]
      /\ \A j \in 1 .. m : jd[c].keys[j + n + 1] = nodes[s].keys[j]
      /\ \/ Len(jd[c].kids) = 0 /\ Len(nodes[c].kids) = 0 /\ Len(nodes[s].kids) = 0
         \/ Len(jd[c].kids) = n + m + 2 /\ Len(nodes[c].kids) = n + 1 /\ Len(nodes[s].kids) = m + 1
      /\ \A j \in 1 .. Len(nodes[c].kids) : jd[c].kids[j] = nodes[c].kids[j]
      /\ \A j \in 1 .. Len(nodes[s].kids) : jd[c].kids[j + n + 1] = nodes[s].kids[j]
  BY DEF Joins
<1>3. /\ nodes[p].keys \in Seq(Keys) /\ nodes[p].kids \in Seq(Bids)
      /\ nodes[c].keys \in Seq(Keys) /\ nodes[c].kids \in Seq(Bids)
      /\ nodes[s].keys \in Seq(Keys) /\ nodes[s].kids \in Seq(Bids)
      /\ nodes[p].keys[i] \in Keys
      /\ nodes[p] = [keys |-> nodes[p].keys, kids |-> nodes[p].kids]
  BY <1>1, NodeFacts
<1>4. /\ nd[p] = [keys |-> pk, kids |-> nodes[p].kids]
      /\ nd[c] = [keys |-> ck, kids |-> cc] /\ nd[s] = [keys |-> sk, kids |-> sc]
      /\ \A x \in Bids \ {p, c, s} : nd[x] = nodes[x]
      /\ DOMAIN nd = Bids
  BY <1>1, <1>3 DEF BorrowFromNext
<1>20. Len(nodes[c].keys) = n /\ Len(nodes[s].keys) = m /\ Len(jd[p].keys) = k
  OBVIOUS
<1> HIDE DEF n, m, k, nd
<1>5. /\ sk \in Seq(Keys) /\ Len(sk) = m - 1 /\ \A j \in 1 .. m - 1 : sk[j] = nodes[s].keys[j + 1]
      /\ Head(nodes[s].keys) = nodes[s].keys[1] /\ nodes[s].keys[1] \in Keys
  <2>1. nodes[s].keys \in Seq(Keys) /\ Len(nodes[s].keys) > 0
    BY <1>3
  <2> QED BY ONLY <2>1, <1>20, EndsOf
<1>6. /\ ck \in Seq(Keys) /\ Len(ck) = n + 1 /\ ck[n + 1] = nodes[p].keys[i]
      /\ \A j \in 1 .. n : ck[j] = nodes[c].keys[j]
  BY ONLY <1>3, <1>20, PushOf
<1>7. /\ pk \in Seq(Keys) /\ Len(pk) = k + 1 /\ pk[i] = nodes[s].keys[1]
      /\ \A j \in 1 .. k + 1 : j # i => pk[j] = nodes[p].keys[j]
  <2>1. i \in 1 .. Len(nodes[p].keys) /\ i \in 1 .. k + 1
    BY <1>1
  <2>2. [nodes[p].keys EXCEPT ![i] = nodes[s].keys[1]] \in Seq(Keys)
    BY ONLY <1>3, <1>5, <2>1, ExceptSeq
  <2>3. /\ Len([nodes[p].keys EXCEPT ![i] = nodes[s].keys[1]]) = Len(nodes[p].keys)
        /\ [nodes[p].keys EXCEPT ![i] = nodes[s].keys[1]][i] = nodes[s].keys[1]
        /\ \A j \in 1 .. Len(nodes[p].keys) :
              j # i => [nodes[p].keys EXCEPT ![i] = nodes[s].keys[1]][j] = nodes[p].keys[j]
    BY ONLY <1>3, <1>5, <2>1, ExceptSeq, LenProperties
  <2> QED BY <1>1, <1>5, <2>2, <2>3
<1>8. \/ /\ Len(jd[c].kids) = 0 /\ Len(nodes[s].kids) = 0 /\ Len(nodes[c].kids) = 0
         /\ sc = <<>> /\ cc = <<>> /\ Len(cc) = 0 /\ Len(sc) = 0
         /\ sc \in Seq(Bids) /\ cc \in Seq(Bids)
      \/ /\ Len(jd[c].kids) = n + m + 2 /\ Len(nodes[s].kids) = m + 1 /\ Len(nodes[c].kids) = n + 1
         /\ sc \in Seq(Bids) /\ Len(sc) = m /\ \A j \in 1 .. m : sc[j] = nodes[s].kids[j + 1]
         /\ cc \in Seq(Bids) /\ Len(cc) = n + 2 /\ cc[n + 2] = nodes[s].kids[1]
         /\ \A j \in 1 .. n + 1 : cc[j] = nodes[c].kids[j]
  <2>1. CASE Len(nodes[c].kids) = 0
    <3>1. nodes[c].kids = <<>>
      BY <1>3, <2>1, EmptySeq
    <3>2. kid = <<>>
      BY <3>1
    <3>3. sc = <<>> /\ cc = <<>> /\ <<>> \in Seq(Bids) /\ Len(<<>>) = 0
      <4>1. <<>> \o <<>> = <<>>
        BY ConcatEmptySeq, EmptySeq
      <4> QED BY <3>1, <3>2, <4>1, EmptySeq
    <3>4. Len(jd[c].kids) = 0 /\ Len(nodes[s].kids) = 0
      BY ONLY <1>0, <1>2, <2>1
    <3> HIDE DEF sc, cc
    <3> QED BY ONLY <3>3, <3>4, <2>1
  <2>2. CASE Len(nodes[c].kids) # 0
    <3>0. Len(jd[c].kids) = n + m + 2 /\ Len(nodes[c].kids) = n + 1 /\ Len(nodes[s].kids) = m + 1
      BY ONLY <1>2, <2>2
    <3>1. nodes[c].kids # <<>>
      BY <2>2, EmptySeq
    <3> DEFINE e == Head(nodes[s].kids)
    <3>2. /\ Tail(nodes[s].kids) \in Seq(Bids) /\ Len(Tail(nodes[s].kids)) = m
          /\ \A j \in 1 .. m : Tail(nodes[s].kids)[j] = nodes[s].kids[j + 1]
          /\ e = nodes[s].kids[1] /\ e \in Bids
      <4>1. Len(nodes[s].kids) > 0 /\ (m + 1) - 1 = m
        BY ONLY <1>0, <3>0
      <4>2. /\ Tail(nodes[s].kids) \in Seq(Bids)
            /\ Len(Tail(nodes[s].kids)) = Len(nodes[s].kids) - 1
            /\ \A j \in 1 .. Len(nodes[s].kids) - 1 : Tail(nodes[s].kids)[j] = nodes[s].kids[j + 1]
            /\ e = nodes[s].kids[1] /\ e \in Bids
        BY ONLY <1>3, <4>1, EndsOf
      <4> QED BY ONLY <3>0, <4>1, <4>2
    <3>3. kid = <<e>> /\ kid # <<>>
      BY <3>1
    <3>4. sc = Tail(nodes[s].kids) /\ cc = nodes[c].kids \o <<e>>
      BY <3>3
    <3>40. <<e>> \in Seq(Bids) /\ Len(<<e>>) = 1 /\ <<e>>[1] = e
      BY <3>2
    <3> DEFINE l == <<e>>
    <3>5. /\ cc \in Seq(Bids) /\ Len(cc) = Len(nodes[c].kids) + Len(l)
          /\ \A j \in 1 .. Len(nodes[c].kids) + Len(l) :
                cc[j] = IF j <= Len(nodes[c].kids) THEN nodes[c].kids[j] ELSE l[j - Len(nodes[c].kids)]
      <4>1. cc = nodes[c].kids \o l /\ l \in Seq(Bids)
        BY <3>4, <3>40
      <4> HIDE DEF cc, l
      <4> QED BY ONLY <1>3, <4>1, ConcatOf
    <3>6. Len(l) = 1 /\ l[1] = e
      BY <3>40
    <3> HIDE DEF sc, cc, e, kid, l
    <3>7. /\ Len(cc) = n + 2
          /\ \A j \in 1 .. n + 2 : cc[j] = IF j <= n + 1 THEN nodes[c].kids[j] ELSE l[j - (n + 1)]
      BY ONLY <1>0, <3>0, <3>5, <3>6
    <3>8. n + 2 \in 1 .. n + 2 /\ ~ (n + 2 <= n + 1) /\ (n + 2) - (n + 1) = 1
          /\ \A j \in 1 .. n + 1 : j \in 1 .. n + 2 /\ j <= n + 1
      BY ONLY <1>0
    <3>9. cc[n + 2] = e /\ \A j \in 1 .. n + 1 : cc[j] = nodes[c].kids[j]
      BY ONLY <3>6, <3>7, <3>8
    <3> QED BY ONLY <3>0, <3>2, <3>4, <3>5, <3>7, <3>9
  <2> QED BY <2>1, <2>2
<1> HIDE DEF pk, ck, cc, sk, sc, kid
<1>9. /\ nd[p].keys = pk /\ nd[p].kids = nodes[p].kids /\ nd[c].keys = ck /\ nd[c].kids = cc
      /\ nd[s].keys = sk /\ nd[s].kids = sc
      /\ nd[p] \in Node /\ nd[c] \in Node /\ nd[s] \in Node
  <2>1. cc \in Seq(Bids) /\ sc \in Seq(Bids)
    BY <1>8
  <2> QED BY <1>3, <1>4, <1>5, <1>6, <1>7, <2>1 DEF Node
<1> DEFINE n1 == n + 1  m1 == m - 1
<1>10. Len(nd[c].keys) = n1 /\ Len(nd[s].keys) = m1 /\ Len(nd[p].keys) = k + 1
  BY <1>5, <1>6, <1>7, <1>9
<1>11. /\ n1 \in Nat /\ m1 \in Nat /\ n1 + m1 + 1 = n + m + 1 /\ n1 + m1 + 2 = n + m + 2
       /\ n1 + 1 = n + 2 /\ m1 + 1 = m /\ \A j \in Nat : j + n1 + 1 = (j + 1) + n + 1
       /\ n1 = n + 1 /\ m1 = m - 1
  BY <1>0
<1> HIDE DEF n1, m1
<1>12. /\ Len(jd[c].keys) = n1 + m1 + 1
       /\ \A j \in 1 .. n1 : jd[c].keys[j] = nd[c].keys[j]
       /\ jd[c].keys[n1 + 1] = nd[p].keys[i]
       /\ \A j \in 1 .. m1 : jd[c].keys[j + n1 + 1] = nd[s].keys[j]
  <2>1. \A j \in 1 .. n1 : jd[c].keys[j] = nd[c].keys[j]
    <3>1. \A j \in 1 .. n1 : j \in 1 .. n \/ j = n + 1
      BY ONLY <1>0, <1>11
    <3> QED BY ONLY <1>2, <1>6, <1>9, <3>1
  <2>2. jd[c].keys[n1 + 1] = nd[p].keys[i]
    <3>1. 1 \in 1 .. m /\ n1 + 1 = 1 + n + 1
      BY ONLY <1>0, <1>11
    <3> QED BY ONLY <1>2, <1>7, <1>9, <3>1
  <2>3. \A j \in 1 .. m1 : jd[c].keys[j + n1 + 1] = nd[s].keys[j]
    <3>1. \A j \in 1 .. m1 : j + 1 \in 1 .. m /\ j + n1 + 1 = (j + 1) + n + 1 /\ j \in 1 .. m - 1
      BY ONLY <1>0, <1>11
    <3> QED BY ONLY <1>2, <1>5, <1>9, <3>1
  <2> QED BY ONLY <1>2, <1>11, <2>1, <2>2, <2>3
<1>13. /\ \/ Len(jd[c].kids) = 0 /\ Len(nd[c].kids) = 0 /\ Len(nd[s].kids) = 0
          \/ Len(jd[c].kids) = n1 + m1 + 2 /\ Len(nd[c].kids) = n1 + 1 /\ Len(nd[s].kids) = m1 + 1
       /\ \A j \in 1 .. Len(nd[c].kids) : jd[c].kids[j] = nd[c].kids[j]
       /\ \A j \in 1 .. Len(nd[s].kids) : jd[c].kids[j + n1 + 1] = nd[s].kids[j]
  <2>1. CASE Len(jd[c].kids) = 0 /\ Len(sc) = 0 /\ Len(cc) = 0
    BY ONLY <1>9, <2>1
  <2>2. CASE /\ Len(jd[c].kids) = n + m + 2 /\ Len(nodes[s].kids) = m + 1 /\ Len(nodes[c].kids) = n + 1
             /\ Len(sc) = m /\ \A j \in 1 .. m : sc[j] = nodes[s].kids[j + 1]
             /\ Len(cc) = n + 2 /\ cc[n + 2] = nodes[s].kids[1]
             /\ \A j \in 1 .. n + 1 : cc[j] = nodes[c].kids[j]
    <3>1. \A j \in 1 .. n + 2 : jd[c].kids[j] = cc[j]
      <4>1. \A j \in 1 .. n + 2 : j \in 1 .. n + 1 \/ j = n + 2
        BY ONLY <1>0
      <4>2. 1 \in 1 .. m + 1 /\ n + 2 = 1 + n + 1
        BY ONLY <1>0
      <4>3. \A j \in 1 .. n + 1 : jd[c].kids[j] = nodes[c].kids[j]
        BY ONLY <1>2, <2>2
      <4>4. jd[c].kids[n + 2] = nodes[s].kids[1]
        BY ONLY <1>2, <2>2, <4>2
      <4> QED BY ONLY <2>2, <4>1, <4>3, <4>4
    <3>2. \A j \in 1 .. m : jd[c].kids[j + n1 + 1] = sc[j]
      <4>1. \A j \in 1 .. m : j + 1 \in 1 .. m + 1 /\ j + n1 + 1 = (j + 1) + n + 1
        BY ONLY <1>0, <1>11
      <4>2. \A j \in 1 .. m + 1 : jd[c].kids[j + n + 1] = nodes[s].kids[j]
        BY ONLY <1>2, <2>2
      <4> QED BY ONLY <2>2, <4>1, <4>2, Zenon
    <3> QED BY ONLY <1>9, <1>11, <2>2, <3>1, <3>2
  <2> QED BY ONLY <1>8, <2>1, <2>2
<1>14. /\ p # c /\ p # s /\ c # s /\ i \in 1 .. k + 1
       /\ nd[p] \in Node /\ nd[c] \in Node /\ nd[s] \in Node
       /\ jd[p] \in Node /\ jd[c] \in Node /\ jd[s] = None
       /\ Len(nd[p].keys) = k + 1 /\ Len(nd[p].kids) = k + 2 /\ Len(jd[p].kids) = k + 1
       /\ nd[p].kids[i] = c /\ nd[p].kids[i + 1] = s
       /\ \A x \in Bids \ {p, c, s} : jd[x] = nd[x]
       /\ \A j \in 1 .. k + 1 : jd[p].kids[j] = nd[p].kids[IF j <= i THEN j ELSE j + 1]
  BY <1>1, <1>4, <1>9, <1>10
<1>15. \A j \in 1 .. k : jd[p].keys[j] = nd[p].keys[IF j < i THEN j ELSE j + 1]
  <2> SUFFICES ASSUME NEW j \in 1 .. k
               PROVE  jd[p].keys[j] = nd[p].keys[IF j < i THEN j ELSE j + 1]
    OBVIOUS
  <2> DEFINE g == IF j < i THEN j ELSE j + 1
  <2>1. g \in 1 .. k + 1 /\ g # i
    BY ONLY <1>0, <1>1, i \in Nat, j \in 1 .. k
  <2> QED BY ONLY <1>1, <1>7, <1>9, <2>1, j \in 1 .. k
<1>16. Joins(nd, jd, p, i, c, s)
  BY ONLY <1>10, <1>12, <1>13, <1>14, <1>15, <1>20 DEF Joins
<1> QED BY <1>4, <1>10, <1>11, <1>16, <1>20 DEF nd, KeyGiven

(***************************************************************************)
(* What follows for a tree: nodes of one height are between different      *)
(* keys, and no key of a higher node is among those of a lower one.        *)
(***************************************************************************)
LEMMA Order ==
  ASSUME NEW nd, NEW r, NEW L, IsTree(nd, r, L), NEW x \in Bids, nd[x] # None
  PROVE  LET l == Len(nd[x].keys) IN
         /\ l \in Nat /\ SepOf(nd, L, x, 0) = L.lo[x] /\ SepOf(nd, L, x, l + 1) = L.hi[x]
         /\ \A j \in 1 .. l : SepOf(nd, L, x, j) = nd[x].keys[j] /\ nd[x].keys[j] \in Keys
         /\ \A j \in 0 .. l + 1 : /\ SepOf(nd, L, x, j) \in Int
                                  /\ L.lo[x] <= SepOf(nd, L, x, j) /\ SepOf(nd, L, x, j) <= L.hi[x]
         /\ \A j, k \in 0 .. l + 1 : j < k => SepOf(nd, L, x, j) < SepOf(nd, L, x, k)
         /\ L.lo[x] < L.hi[x] /\ 0 <= L.lo[x] /\ L.hi[x] <= MaxKey + 1
         /\ L.lo[x] \in Int /\ L.hi[x] \in Int
<1> DEFINE l == Len(nd[x].keys)
<1>1. l \in Nat /\ IsShaped(nd, L, x) /\ IsLabel(L, x) /\ nd[x] \in Node
  BY TreeNode
<1>2. \A j \in 1 .. l : nd[x].keys[j] \in Keys
  BY <1>1, NodeFacts
<1>3. Len(nd[x].keys) = l
  OBVIOUS
<1> HIDE DEF l
<1>4. /\ SepOf(nd, L, x, 0) = L.lo[x] /\ SepOf(nd, L, x, l + 1) = L.hi[x]
      /\ \A j \in 1 .. l : SepOf(nd, L, x, j) = nd[x].keys[j]
  BY ONLY <1>1, <1>3 DEF SepOf, Sep
<1>5. \A j, k \in 0 .. l + 1 : j < k => SepOf(nd, L, x, j) < SepOf(nd, L, x, k)
  BY ONLY <1>1, <1>3 DEF IsShaped
<1>6. L.lo[x] \in Int /\ L.hi[x] \in Int /\ 0 <= L.lo[x] /\ L.hi[x] <= MaxKey + 1
  BY <1>1, BTreeAssumption DEF IsLabel
<1>7. \A j \in 0 .. l + 1 : SepOf(nd, L, x, j) \in Int
  <2>1. \A j \in 0 .. l + 1 : j = 0 \/ j = l + 1 \/ j \in 1 .. l
    BY ONLY <1>1
  <2>2. \A j \in 1 .. l : nd[x].keys[j] \in Int
    BY ONLY <1>2 DEF Keys
  <2> QED BY ONLY <1>4, <1>6, <2>1, <2>2
<1>8. 0 \in 0 .. l + 1 /\ l + 1 \in 0 .. l + 1 /\ 0 < l + 1
      /\ \A j \in 0 .. l + 1 : (j = 0 \/ 0 < j) /\ (j = l + 1 \/ j < l + 1)
  BY ONLY <1>1
<1>9. \A j \in 0 .. l + 1 : L.lo[x] <= SepOf(nd, L, x, j) /\ SepOf(nd, L, x, j) <= L.hi[x]
  BY ONLY <1>4, <1>5, <1>6, <1>7, <1>8
<1>10. L.lo[x] < L.hi[x]
  BY ONLY <1>4, <1>5, <1>8
<1> QED BY <1>1, <1>2, <1>4, <1>5, <1>6, <1>7, <1>9, <1>10 DEF l

\* A node but the root is the child its label says, and its bounds are within its
\* parent's.
LEMMA Parent ==
  ASSUME NEW nd, NEW r, NEW L, IsTree(nd, r, L), NEW x \in Bids, nd[x] # None, x # r
  PROVE  LET p == L.parent[x]
             j == L.place[x]
         IN  /\ p \in Bids /\ nd[p] # None /\ j \in 1 .. Len(nd[p].kids) /\ nd[p].kids[j] = x
             /\ p # x /\ L.h[p] = L.h[x] + 1 /\ L.h[x] \in Nat /\ L.h[p] \in Nat
             /\ Len(nd[p].kids) = Len(nd[p].keys) + 1
             /\ L.lo[x] = SepOf(nd, L, p, j - 1) /\ L.hi[x] = SepOf(nd, L, p, j)
             /\ L.lo[p] <= L.lo[x] /\ L.hi[x] <= L.hi[p]
             /\ L.lo[x] \in Int /\ L.hi[x] \in Int /\ L.lo[p] \in Int /\ L.hi[p] \in Int
<1> DEFINE p == L.parent[x]  j == L.place[x]
<1>1. HasParent(nd, L, x)
  BY TreeNode
<1>2. p \in Bids /\ nd[p] # None /\ j \in DOMAIN nd[p].kids /\ nd[p].kids[j] = x
  BY <1>1 DEF HasParent
<1> HIDE DEF p, j
<1>3. j \in 1 .. Len(nd[p].kids) /\ Len(nd[p].keys) \in Nat /\ L.h[p] \in Nat
  BY <1>2, TreeNode
<1>4. /\ nd[p].kids[j] # p /\ L.h[p] = L.h[nd[p].kids[j]] + 1
      /\ L.lo[nd[p].kids[j]] = SepOf(nd, L, p, j - 1) /\ L.hi[nd[p].kids[j]] = SepOf(nd, L, p, j)
      /\ Len(nd[p].kids) = Len(nd[p].keys) + 1
  BY ONLY IsTree(nd, r, L), <1>2, <1>3, TreeChild
<1>5. j - 1 \in 0 .. Len(nd[p].keys) + 1 /\ j \in 0 .. Len(nd[p].keys) + 1
  BY ONLY <1>3, <1>4
<1>6. /\ L.lo[p] <= SepOf(nd, L, p, j - 1) /\ SepOf(nd, L, p, j) <= L.hi[p]
      /\ L.lo[p] \in Int /\ L.hi[p] \in Int
  BY <1>2, <1>5, Order
<1>7. L.h[x] \in Nat /\ L.lo[x] \in Int /\ L.hi[x] \in Int
  BY TreeNode
<1> QED BY <1>2, <1>3, <1>4, <1>6, <1>7 DEF p, j

\* The heights have a bound, as there are finitely many nodes.
LEMMA HeightsBounded ==
  ASSUME NEW nd, NEW r, NEW L, IsTree(nd, r, L)
  PROVE  \E N \in Nat : \A x \in Bids : nd[x] # None => L.h[x] <= N
<1> DEFINE Bounds(N, b) == \A x \in 1 .. b : nd[x] # None => L.h[x] <= N
           S == {b \in 0 .. MaxBid : ~ \E N \in Nat : Bounds(N, b)}
<1>1. \A x \in Bids : nd[x] # None => L.h[x] \in Nat
  BY TreeNode
<1>2. S = {}
  <2> SUFFICES ASSUME S # {} PROVE FALSE
    OBVIOUS
  <2>1. PICK b \in S : \A c \in S : b <= c
    <3>1. S \subseteq Nat
      BY BTreeAssumption
    <3> HIDE DEF S
    <3> QED BY <3>1, LeastNatural
  <2>2. b \in 0 .. MaxBid /\ ~ \E N \in Nat : Bounds(N, b)
    OBVIOUS
  <2>3. b # 0
    <3>1. Bounds(0, 0)
      OBVIOUS
    <3> QED BY <2>2, <3>1
  <2>4. b - 1 \in 0 .. MaxBid /\ b - 1 \notin S /\ b \in Bids
    <3>1. b \in Int /\ MaxBid \in Nat
      BY ONLY <2>2, BTreeAssumption
    <3>2. b - 1 \in 0 .. MaxBid /\ b \in 1 .. MaxBid /\ ~ (b <= b - 1)
      BY ONLY <2>2, <2>3, <3>1
    <3> HIDE DEF S
    <3>3. b - 1 \notin S
      BY ONLY <2>1, <3>2
    <3> QED BY <3>2, <3>3 DEF Bids
  <2>5. PICK N \in Nat : Bounds(N, b - 1)
    BY <2>4
  <2> DEFINE M == IF nd[b] # None /\ L.h[b] > N THEN L.h[b] ELSE N
  <2>6. M \in Nat /\ N <= M /\ (nd[b] # None => L.h[b] <= M)
    BY <1>1, <2>4
  <2> HIDE DEF M, S
  <2>7. \A x \in 1 .. b : x \in 1 .. b - 1 \/ x = b
    BY <2>2
  <2>8. \A x \in 1 .. b : nd[x] # None => L.h[x] <= M
    <3> TAKE x \in 1 .. b
    <3> HAVE nd[x] # None
    <3>1. x \in Bids
      BY <2>2, BTreeAssumption DEF Bids
    <3>2. CASE x = b
      BY <2>6, <3>2
    <3>3. CASE x \in 1 .. b - 1
      BY <1>1, <2>5, <2>6, <3>1, <3>3
    <3> QED BY <2>7, <3>2, <3>3
  <2> QED BY <2>2, <2>6, <2>8
<1>3. MaxBid \in 0 .. MaxBid
  BY BTreeAssumption
<1>4. \E N \in Nat : Bounds(N, MaxBid)
  BY <1>2, <1>3
<1> QED BY <1>4 DEF Bids

\* No node is as high as the root.
LEMMA RootIsHighest ==
  ASSUME NEW nd, NEW r, NEW L, IsTree(nd, r, L), NEW x \in Bids, nd[x] # None, x # r
  PROVE  L.h[x] < L.h[r] /\ L.h[x] \in Nat /\ L.h[r] \in Nat
<1>0. r \in Bids /\ nd[r] # None /\ L.h[r] \in Nat /\ L.h[x] \in Nat
  <2>1. r \in Bids /\ nd[r] # None /\ L.h[x] \in Nat
    BY TreeNode
  <2> QED BY <2>1, TreeNode
<1>1. PICK N \in Nat : \A y \in Bids : nd[y] # None => L.h[y] <= N
  BY HeightsBounded
<1> DEFINE Bad(y) == y \in Bids /\ nd[y] # None /\ y # r /\ L.h[y] >= L.h[r]
           S == {N - L.h[y] : y \in {z \in Bids : Bad(z)}}
<1>2. ASSUME Bad(x) PROVE FALSE
  <2>1. S \subseteq Nat /\ S # {}
    <3>1. \A y \in Bids : nd[y] # None => L.h[y] \in Nat
      BY TreeNode
    <3>2. \A y \in Bids : nd[y] # None => N - L.h[y] \in Nat
      BY <1>1, <3>1
    <3> QED BY <1>2, <3>2
  <2>2. PICK n \in S : \A m \in S : n <= m
    <3> HIDE DEF S
    <3> QED BY <2>1, LeastNatural
  <2>3. PICK y \in Bids : Bad(y) /\ n = N - L.h[y]
    BY <2>2
  <2> DEFINE p == L.parent[y]
  <2>4. p \in Bids /\ nd[p] # None /\ L.h[p] = L.h[y] + 1 /\ L.h[y] \in Nat
    BY <2>3, Parent
  <2> HIDE DEF p
  <2>5. Bad(p)
    <3>1. L.h[p] # L.h[r] /\ L.h[p] >= L.h[r]
      BY <1>0, <2>3, <2>4
    <3> QED BY <2>4, <3>1
  <2>6. N - L.h[p] \in S
    BY <2>5
  <2>7. N - L.h[y] <= N - L.h[p]
    BY <2>2, <2>3, <2>6
  <2> QED BY <2>4, <2>7
<1> QED BY <1>0, <1>2

\* Nodes of one height.
LEMMA Apart ==
  ASSUME NEW nd, NEW r, NEW L, IsTree(nd, r, L)
  PROVE  \A x, y \in Bids : nd[x] # None /\ nd[y] # None /\ x # y /\ L.h[x] = L.h[y] =>
           L.hi[x] <= L.lo[y] \/ L.hi[y] <= L.lo[x]
<1> DEFINE Bad(x, y) == /\ nd[x] # None /\ nd[y] # None /\ x # y /\ L.h[x] = L.h[y]
                        /\ ~ (L.hi[x] <= L.lo[y] \/ L.hi[y] <= L.lo[x])
           S == {L.h[r] - L.h[x] : x \in {z \in Bids : \E y \in Bids : Bad(z, y)}}
<1>1. SUFFICES ASSUME NEW a \in Bids, NEW b \in Bids, Bad(a, b) PROVE FALSE
  OBVIOUS
<1>2. S \subseteq Nat /\ S # {}
  <2>1. \A x \in Bids : nd[x] # None => L.h[r] - L.h[x] \in Nat
    <3> TAKE x \in Bids
    <3> HAVE nd[x] # None
    <3>1. CASE x = r
      <4>1. L.h[r] \in Nat
        BY <3>1, TreeNode
      <4> QED BY <3>1, <4>1
    <3>2. CASE x # r
      BY <3>2, RootIsHighest
    <3> QED BY <3>1, <3>2
  <2> QED BY <1>1, <2>1
<1>3. PICK n \in S : \A m \in S : n <= m
  <2> HIDE DEF S
  <2> QED BY <1>2, LeastNatural
<1>4. PICK x \in Bids : (\E y \in Bids : Bad(x, y)) /\ n = L.h[r] - L.h[x]
  BY <1>3
<1>5. PICK y \in Bids : Bad(x, y)
  BY <1>4
<1>6. x # r /\ y # r
  <2>1. L.h[x] = L.h[y] /\ x # y /\ nd[x] # None /\ nd[y] # None
    BY <1>5
  <2>2. x = r => L.h[y] < L.h[x] /\ L.h[y] \in Nat
    BY ONLY IsTree(nd, r, L), <2>1, x \in Bids, y \in Bids, RootIsHighest
  <2>3. y = r => L.h[x] < L.h[y] /\ L.h[x] \in Nat
    BY ONLY IsTree(nd, r, L), <2>1, x \in Bids, y \in Bids, RootIsHighest
  <2> QED BY <2>1, <2>2, <2>3
<1> DEFINE p == L.parent[x]  i == L.place[x]
           q == L.parent[y]  j == L.place[y]
<1>7. /\ p \in Bids /\ nd[p] # None /\ i \in 1 .. Len(nd[p].kids) /\ nd[p].kids[i] = x
      /\ L.h[p] = L.h[x] + 1 /\ L.h[x] \in Nat
      /\ Len(nd[p].kids) = Len(nd[p].keys) + 1
      /\ L.lo[x] = SepOf(nd, L, p, i - 1) /\ L.hi[x] = SepOf(nd, L, p, i)
      /\ L.lo[p] <= L.lo[x] /\ L.hi[x] <= L.hi[p]
      /\ L.lo[x] \in Int /\ L.hi[x] \in Int /\ L.lo[p] \in Int /\ L.hi[p] \in Int
  BY <1>5, <1>6, Parent
<1>8. /\ q \in Bids /\ nd[q] # None /\ j \in 1 .. Len(nd[q].kids) /\ nd[q].kids[j] = y
      /\ L.h[q] = L.h[y] + 1 /\ L.h[y] \in Nat
      /\ Len(nd[q].kids) = Len(nd[q].keys) + 1
      /\ L.lo[y] = SepOf(nd, L, q, j - 1) /\ L.hi[y] = SepOf(nd, L, q, j)
      /\ L.lo[q] <= L.lo[y] /\ L.hi[y] <= L.hi[q]
      /\ L.lo[y] \in Int /\ L.hi[y] \in Int /\ L.lo[q] \in Int /\ L.hi[q] \in Int
  BY <1>5, <1>6, Parent
<1> HIDE DEF p, q, i, j
<1>9. CASE p = q
  <2>1. /\ \A g, l \in 0 .. Len(nd[p].keys) + 1 : g < l => SepOf(nd, L, p, g) < SepOf(nd, L, p, l)
        /\ \A g \in 0 .. Len(nd[p].keys) + 1 : SepOf(nd, L, p, g) \in Int
        /\ Len(nd[p].keys) \in Nat
    BY <1>7, Order
  <2>2. i # j
    BY <1>5, <1>7, <1>8, <1>9
  <2>3. CASE i < j
    <3>1. i \in 0 .. Len(nd[p].keys) + 1 /\ j - 1 \in 0 .. Len(nd[p].keys) + 1 /\ i <= j - 1
      BY ONLY <1>7, <1>8, <1>9, <2>1, <2>3
    <3>2. SepOf(nd, L, p, i) <= SepOf(nd, L, p, j - 1)
      BY ONLY <2>1, <3>1
    <3> QED BY <1>5, <1>7, <1>8, <1>9, <3>2
  <2>4. CASE j < i
    <3>1. j \in 0 .. Len(nd[p].keys) + 1 /\ i - 1 \in 0 .. Len(nd[p].keys) + 1 /\ j <= i - 1
      BY ONLY <1>7, <1>8, <1>9, <2>1, <2>4
    <3>2. SepOf(nd, L, p, j) <= SepOf(nd, L, p, i - 1)
      BY ONLY <2>1, <3>1
    <3> QED BY <1>5, <1>7, <1>8, <1>9, <3>2
  <2>5. i \in Int /\ j \in Int
    BY <1>7, <1>8
  <2> QED BY <2>2, <2>3, <2>4, <2>5
<1>10. CASE p # q
  <2>1. ~ Bad(p, q)
    <3>1. SUFFICES ASSUME Bad(p, q) PROVE FALSE
      OBVIOUS
    <3>2. L.h[r] - L.h[p] \in S
      BY <1>7, <1>8, <3>1
    <3>3. L.h[r] - L.h[x] <= L.h[r] - L.h[p]
      BY <1>3, <1>4, <3>2
    <3>4. L.h[r] \in Nat
      BY <1>5, <1>6, RootIsHighest
    <3> QED BY <1>7, <3>3, <3>4
  <2>2. L.h[p] = L.h[q]
    BY <1>5, <1>7, <1>8
  <2>3. L.hi[p] <= L.lo[q] \/ L.hi[q] <= L.lo[p]
    BY <1>7, <1>8, <1>10, <2>1, <2>2
  <2>4. L.hi[x] <= L.lo[y] \/ L.hi[y] <= L.lo[x]
    BY ONLY <1>7, <1>8, <2>3
  <2> QED BY <1>5, <2>4
<1> QED BY <1>9, <1>10

\* A key of a higher node.
LEMMA NoneBetween ==
  ASSUME NEW nd, NEW r, NEW L, IsTree(nd, r, L)
  PROVE  \A x, y \in Bids : nd[x] # None /\ nd[y] # None /\ L.h[x] < L.h[y] =>
           \A j \in 1 .. Len(nd[y].keys) : ~ (L.lo[x] < nd[y].keys[j] /\ nd[y].keys[j] < L.hi[x])
<1> DEFINE Bad(x, y) == /\ nd[x] # None /\ nd[y] # None /\ L.h[x] < L.h[y]
                        /\ \E j \in 1 .. Len(nd[y].keys) :
                             L.lo[x] < nd[y].keys[j] /\ nd[y].keys[j] < L.hi[x]
           S == {L.h[r] - L.h[x] : x \in {z \in Bids : \E y \in Bids : Bad(z, y)}}
<1>1. SUFFICES ASSUME NEW a \in Bids, NEW b \in Bids, Bad(a, b) PROVE FALSE
  OBVIOUS
<1>11. \A x \in Bids : nd[x] # None => L.h[x] \in Nat /\ L.h[r] \in Nat /\ L.h[x] <= L.h[r]
  <3> TAKE x \in Bids
  <3> HAVE nd[x] # None
  <3>1. CASE x = r
    <4>1. L.h[r] \in Nat
      BY <3>1, TreeNode
    <4> QED BY <3>1, <4>1
  <3>2. CASE x # r
    BY <3>2, RootIsHighest
  <3> QED BY <3>1, <3>2
<1>2. S \subseteq Nat /\ S # {}
  BY <1>1, <1>11
<1>3. PICK n \in S : \A m \in S : n <= m
  <2> HIDE DEF S
  <2> QED BY <1>2, LeastNatural
<1>4. PICK x \in Bids : (\E y \in Bids : Bad(x, y)) /\ n = L.h[r] - L.h[x]
  BY <1>3
<1>5. PICK y \in Bids : Bad(x, y)
  BY <1>4
<1>51. PICK g \in 1 .. Len(nd[y].keys) : L.lo[x] < nd[y].keys[g] /\ nd[y].keys[g] < L.hi[x]
  BY <1>5
<1>52. nd[x] # None /\ nd[y] # None /\ L.h[x] < L.h[y]
  BY <1>5
<1>6. x # r
  BY <1>11, <1>52
<1> DEFINE p == L.parent[x]  i == L.place[x]
<1>7. /\ p \in Bids /\ nd[p] # None /\ i \in 1 .. Len(nd[p].kids) /\ nd[p].kids[i] = x
      /\ L.h[p] = L.h[x] + 1 /\ L.h[x] \in Nat
      /\ Len(nd[p].kids) = Len(nd[p].keys) + 1
      /\ L.lo[x] = SepOf(nd, L, p, i - 1) /\ L.hi[x] = SepOf(nd, L, p, i)
      /\ L.lo[p] <= L.lo[x] /\ L.hi[x] <= L.hi[p]
      /\ L.lo[x] \in Int /\ L.hi[x] \in Int /\ L.lo[p] \in Int /\ L.hi[p] \in Int
  BY <1>52, <1>6, Parent
<1> HIDE DEF p, i
<1> DEFINE v == nd[y].keys[g]
<1>70. /\ Len(nd[y].keys) \in Nat /\ SepOf(nd, L, y, 0) = L.lo[y]
       /\ SepOf(nd, L, y, Len(nd[y].keys) + 1) = L.hi[y]
       /\ \A j \in 1 .. Len(nd[y].keys) : SepOf(nd, L, y, j) = nd[y].keys[j]
       /\ \A j \in 0 .. Len(nd[y].keys) + 1 : SepOf(nd, L, y, j) \in Int
       /\ \A j, k \in 0 .. Len(nd[y].keys) + 1 : j < k => SepOf(nd, L, y, j) < SepOf(nd, L, y, k)
       /\ L.lo[y] \in Int /\ L.hi[y] \in Int
  BY <1>52, Order
<1>8. v \in Int /\ L.lo[y] < v /\ v < L.hi[y] /\ v = SepOf(nd, L, y, g)
  <2>1. g \in 0 .. Len(nd[y].keys) + 1 /\ 0 \in 0 .. Len(nd[y].keys) + 1 /\ 0 < g
        /\ Len(nd[y].keys) + 1 \in 0 .. Len(nd[y].keys) + 1 /\ g < Len(nd[y].keys) + 1
    BY <1>70
  <2> QED BY ONLY <1>70, <2>1, g \in 1 .. Len(nd[y].keys)
<1>81. L.lo[x] < v /\ v < L.hi[x]
  BY <1>51
<1> HIDE DEF v
<1>9. CASE L.h[p] < L.h[y]
  <2>1. L.lo[p] < v /\ v < L.hi[p]
    BY ONLY <1>7, <1>8, <1>81
  <2>2. Bad(p, y)
    BY <1>7, <1>52, <1>9, <2>1 DEF v
  <2>3. L.h[r] - L.h[p] \in S
    BY <1>7, <2>2
  <2>4. L.h[r] - L.h[x] <= L.h[r] - L.h[p]
    BY <1>3, <1>4, <2>3
  <2>5. L.h[r] \in Nat
    BY <1>11, <1>52
  <2> QED BY <1>7, <2>4, <2>5
<1>10. CASE L.h[p] = L.h[y] /\ p = y
  <2>0. i \in 1 .. Len(nd[y].keys) + 1
    BY ONLY <1>7, <1>10
  <2>1. i - 1 \in 0 .. Len(nd[y].keys) + 1 /\ i \in 0 .. Len(nd[y].keys) + 1 /\ i \in Int /\ g \in Int
        /\ g \in 0 .. Len(nd[y].keys) + 1
    BY ONLY <1>70, <2>0, g \in 1 .. Len(nd[y].keys)
  <2>2. SepOf(nd, L, y, i - 1) < SepOf(nd, L, y, g) /\ SepOf(nd, L, y, g) < SepOf(nd, L, y, i)
    BY ONLY <1>7, <1>8, <1>81, <1>10
  <2>3. i - 1 < g
    <3>1. CASE g < i - 1
      <4>1. SepOf(nd, L, y, g) < SepOf(nd, L, y, i - 1)
        BY ONLY <1>70, <2>1, <3>1
      <4>2. SepOf(nd, L, y, i - 1) \in Int /\ SepOf(nd, L, y, g) \in Int
        BY ONLY <1>70, <2>1
      <4> QED BY ONLY <2>2, <4>1, <4>2
    <3>2. CASE g = i - 1
      BY ONLY <1>70, <2>1, <2>2, <3>2
    <3> QED BY ONLY <2>1, <3>1, <3>2
  <2>4. g < i
    <3>1. CASE i < g
      <4>1. SepOf(nd, L, y, i) < SepOf(nd, L, y, g)
        BY ONLY <1>70, <2>1, <3>1
      <4>2. SepOf(nd, L, y, i) \in Int /\ SepOf(nd, L, y, g) \in Int
        BY ONLY <1>70, <2>1
      <4> QED BY ONLY <2>2, <4>1, <4>2
    <3>2. CASE g = i
      BY ONLY <1>70, <2>1, <2>2, <3>2
    <3> QED BY ONLY <2>1, <3>1, <3>2
  <2> QED BY ONLY <2>1, <2>3, <2>4
<1>12. CASE L.h[p] = L.h[y] /\ p # y
  <2>1. L.hi[p] <= L.lo[y] \/ L.hi[y] <= L.lo[p]
    BY <1>7, <1>52, <1>12, Apart
  <2> QED BY ONLY <1>7, <1>8, <1>70, <1>81, <2>1
<1>13. L.h[y] \in Nat
  BY <1>11, <1>52
<1> QED BY <1>7, <1>52, <1>9, <1>10, <1>12, <1>13

(***************************************************************************)
(* Where a key is.                                                         *)
(***************************************************************************)
Has(nd, x, k) == nd[x] # None /\ \E j \in 1 .. Len(nd[x].keys) : nd[x].keys[j] = k
KeysOf(nd) == {k \in Keys : \E x \in Bids : Has(nd, x, k)}
Within(L, x, k) == L.lo[x] < k /\ k < L.hi[x]

\* A key of a node is between its bounds.
LEMMA KeyBounds ==
  ASSUME NEW nd, NEW r, NEW L, IsTree(nd, r, L), NEW x \in Bids, NEW k, Has(nd, x, k)
  PROVE  Within(L, x, k) /\ k \in Keys /\ k \in Int /\ k \in KeysOf(nd) /\ nd[x] # None
<1>1. nd[x] # None /\ \E j \in 1 .. Len(nd[x].keys) : nd[x].keys[j] = k
  BY DEF Has
<1>2. PICK j \in 1 .. Len(nd[x].keys) : nd[x].keys[j] = k
  BY <1>1
<1> DEFINE l == Len(nd[x].keys)
<1>3. /\ l \in Nat /\ SepOf(nd, L, x, 0) = L.lo[x] /\ SepOf(nd, L, x, l + 1) = L.hi[x]
      /\ \A g \in 1 .. l : SepOf(nd, L, x, g) = nd[x].keys[g] /\ nd[x].keys[g] \in Keys
      /\ \A g, h \in 0 .. l + 1 : g < h => SepOf(nd, L, x, g) < SepOf(nd, L, x, h)
  BY <1>1, Order
<1>30. j \in 1 .. l
  BY <1>2
<1> HIDE DEF l
<1>4. 0 \in 0 .. l + 1 /\ j \in 0 .. l + 1 /\ l + 1 \in 0 .. l + 1 /\ 0 < j /\ j < l + 1
  BY ONLY <1>3, <1>30
<1>5. SepOf(nd, L, x, j) = k /\ k \in Keys
  BY <1>2, <1>3, <1>30
<1>6. L.lo[x] < k /\ k < L.hi[x]
  BY ONLY <1>3, <1>4, <1>5
<1>7. k \in KeysOf(nd)
  BY <1>5 DEF KeysOf
<1> QED BY <1>1, <1>5, <1>6, <1>7 DEF Within, Keys

\* A key between the bounds of a node is in it or in a lower node.
LEMMA KeyHome ==
  ASSUME NEW nd, NEW r, NEW L, IsTree(nd, r, L), NEW x \in Bids, NEW y \in Bids, NEW k,
         nd[x] # None, Has(nd, y, k), Within(L, x, k)
  PROVE  x = y \/ L.h[y] < L.h[x]
<1>1. Within(L, y, k) /\ k \in Int /\ nd[y] # None
  BY KeyBounds
<1>2. L.h[x] \in Nat /\ L.lo[x] \in Int /\ L.hi[x] \in Int
  BY TreeNode
<1>3. L.h[y] \in Nat /\ L.lo[y] \in Int /\ L.hi[y] \in Int
  BY <1>1, TreeNode
<1>4. CASE L.h[x] = L.h[y] /\ x # y
  <2>1. L.hi[x] <= L.lo[y] \/ L.hi[y] <= L.lo[x]
    BY <1>1, <1>4, Apart
  <2>2. L.lo[x] < k /\ k < L.hi[x] /\ L.lo[y] < k /\ k < L.hi[y]
    BY <1>1 DEF Within
  <2> QED BY ONLY <1>1, <1>2, <1>3, <2>1, <2>2
<1>5. CASE L.h[x] < L.h[y]
  <2>1. \A j \in 1 .. Len(nd[y].keys) : ~ (L.lo[x] < nd[y].keys[j] /\ nd[y].keys[j] < L.hi[x])
    BY <1>1, <1>5, NoneBetween
  <2> QED BY <2>1 DEF Has, Within
<1> QED BY <1>2, <1>3, <1>4, <1>5

\* A key is in one node.
LEMMA KeyOnce ==
  ASSUME NEW nd, NEW r, NEW L, IsTree(nd, r, L), NEW x \in Bids, NEW y \in Bids, NEW k,
         Has(nd, x, k), Has(nd, y, k)
  PROVE  x = y
<1>1. Within(L, x, k) /\ Within(L, y, k) /\ nd[x] # None /\ nd[y] # None
  BY KeyBounds
<1>2. L.h[x] \in Nat /\ L.h[y] \in Nat
  BY <1>1, TreeNode
<1>3. (x = y \/ L.h[y] < L.h[x]) /\ (y = x \/ L.h[x] < L.h[y])
  BY <1>1, KeyHome
<1> QED BY <1>2, <1>3

\* The keys of a node ascend.
LEMMA KeyPlace ==
  ASSUME NEW nd, NEW r, NEW L, IsTree(nd, r, L), NEW x \in Bids, nd[x] # None
  PROVE  \A i, j \in 1 .. Len(nd[x].keys) :
           /\ i < j => nd[x].keys[i] < nd[x].keys[j]
           /\ nd[x].keys[i] = nd[x].keys[j] => i = j
           /\ nd[x].keys[i] \in Int /\ nd[x].keys[i] \in Keys
<1> DEFINE l == Len(nd[x].keys)
<1>3. /\ l \in Nat
      /\ \A g \in 1 .. l : SepOf(nd, L, x, g) = nd[x].keys[g] /\ nd[x].keys[g] \in Keys
      /\ \A g, h \in 0 .. l + 1 : g < h => SepOf(nd, L, x, g) < SepOf(nd, L, x, h)
  BY Order
<1> HIDE DEF l
<1>4. \A g \in 1 .. l : g \in 0 .. l + 1 /\ g \in Int
  BY ONLY <1>3
<1>5. \A g, h \in 1 .. l : g < h => nd[x].keys[g] < nd[x].keys[h]
  BY ONLY <1>3, <1>4
<1>6. \A g \in 1 .. l : nd[x].keys[g] \in Int /\ nd[x].keys[g] \in Keys
  BY ONLY <1>3 DEF Keys
<1>7. \A g, h \in 1 .. l : nd[x].keys[g] = nd[x].keys[h] => g = h
  <2> SUFFICES ASSUME NEW g \in 1 .. l, NEW h \in 1 .. l, nd[x].keys[g] = nd[x].keys[h], g # h
               PROVE FALSE
    OBVIOUS
  <2>1. g < h \/ h < g
    BY <1>4
  <2> QED BY ONLY <1>5, <1>6, <2>1, nd[x].keys[g] = nd[x].keys[h], g \in 1 .. l, h \in 1 .. l
<1> QED BY <1>5, <1>6, <1>7 DEF l

\* A key of the tree between the bounds of a leaf is in that leaf.
LEMMA LeafHas ==
  ASSUME NEW nd, NEW r, NEW L, IsTree(nd, r, L), NEW x \in Bids, NEW k \in KeysOf(nd),
         nd[x] # None, L.h[x] = 0, Within(L, x, k)
  PROVE  Has(nd, x, k)
<1>1. PICK y \in Bids : Has(nd, y, k)
  BY DEF KeysOf
<1>2. x = y \/ L.h[y] < L.h[x]
  BY <1>1, KeyHome
<1>3. L.h[y] \in Nat
  BY <1>1, KeyBounds, TreeNode
<1> QED BY <1>1, <1>2, <1>3

\* The position of a value among the keys of a node.
LEMMA FindPos ==
  ASSUME NEW nd, NEW r, NEW L, IsTree(nd, r, L), NEW x \in Bids, nd[x] # None,
         NEW v \in Int, L.lo[x] <= v, v < L.hi[x]
  PROVE  \E j \in 0 .. Len(nd[x].keys) : SepOf(nd, L, x, j) <= v /\ v < SepOf(nd, L, x, j + 1)
<1> DEFINE l == Len(nd[x].keys)
           S == {j \in 0 .. l + 1 : v < SepOf(nd, L, x, j)}
<1>1. /\ l \in Nat /\ SepOf(nd, L, x, 0) = L.lo[x] /\ SepOf(nd, L, x, l + 1) = L.hi[x]
      /\ L.lo[x] \in Int /\ \A j \in 0 .. l + 1 : SepOf(nd, L, x, j) \in Int
  BY Order
<1> HIDE DEF l
<1>2. S \subseteq Nat /\ l + 1 \in S
  BY <1>1
<1>3. PICK n \in S : \A m \in S : n <= m
  <2> HIDE DEF S
  <2> QED BY <1>2, LeastNatural
<1>4. n \in 0 .. l + 1 /\ v < SepOf(nd, L, x, n)
  BY <1>3
<1>5. n # 0
  BY <1>1, <1>4
<1>6. n - 1 \in 0 .. l /\ n - 1 \in 0 .. l + 1 /\ ~ (n <= n - 1) /\ (n - 1) + 1 = n
  BY ONLY <1>1, <1>4, <1>5
<1>7. n - 1 \notin S
  <2> HIDE DEF S
  <2> QED BY ONLY <1>3, <1>6
<1>8. SepOf(nd, L, x, n - 1) <= v
  BY <1>1, <1>6, <1>7
<1>9. SepOf(nd, L, x, (n - 1) + 1) = SepOf(nd, L, x, n)
  BY <1>6
<1> QED BY <1>4, <1>6, <1>8, <1>9 DEF l

\* findKey() finds such a position.
LEMMA FindKeyIs ==
  ASSUME NEW k \in Int, NEW x \in Bids, node[x] \in Node
  PROVE  /\ findKey(k, x) \in 0 .. keynum(x) /\ keynum(x) \in Nat
         /\ \A i \in 1 .. findKey(k, x) : node[x].keys[i] < k
         /\ findKey(k, x) < keynum(x) => ~ (node[x].keys[findKey(k, x) + 1] < k)
<1> DEFINE l == keynum(x)
           S == {j \in 0 .. l : j < l => ~ (node[x].keys[j + 1] < k)}
<1>1. l \in Nat /\ \A j \in 1 .. l : node[x].keys[j] \in Int
  BY NodeFacts DEF keynum, Keys
<1> HIDE DEF l
<1>2. S \subseteq Nat /\ l \in S
  BY <1>1
<1>3. PICK n \in S : \A m \in S : n <= m
  <2> HIDE DEF S
  <2> QED BY <1>2, LeastNatural
<1>4. n \in 0 .. l /\ (n < l => ~ (node[x].keys[n + 1] < k))
  BY <1>3
<1>5. ASSUME NEW i \in 1 .. n PROVE node[x].keys[i] < k
  <2>1. i - 1 \in 0 .. l /\ i - 1 < l /\ ~ (n <= i - 1) /\ (i - 1) + 1 = i
    BY ONLY <1>1, <1>4
  <2>2. i - 1 \notin S
    <3> HIDE DEF S
    <3> QED BY ONLY <1>3, <2>1
  <2>3. node[x].keys[(i - 1) + 1] < k
    BY <2>1, <2>2
  <2> QED BY <2>1, <2>3
<1>6. \E j \in 0 .. keynum(x) :
        /\ \A i \in 1 .. j : node[x].keys[i] < k
        /\ j < keynum(x) => ~ (node[x].keys[j + 1] < k)
  BY <1>4, <1>5 DEF l
<1> QED BY <1>1, <1>6 DEF findKey, l

(***************************************************************************)
(* What is below a node.                                                   *)
(***************************************************************************)
Below(nd, L, x) ==
  IF nd[x] = None THEN {x}
  ELSE {y \in Bids : nd[y] # None /\ L.h[y] <= L.h[x] /\ L.lo[x] <= L.lo[y] /\ L.hi[y] <= L.hi[x]}

\* What is below a child is below its parent.
LEMMA BelowChild ==
  ASSUME NEW nd, NEW r, NEW L, IsTree(nd, r, L), NEW x \in Bids, nd[x] # None,
         NEW j \in 1 .. Len(nd[x].kids)
  PROVE  LET c == nd[x].kids[j] IN
         /\ c \in Bids /\ nd[c] # None /\ L.h[x] = L.h[c] + 1 /\ L.h[c] \in Nat /\ L.h[x] \in Nat
         /\ L.lo[x] <= L.lo[c] /\ L.hi[c] <= L.hi[x] /\ Below(nd, L, c) \subseteq Below(nd, L, x)
         /\ L.lo[c] = SepOf(nd, L, x, j - 1) /\ L.hi[c] = SepOf(nd, L, x, j)
<1> DEFINE c == nd[x].kids[j]
<1>1. /\ c \in Bids /\ nd[c] # None /\ L.h[x] = L.h[c] + 1
      /\ L.lo[c] = SepOf(nd, L, x, j - 1) /\ L.hi[c] = SepOf(nd, L, x, j)
      /\ Len(nd[x].kids) = Len(nd[x].keys) + 1
  BY TreeChild
<1> HIDE DEF c
<1>2. /\ Len(nd[x].keys) \in Nat
      /\ \A g \in 0 .. Len(nd[x].keys) + 1 :
           /\ SepOf(nd, L, x, g) \in Int /\ L.lo[x] <= SepOf(nd, L, x, g) /\ SepOf(nd, L, x, g) <= L.hi[x]
      /\ L.lo[x] \in Int /\ L.hi[x] \in Int
  BY Order
<1>3. j - 1 \in 0 .. Len(nd[x].keys) + 1 /\ j \in 0 .. Len(nd[x].keys) + 1
  BY <1>1, <1>2
<1>4. L.lo[x] <= L.lo[c] /\ L.hi[c] <= L.hi[x] /\ L.lo[c] \in Int /\ L.hi[c] \in Int
  BY ONLY <1>1, <1>2, <1>3
<1>5. L.h[c] \in Nat
  BY <1>1, TreeNode
<1>6. ASSUME NEW y \in Below(nd, L, c) PROVE y \in Below(nd, L, x)
  <2>1. y \in Bids /\ nd[y] # None /\ L.h[y] <= L.h[c] /\ L.lo[c] <= L.lo[y] /\ L.hi[y] <= L.hi[c]
    BY <1>1 DEF Below
  <2>2. L.h[y] \in Nat /\ L.lo[y] \in Int /\ L.hi[y] \in Int
    BY <2>1, TreeNode
  <2>3. L.h[y] <= L.h[x] /\ L.lo[x] <= L.lo[y] /\ L.hi[y] <= L.hi[x]
    <3>1. L.h[y] <= L.h[x]
      BY ONLY <1>1, <1>5, <2>1, <2>2
    <3>2. L.lo[x] \in Int /\ L.hi[x] \in Int
      BY ONLY <1>2
    <3>3. L.lo[x] <= L.lo[y]
      BY ONLY <1>4, <2>1, <2>2, <3>2
    <3>4. L.hi[y] <= L.hi[x]
      BY ONLY <1>4, <2>1, <2>2, <3>2
    <3> QED BY ONLY <3>1, <3>3, <3>4
  <2> QED BY <2>1, <2>3 DEF Below
<1> QED BY <1>1, <1>4, <1>5, <1>6 DEF c

\* Below a node are the node and what is below its children.
LEMMA BelowIs ==
  ASSUME NEW nd, NEW r, NEW L, IsTree(nd, r, L), NEW x \in Bids, nd[x] # None
  PROVE  Below(nd, L, x) = {x} \cup UNION {Below(nd, L, c) : c \in Range(nd[x].kids)}
<1>0. /\ nd[x].kids \in Seq(Bids) /\ DOMAIN nd[x].kids = 1 .. Len(nd[x].kids) /\ L.h[x] \in Nat
      /\ Len(nd[x].kids) \in Nat /\ IsShaped(nd, L, x)
  BY TreeNode
<1>1. \A c : c \in Range(nd[x].kids) <=> \E j \in 1 .. Len(nd[x].kids) : nd[x].kids[j] = c
  BY <1>0 DEF Range
<1>2. ASSUME NEW y \in Below(nd, L, x), y # x
      PROVE  \E j \in 1 .. Len(nd[x].kids) : y \in Below(nd, L, nd[x].kids[j])
  <2>1. y \in Bids /\ nd[y] # None /\ L.h[y] <= L.h[x] /\ L.lo[x] <= L.lo[y] /\ L.hi[y] <= L.hi[x]
    BY DEF Below
  <2>2. L.h[y] \in Nat /\ L.lo[y] \in Int /\ L.hi[y] \in Int /\ L.lo[y] < L.hi[y]
    BY <2>1, TreeNode, Order
  <2>3. /\ Len(nd[x].keys) \in Nat /\ SepOf(nd, L, x, 0) = L.lo[x]
        /\ SepOf(nd, L, x, Len(nd[x].keys) + 1) = L.hi[x]
        /\ \A j \in 1 .. Len(nd[x].keys) : SepOf(nd, L, x, j) = nd[x].keys[j]
        /\ \A j \in 0 .. Len(nd[x].keys) + 1 : SepOf(nd, L, x, j) \in Int
        /\ L.lo[x] \in Int /\ L.hi[x] \in Int /\ L.lo[x] < L.hi[x]
    BY Order
  <2>4. L.h[y] < L.h[x]
    <3>1. L.h[y] = L.h[x] => L.hi[x] <= L.lo[y] \/ L.hi[y] <= L.lo[x]
      BY <1>2, <2>1, Apart
    <3> QED BY ONLY <1>0, <2>1, <2>2, <2>3, <3>1
  <2>5. \A j \in 1 .. Len(nd[x].keys) : ~ (L.lo[y] < nd[x].keys[j] /\ nd[x].keys[j] < L.hi[y])
    BY <2>1, <2>4, NoneBetween
  <2>6. L.lo[y] < L.hi[x]
    BY ONLY <2>1, <2>2, <2>3
  <2>7. PICK g \in 0 .. Len(nd[x].keys) :
          SepOf(nd, L, x, g) <= L.lo[y] /\ L.lo[y] < SepOf(nd, L, x, g + 1)
    BY <2>1, <2>2, <2>6, FindPos
  <2>8. g + 1 \in 1 .. Len(nd[x].kids) /\ Len(nd[x].kids) = Len(nd[x].keys) + 1
    <3>1. L.h[x] # 0
      BY <1>0, <2>2, <2>4
    <3> QED BY <1>0, <2>3, <3>1 DEF IsShaped
  <2>9. L.hi[y] <= SepOf(nd, L, x, g + 1)
    <3>1. CASE g = Len(nd[x].keys)
      BY <2>1, <2>3, <3>1
    <3>2. CASE g # Len(nd[x].keys)
      <4>1. g + 1 \in 1 .. Len(nd[x].keys) /\ g + 1 \in 0 .. Len(nd[x].keys) + 1
        BY ONLY <2>3, <3>2, g \in 0 .. Len(nd[x].keys)
      <4>2. ~ (SepOf(nd, L, x, g + 1) < L.hi[y]) /\ SepOf(nd, L, x, g + 1) \in Int
        BY ONLY <2>3, <2>5, <2>7, <4>1
      <4> QED BY ONLY <2>2, <4>2
    <3> QED BY <3>1, <3>2
  <2> DEFINE j == g + 1  c == nd[x].kids[j]
  <2>10. /\ c \in Bids /\ nd[c] # None /\ L.h[x] = L.h[c] + 1 /\ L.h[c] \in Nat
         /\ L.lo[c] = SepOf(nd, L, x, j - 1) /\ L.hi[c] = SepOf(nd, L, x, j)
    <3>1. j \in 1 .. Len(nd[x].kids)
      BY <2>8
    <3> HIDE DEF j
    <3> QED BY <3>1, BelowChild
  <2>11. j - 1 = g
    OBVIOUS
  <2>12. L.h[y] <= L.h[c] /\ L.lo[c] <= L.lo[y] /\ L.hi[y] <= L.hi[c]
    <3> HIDE DEF c
    <3> QED BY <2>2, <2>4, <2>7, <2>9, <2>10, <2>11
  <2>13. y \in Below(nd, L, c)
    <3> HIDE DEF c
    <3> QED BY <2>1, <2>10, <2>12 DEF Below
  <2> QED BY <2>8, <2>13
<1>3. x \in Below(nd, L, x)
  <2>1. L.h[x] \in Nat /\ L.lo[x] \in Int /\ L.hi[x] \in Int
    BY TreeNode
  <2> QED BY <2>1 DEF Below
<1>4. ASSUME NEW j \in 1 .. Len(nd[x].kids)
      PROVE  Below(nd, L, nd[x].kids[j]) \subseteq Below(nd, L, x)
  BY BelowChild
<1>5. Below(nd, L, x) \subseteq {x} \cup UNION {Below(nd, L, c) : c \in Range(nd[x].kids)}
  BY <1>1, <1>2
<1>6. UNION {Below(nd, L, c) : c \in Range(nd[x].kids)} \subseteq Below(nd, L, x)
  BY <1>1, <1>4
<1> QED BY <1>3, <1>5, <1>6

\* A function of the nodes that is given by its values for the children has
\* at most one value: by the height of the node.
LEMMA BelowOnly ==
  ASSUME NEW nd, NEW r, NEW L, IsTree(nd, r, L), NEW f,
         \A x \in Bids : f[x] = {x} \cup UNION {f[c] : c \in IF nd[x] = None THEN {} ELSE Range(nd[x].kids)}
  PROVE  \A x \in Bids : f[x] = Below(nd, L, x)
<1> DEFINE Bad(x) == nd[x] # None /\ f[x] # Below(nd, L, x)
           S == {L.h[x] : x \in {z \in Bids : Bad(z)}}
<1>1. ASSUME NEW a \in Bids, Bad(a) PROVE FALSE
  <2>1. \A x \in Bids : nd[x] # None => L.h[x] \in Nat
    BY TreeNode
  <2>2. S \subseteq Nat /\ S # {}
    BY <1>1, <2>1
  <2>3. PICK n \in S : \A m \in S : n <= m
    <3> HIDE DEF S
    <3> QED BY <2>2, LeastNatural
  <2>4. PICK x \in Bids : Bad(x) /\ n = L.h[x]
    BY <2>3
  <2>5. nd[x] # None /\ f[x] # Below(nd, L, x) /\ \A z \in Bids : Bad(z) => L.h[x] <= L.h[z]
    BY <2>3, <2>4
  <2> HIDE DEF Bad, S
  <2>6. ASSUME NEW c \in Range(nd[x].kids) PROVE f[c] = Below(nd, L, c)
    <3>1. DOMAIN nd[x].kids = 1 .. Len(nd[x].kids)
      BY <2>5, TreeNode
    <3>2. PICK j \in 1 .. Len(nd[x].kids) : nd[x].kids[j] = c
      BY <3>1 DEF Range
    <3>3. c \in Bids /\ nd[c] # None /\ L.h[x] = L.h[c] + 1 /\ L.h[c] \in Nat
      BY <2>5, <3>2, BelowChild
    <3>4. ~ (L.h[x] <= L.h[c])
      BY <3>3
    <3> QED BY <2>5, <3>3, <3>4 DEF Bad
  <2>7. f[x] = {x} \cup UNION {f[c] : c \in Range(nd[x].kids)}
    BY <2>5
  <2>8. Below(nd, L, x) = {x} \cup UNION {Below(nd, L, c) : c \in Range(nd[x].kids)}
    BY <2>5, BelowIs
  <2>9. UNION {f[c] : c \in Range(nd[x].kids)} = UNION {Below(nd, L, c) : c \in Range(nd[x].kids)}
    BY <2>6
  <2> QED BY <2>5, <2>7, <2>8, <2>9
<1>2. \A x \in Bids : nd[x] = None => f[x] = Below(nd, L, x)
  BY DEF Below
<1> QED BY <1>1, <1>2

\* The nodes have the children they have in the tree nd.
Alike(nd) ==
  \A x \in Bids : /\ node[x] = None <=> nd[x] = None
                  /\ node[x] # None => node[x].kids = nd[x].kids

\* nodesUnder finds what is below a node.
LEMMA NodesUnderIs ==
  ASSUME NEW nd, NEW r, NEW L, IsTree(nd, r, L), Alike(nd)
  PROVE  \A x \in Bids : nodesUnder[x] = Below(nd, L, x)
<1> DEFINE P(g) == g = [x \in Bids |-> {x} \cup UNION {g[c] : c \in Kids(x)}]
           w == [x \in Bids |-> Below(nd, L, x)]
<1>1. \A x \in Bids : Kids(x) = IF nd[x] = None THEN {} ELSE Range(nd[x].kids)
  BY DEF Alike, Kids
<1>2. \A x \in Bids : Kids(x) \subseteq Bids
  <2> SUFFICES ASSUME NEW x \in Bids, nd[x] # None PROVE Range(nd[x].kids) \subseteq Bids
    BY <1>1
  <2>1. nd[x].kids \in Seq(Bids)
    BY TreeNode
  <2> QED BY <2>1, ElementOfSeq, LenProperties DEF Range
<1>3. P(w)
  <2>1. ASSUME NEW x \in Bids PROVE w[x] = {x} \cup UNION {w[c] : c \in Kids(x)}
    <3>1. UNION {w[c] : c \in Kids(x)} = UNION {Below(nd, L, c) : c \in Kids(x)}
      BY <1>2
    <3>2. CASE nd[x] = None
      BY <1>1, <3>2 DEF Below
    <3>3. CASE nd[x] # None
      BY <1>1, <3>1, <3>3, BelowIs
    <3> QED BY <3>2, <3>3
  <2>2. w = [x \in Bids |-> w[x]]
    OBVIOUS
  <2> HIDE DEF w
  <2> QED BY <2>1, <2>2
<1>4. P(nodesUnder)
  <2> HIDE DEF w
  <2>1. \E g : P(g)
    BY <1>3
  <2>2. nodesUnder = CHOOSE g : P(g)
    BY DEF nodesUnder
  <2> HIDE DEF P
  <2> QED BY <2>1, <2>2
<1>5. \A x \in Bids : nodesUnder[x] =
        {x} \cup UNION {nodesUnder[c] : c \in IF nd[x] = None THEN {} ELSE Range(nd[x].kids)}
  BY <1>1, <1>4
<1> QED BY <1>5, BelowOnly

\* Every node is below the root.
LEMMA RootBelow ==
  ASSUME NEW nd, NEW r, NEW L, IsTree(nd, r, L), NEW x \in Bids, nd[x] # None
  PROVE  r \in Bids /\ nd[r] # None /\ Below(nd, L, r) = {y \in Bids : nd[y] # None}
<1>1. r \in Bids /\ nd[r] # None /\ L.lo[r] = 0 /\ L.hi[r] = MaxKey + 1
  BY TreeNode
<1>2. ASSUME NEW y \in Bids, nd[y] # None
      PROVE  L.h[y] <= L.h[r] /\ L.lo[r] <= L.lo[y] /\ L.hi[y] <= L.hi[r]
  <2>1. 0 <= L.lo[y] /\ L.hi[y] <= MaxKey + 1
    BY <1>2, Order
  <2>2. L.h[y] \in Nat
    BY <1>2, TreeNode
  <2>3. L.h[y] <= L.h[r]
    <3>1. CASE y = r
      BY <2>2, <3>1
    <3>2. CASE y # r
      BY <1>2, <3>2, RootIsHighest
    <3> QED BY <3>1, <3>2
  <2> QED BY <1>1, <2>1, <2>3
<1> QED BY <1>1, <1>2 DEF Below

\* The nodes of the tree are those that are present, and its keys theirs.
LEMMA ReachableIs ==
  ASSUME NEW nd, NEW L, IsTree(nd, brootKey, L), Alike(nd), brootKey \in Bids \cup {0}
  PROVE  Reachable = {x \in Bids : node[x] # None}
<1>0. \A x \in Bids : node[x] = None <=> nd[x] = None
  BY DEF Alike
<1>1. CASE \A x \in Bids : nd[x] = None
  BY <1>0, <1>1 DEF Reachable
<1>2. CASE \E x \in Bids : nd[x] # None
  <2>1. PICK x \in Bids : nd[x] # None
    BY <1>2
  <2>2. brootKey \in Bids /\ nd[brootKey] # None
        /\ Below(nd, L, brootKey) = {y \in Bids : nd[y] # None}
    BY <2>1, RootBelow
  <2>3. brootKey # 0 /\ node[brootKey] # None
    BY <1>0, <2>2 DEF Bids
  <2>4. nodesUnder[brootKey] = Below(nd, L, brootKey)
    BY <2>2, NodesUnderIs
  <2> QED BY <1>0, <2>2, <2>3, <2>4 DEF Reachable
<1> QED BY <1>1, <1>2

\* KeysIn finds the keys of a node.
LEMMA KeysInAre ==
  ASSUME NEW x \in Bids, node[x] # None => node[x] \in Node
  PROVE  \A k : k \in KeysIn(x) <=> k \in Keys /\ Has(node, x, k)
<1>1. CASE node[x] = None
  BY <1>1 DEF KeysIn, Has
<1>2. CASE node[x] # None
  <2>1. DOMAIN node[x].keys = 1 .. Len(node[x].keys)
        /\ \A j \in 1 .. Len(node[x].keys) : node[x].keys[j] \in Keys
    BY <1>2, NodeFacts
  <2> QED BY <1>2, <2>1 DEF KeysIn, Has, Range
<1> QED BY <1>1, <1>2

\* When every node is reachable, keyset is the keys of all.
LEMMA KeysetIs ==
  ASSUME Reachable = {x \in Bids : node[x] # None},
         \A x \in Bids : node[x] # None => node[x] \in Node
  PROVE  keyset = KeysOf(node)
<1>1. ASSUME NEW k PROVE k \in keyset <=> k \in KeysOf(node)
  <2>1. k \in keyset <=> \E x \in Bids : node[x] # None /\ k \in KeysIn(x)
    BY DEF keyset
  <2>2. \A x \in Bids : k \in KeysIn(x) <=> k \in Keys /\ Has(node, x, k)
    BY KeysInAre
  <2> QED BY <2>1, <2>2 DEF KeysOf, Has
<1> QED BY <1>1

\* The nodes without children are those of height 0, and isleaf() says which they
\* are.
LEMMA EndIs ==
  ASSUME NEW nd, NEW r, NEW L, IsTree(nd, r, L), Alike(nd), NEW x \in Bids, nd[x] # None
  PROVE  /\ IsEnd(x) <=> L.h[x] = 0
         /\ isleaf(x) <=> L.h[x] = 0
         /\ node[x].kids = <<>> <=> L.h[x] = 0
         /\ L.h[x] # 0 => /\ Len(nd[x].kids) = Len(nd[x].keys) + 1
                          /\ 1 \in 1 .. Len(nd[x].kids) /\ Head(nd[x].kids) = nd[x].kids[1]
                          /\ Len(nd[x].kids) \in 1 .. Len(nd[x].kids)
                          /\ Last(nd[x].kids) = nd[x].kids[Len(nd[x].kids)]
<1>1. /\ nd[x].kids \in Seq(Bids) /\ Len(nd[x].kids) \in Nat /\ Len(nd[x].keys) \in Nat
      /\ IsShaped(nd, L, x)
  BY TreeNode
<1>2. Len(nd[x].kids) = IF L.h[x] = 0 THEN 0 ELSE Len(nd[x].keys) + 1
  BY <1>1 DEF IsShaped
<1>3. nd[x].kids = <<>> <=> L.h[x] = 0
  BY <1>1, <1>2, EmptySeq
<1>4. node[x] # None /\ node[x].kids = nd[x].kids
  BY DEF Alike
<1>5. Last(nd[x].kids) = nd[x].kids[Len(nd[x].kids)]
  BY DEF Last
<1>6. L.h[x] # 0 => Head(nd[x].kids) = nd[x].kids[1]
  BY <1>1, <1>2, EndsOf
<1> QED BY <1>1, <1>2, <1>3, <1>4, <1>5, <1>6 DEF IsEnd, isleaf

\* height finds the heights of the labels.
LEMMA HeightIs ==
  ASSUME NEW nd, NEW r, NEW L, IsTree(nd, r, L), Alike(nd)
  PROVE  \A x \in Bids : node[x] # None => height[x] = L.h[x]
<1> DEFINE P(g) == g = [x \in Bids |-> IF IsEnd(x) THEN 0 ELSE 1 + g[Head(node[x].kids)]]
           w == [x \in Bids |-> IF nd[x] = None THEN 0 ELSE L.h[x]]
<1>1. \A x \in Bids : nd[x] = None => IsEnd(x)
  BY DEF Alike, IsEnd
<1>2. ASSUME NEW x \in Bids, nd[x] # None, ~ IsEnd(x)
      PROVE  LET c == Head(node[x].kids) IN
             c \in Bids /\ nd[c] # None /\ L.h[x] = 1 + L.h[c] /\ L.h[c] \in Nat
  <2>1. node[x].kids = nd[x].kids
    BY <1>2 DEF Alike
  <2>2. 1 \in 1 .. Len(nd[x].kids) /\ Head(nd[x].kids) = nd[x].kids[1]
    BY <1>2, EndIs
  <2>3. /\ nd[x].kids[1] \in Bids /\ nd[nd[x].kids[1]] # None
        /\ L.h[x] = L.h[nd[x].kids[1]] + 1 /\ L.h[nd[x].kids[1]] \in Nat
    BY <1>2, <2>2, BelowChild
  <2> QED BY <2>1, <2>2, <2>3
<1>3. P(w)
  <2>1. ASSUME NEW x \in Bids PROVE w[x] = IF IsEnd(x) THEN 0 ELSE 1 + w[Head(node[x].kids)]
    <3>1. CASE nd[x] = None
      BY <1>1, <3>1
    <3>2. CASE nd[x] # None /\ IsEnd(x)
      BY <3>2, EndIs
    <3>3. CASE nd[x] # None /\ ~ IsEnd(x)
      BY <1>2, <3>3
    <3> QED BY <3>1, <3>2, <3>3
  <2>2. w = [x \in Bids |-> w[x]]
    OBVIOUS
  <2> HIDE DEF w
  <2> QED BY <2>1, <2>2
<1>4. P(height)
  <2> HIDE DEF w
  <2>1. \E g : P(g)
    BY <1>3
  <2>2. height = CHOOSE g : P(g)
    BY DEF height
  <2> HIDE DEF P
  <2> QED BY <2>1, <2>2
<1>5. \A x \in Bids : height[x] = IF IsEnd(x) THEN 0 ELSE 1 + height[Head(node[x].kids)]
  BY <1>4
<1> DEFINE Bad(x) == nd[x] # None /\ height[x] # L.h[x]
           S == {L.h[x] : x \in {z \in Bids : Bad(z)}}
<1> HIDE DEF P, w
<1>6. ASSUME NEW a \in Bids, Bad(a) PROVE FALSE
  <2>1. \A x \in Bids : nd[x] # None => L.h[x] \in Nat
    BY TreeNode
  <2>2. S \subseteq Nat /\ S # {}
    BY <1>6, <2>1
  <2>3. PICK n \in S : \A m \in S : n <= m
    <3> HIDE DEF S
    <3> QED BY <2>2, LeastNatural
  <2>4. PICK x \in Bids : Bad(x) /\ n = L.h[x]
    BY <2>3
  <2>5. nd[x] # None /\ height[x] # L.h[x] /\ \A z \in Bids : Bad(z) => L.h[x] <= L.h[z]
    BY <2>3, <2>4
  <2>6. CASE IsEnd(x)
    <3>1. L.h[x] = 0
      BY <2>5, <2>6, EndIs
    <3>2. height[x] = 0
      BY <1>5, <2>6
    <3> QED BY <2>5, <3>1, <3>2
  <2>7. CASE ~ IsEnd(x)
    <3> DEFINE c == Head(node[x].kids)
    <3>1. c \in Bids /\ nd[c] # None /\ L.h[x] = 1 + L.h[c] /\ L.h[c] \in Nat
      BY <1>2, <2>5, <2>7
    <3>2. height[x] = 1 + height[c]
      BY <1>5, <2>7
    <3> HIDE DEF c, S
    <3>3. ~ (L.h[x] <= L.h[c])
      BY <3>1
    <3>4. height[c] = L.h[c]
      BY <2>5, <3>1, <3>3
    <3> QED BY <2>5, <3>1, <3>2, <3>4
  <2> QED BY <2>6, <2>7
<1> QED BY <1>6 DEF Alike

(***************************************************************************)
(* The last and the first key below a node.                                *)
(***************************************************************************)
LastLeaf(nd, L, x, y) ==
  y \in Bids /\ nd[y] # None /\ L.h[y] = 0 /\ L.hi[y] = L.hi[x] /\ L.lo[x] <= L.lo[y]
FirstLeaf(nd, L, x, y) ==
  y \in Bids /\ nd[y] # None /\ L.h[y] = 0 /\ L.lo[y] = L.lo[x] /\ L.hi[y] <= L.hi[x]

\* lastKey finds the last key of the last leaf below a node.
LEMMA LastKeyIs ==
  ASSUME NEW r, NEW L, IsTree(node, r, L)
  PROVE  \A x \in Bids : node[x] # None =>
           \E y \in Bids : LastLeaf(node, L, x, y) /\ lastKey[x] = Last(node[y].keys)
<1> DEFINE P(g) == g = [x \in Bids |-> IF IsEnd(x) THEN Last(node[x].keys) ELSE g[Last(node[x].kids)]]
           Leaf(x, y) == node[y] # None /\ L.h[y] = 0 /\ L.hi[y] = L.hi[x]
           w == [x \in Bids |-> IF IsEnd(x) THEN Last(node[x].keys)
                                ELSE Last(node[CHOOSE y \in Bids : Leaf(x, y)].keys)]
<1>1. \A x \in Bids : node[x] = None => IsEnd(x)
  BY DEF IsEnd
<1>10. Alike(node)
  BY DEF Alike
<1>11. \A x \in Bids : node[x] # None => (IsEnd(x) <=> L.h[x] = 0)
  BY <1>10, EndIs
<1>2. ASSUME NEW x \in Bids, node[x] # None, ~ IsEnd(x)
      PROVE  LET c == Last(node[x].kids) IN
             /\ c \in Bids /\ node[c] # None /\ L.h[x] = 1 + L.h[c] /\ L.h[c] \in Nat
             /\ L.hi[c] = L.hi[x] /\ L.lo[x] <= L.lo[c]
  <2>1. /\ Len(node[x].kids) \in 1 .. Len(node[x].kids) /\ Last(node[x].kids) = node[x].kids[Len(node[x].kids)]
        /\ Len(node[x].kids) = Len(node[x].keys) + 1
    BY <1>10, <1>2, EndIs
  <2> DEFINE j == Len(node[x].kids)
  <2>2. /\ node[x].kids[j] \in Bids /\ node[node[x].kids[j]] # None
        /\ L.h[x] = L.h[node[x].kids[j]] + 1 /\ L.h[node[x].kids[j]] \in Nat
        /\ L.lo[x] <= L.lo[node[x].kids[j]] /\ L.hi[node[x].kids[j]] = SepOf(node, L, x, j)
    <3>1. j \in 1 .. Len(node[x].kids)
      BY <2>1
    <3> HIDE DEF j
    <3> QED BY <1>2, <3>1, BelowChild
  <2>3. SepOf(node, L, x, j) = L.hi[x]
    BY <1>2, <2>1, Order
  <2> QED BY <2>1, <2>2, <2>3
<1>3. \A x, y, z \in Bids : Leaf(x, y) /\ Leaf(x, z) => y = z
  <2> SUFFICES ASSUME NEW x \in Bids, NEW y \in Bids, NEW z \in Bids, Leaf(x, y), Leaf(x, z), y # z
               PROVE  FALSE
    OBVIOUS
  <2>1. L.hi[y] <= L.lo[z] \/ L.hi[z] <= L.lo[y]
    BY Apart
  <2>2. L.lo[y] < L.hi[y] /\ L.lo[z] < L.hi[z] /\ L.lo[y] \in Int /\ L.hi[y] \in Int
        /\ L.lo[z] \in Int /\ L.hi[z] \in Int
    BY Order
  <2> QED BY <2>1, <2>2
<1>4. P(w)
  <2>1. ASSUME NEW x \in Bids
        PROVE  w[x] = IF IsEnd(x) THEN Last(node[x].keys) ELSE w[Last(node[x].kids)]
    <3>1. CASE IsEnd(x)
      BY <3>1
    <3>2. CASE ~ IsEnd(x)
      <4> DEFINE c == Last(node[x].kids)
      <4>1. /\ c \in Bids /\ node[c] # None /\ L.h[x] = 1 + L.h[c] /\ L.h[c] \in Nat
            /\ L.hi[c] = L.hi[x]
        BY <1>1, <1>2, <3>2
      <4> HIDE DEF c
      <4>2. w[x] = Last(node[CHOOSE y \in Bids : Leaf(x, y)].keys)
        BY <3>2
      <4>3. CASE IsEnd(c)
        <5>1. Leaf(x, c)
          BY <1>11, <4>1, <4>3
        <5>2. (CHOOSE y \in Bids : Leaf(x, y)) = c
          <6> HIDE DEF Leaf
          <6> QED BY <1>3, <4>1, <5>1
        <5>3. w[c] = Last(node[c].keys)
          BY <4>1, <4>3
        <5> QED BY <3>2, <4>2, <5>2, <5>3, SMTT(40) DEF c
      <4>4. CASE ~ IsEnd(c)
        <5>1. w[c] = Last(node[CHOOSE y \in Bids : Leaf(c, y)].keys)
          BY <4>1, <4>4
        <5>2. \A y : Leaf(c, y) <=> Leaf(x, y)
          BY <4>1
        <5>3. (CHOOSE y \in Bids : Leaf(c, y)) = (CHOOSE y \in Bids : Leaf(x, y))
          BY <4>1
        <5> QED BY <3>2, <4>2, <5>1, <5>3 DEF c
      <4> QED BY <4>3, <4>4
    <3> QED BY <3>1, <3>2
  <2>2. w = [x \in Bids |-> w[x]]
    OBVIOUS
  <2> HIDE DEF w
  <2> QED BY <2>1, <2>2
<1>5. P(lastKey)
  <2> HIDE DEF w
  <2>1. \E g : P(g)
    BY <1>4
  <2>2. lastKey = CHOOSE g : P(g)
    BY DEF lastKey
  <2> HIDE DEF P
  <2> QED BY <2>1, <2>2
<1>6. \A x \in Bids : lastKey[x] = IF IsEnd(x) THEN Last(node[x].keys) ELSE lastKey[Last(node[x].kids)]
  BY <1>5
<1> HIDE DEF P, w, Leaf
<1> DEFINE Good(x) == \E y \in Bids : LastLeaf(node, L, x, y) /\ lastKey[x] = Last(node[y].keys)
           Bad(x) == node[x] # None /\ ~ Good(x)
           S == {L.h[x] : x \in {z \in Bids : Bad(z)}}
<1>7. ASSUME NEW a \in Bids, Bad(a) PROVE FALSE
  <2>1. \A x \in Bids : node[x] # None => L.h[x] \in Nat /\ L.lo[x] \in Int /\ L.hi[x] \in Int
    BY TreeNode
  <2>2. S \subseteq Nat /\ S # {}
    BY <1>7, <2>1
  <2>3. PICK n \in S : \A m \in S : n <= m
    <3> HIDE DEF S
    <3> QED BY <2>2, LeastNatural
  <2>4. PICK x \in Bids : Bad(x) /\ n = L.h[x]
    BY <2>3
  <2>5. node[x] # None /\ ~ Good(x) /\ \A z \in Bids : Bad(z) => L.h[x] <= L.h[z]
    BY <2>3, <2>4
  <2>6. CASE IsEnd(x)
    <3>1. L.h[x] = 0 /\ lastKey[x] = Last(node[x].keys)
      BY <1>6, <1>11, <2>5, <2>6
    <3>2. LastLeaf(node, L, x, x)
      BY <2>1, <2>5, <3>1 DEF LastLeaf
    <3> QED BY <2>5, <3>1, <3>2
  <2>7. CASE ~ IsEnd(x)
    <3> DEFINE c == Last(node[x].kids)
    <3>1. /\ c \in Bids /\ node[c] # None /\ L.h[x] = 1 + L.h[c] /\ L.h[c] \in Nat
          /\ L.hi[c] = L.hi[x] /\ L.lo[x] <= L.lo[c]
      BY <1>2, <2>5, <2>7
    <3>2. lastKey[x] = lastKey[c]
      BY <1>6, <2>7
    <3> HIDE DEF c, S
    <3>3. ~ (L.h[x] <= L.h[c])
      BY <3>1
    <3>4. Good(c)
      BY <2>5, <3>1, <3>3
    <3>5. PICK y \in Bids : LastLeaf(node, L, c, y) /\ lastKey[c] = Last(node[y].keys)
      BY <3>4
    <3>6. LastLeaf(node, L, x, y)
      <4>1. node[y] # None /\ L.h[y] = 0 /\ L.hi[y] = L.hi[c] /\ L.lo[c] <= L.lo[y]
        BY <3>5 DEF LastLeaf
      <4>2. L.lo[x] <= L.lo[y]
        <5>1. L.lo[x] \in Int /\ L.lo[c] \in Int /\ L.lo[y] \in Int
          BY <2>1, <2>5, <3>1, <4>1
        <5> QED BY ONLY <3>1, <4>1, <5>1
      <4> QED BY <3>1, <4>1, <4>2 DEF LastLeaf
    <3> QED BY <2>5, <3>2, <3>5, <3>6
  <2> QED BY <2>6, <2>7
<1> QED BY <1>7

\* firstKey finds the first key of the first leaf below a node.
LEMMA FirstKeyIs ==
  ASSUME NEW r, NEW L, IsTree(node, r, L)
  PROVE  \A x \in Bids : node[x] # None =>
           \E y \in Bids : FirstLeaf(node, L, x, y) /\ firstKey[x] = Head(node[y].keys)
<1> DEFINE P(g) == g = [x \in Bids |-> IF IsEnd(x) THEN Head(node[x].keys) ELSE g[Head(node[x].kids)]]
           Leaf(x, y) == node[y] # None /\ L.h[y] = 0 /\ L.lo[y] = L.lo[x]
           w == [x \in Bids |-> IF IsEnd(x) THEN Head(node[x].keys)
                                ELSE Head(node[CHOOSE y \in Bids : Leaf(x, y)].keys)]
<1>1. \A x \in Bids : node[x] = None => IsEnd(x)
  BY DEF IsEnd
<1>10. Alike(node)
  BY DEF Alike
<1>11. \A x \in Bids : node[x] # None => (IsEnd(x) <=> L.h[x] = 0)
  BY <1>10, EndIs
<1>2. ASSUME NEW x \in Bids, node[x] # None, ~ IsEnd(x)
      PROVE  LET c == Head(node[x].kids) IN
             /\ c \in Bids /\ node[c] # None /\ L.h[x] = 1 + L.h[c] /\ L.h[c] \in Nat
             /\ L.lo[c] = L.lo[x] /\ L.hi[c] <= L.hi[x]
  <2>1. 1 \in 1 .. Len(node[x].kids) /\ Head(node[x].kids) = node[x].kids[1]
    BY <1>10, <1>2, EndIs
  <2> DEFINE j == 1
  <2>2. /\ node[x].kids[j] \in Bids /\ node[node[x].kids[j]] # None
        /\ L.h[x] = L.h[node[x].kids[j]] + 1 /\ L.h[node[x].kids[j]] \in Nat
        /\ L.hi[node[x].kids[j]] <= L.hi[x] /\ L.lo[node[x].kids[j]] = SepOf(node, L, x, j - 1)
    <3>1. j \in 1 .. Len(node[x].kids)
      BY <2>1
    <3> HIDE DEF j
    <3> QED BY <1>2, <3>1, BelowChild
  <2>3. SepOf(node, L, x, j - 1) = L.lo[x]
    <3>1. j - 1 = 0
      OBVIOUS
    <3> QED BY <1>2, <3>1, Order
  <2> QED BY <2>1, <2>2, <2>3
<1>3. \A x, y, z \in Bids : Leaf(x, y) /\ Leaf(x, z) => y = z
  <2> SUFFICES ASSUME NEW x \in Bids, NEW y \in Bids, NEW z \in Bids, Leaf(x, y), Leaf(x, z), y # z
               PROVE  FALSE
    OBVIOUS
  <2>1. L.hi[y] <= L.lo[z] \/ L.hi[z] <= L.lo[y]
    BY Apart
  <2>2. L.lo[y] < L.hi[y] /\ L.lo[z] < L.hi[z] /\ L.lo[y] \in Int /\ L.hi[y] \in Int
        /\ L.lo[z] \in Int /\ L.hi[z] \in Int
    BY Order
  <2> QED BY <2>1, <2>2
<1>4. P(w)
  <2>1. ASSUME NEW x \in Bids
        PROVE  w[x] = IF IsEnd(x) THEN Head(node[x].keys) ELSE w[Head(node[x].kids)]
    <3>1. CASE IsEnd(x)
      BY <3>1, SMTT(40)
    <3>2. CASE ~ IsEnd(x)
      <4> DEFINE c == Head(node[x].kids)
      <4>1. /\ c \in Bids /\ node[c] # None /\ L.h[x] = 1 + L.h[c] /\ L.h[c] \in Nat
            /\ L.lo[c] = L.lo[x]
        BY <1>1, <1>2, <3>2
      <4> HIDE DEF c
      <4>2. w[x] = Head(node[CHOOSE y \in Bids : Leaf(x, y)].keys)
        BY <3>2
      <4>3. CASE IsEnd(c)
        <5>1. Leaf(x, c)
          BY <1>11, <4>1, <4>3
        <5>2. (CHOOSE y \in Bids : Leaf(x, y)) = c
          <6> HIDE DEF Leaf
          <6> QED BY <1>3, <4>1, <5>1
        <5>3. w[c] = Head(node[c].keys)
          BY <4>1, <4>3
        <5> QED BY <3>2, <4>2, <5>2, <5>3, Zenon DEF c
      <4>4. CASE ~ IsEnd(c)
        <5>1. w[c] = Head(node[CHOOSE y \in Bids : Leaf(c, y)].keys)
          BY <4>1, <4>4
        <5>2. \A y : Leaf(c, y) <=> Leaf(x, y)
          BY <4>1
        <5>3. (CHOOSE y \in Bids : Leaf(c, y)) = (CHOOSE y \in Bids : Leaf(x, y))
          BY <4>1
        <5> QED BY <3>2, <4>2, <5>1, <5>3, Zenon DEF c
      <4> QED BY <4>3, <4>4
    <3> QED BY <3>1, <3>2
  <2>2. w = [x \in Bids |-> w[x]]
    OBVIOUS
  <2> HIDE DEF w
  <2> QED BY <2>1, <2>2, SMTT(40)
<1>5. P(firstKey)
  <2> HIDE DEF w
  <2>1. \E g : P(g)
    BY <1>4
  <2>2. firstKey = CHOOSE g : P(g)
    BY DEF firstKey
  <2> HIDE DEF P
  <2> QED BY <2>1, <2>2
<1>6. \A x \in Bids : firstKey[x] = IF IsEnd(x) THEN Head(node[x].keys) ELSE firstKey[Head(node[x].kids)]
  BY <1>5
<1> HIDE DEF P, w, Leaf
<1> DEFINE Good(x) == \E y \in Bids : FirstLeaf(node, L, x, y) /\ firstKey[x] = Head(node[y].keys)
           Bad(x) == node[x] # None /\ ~ Good(x)
           S == {L.h[x] : x \in {z \in Bids : Bad(z)}}
<1>7. ASSUME NEW a \in Bids, Bad(a) PROVE FALSE
  <2>1. \A x \in Bids : node[x] # None => L.h[x] \in Nat /\ L.lo[x] \in Int /\ L.hi[x] \in Int
    BY TreeNode
  <2>2. S \subseteq Nat /\ S # {}
    BY <1>7, <2>1
  <2>3. PICK n \in S : \A m \in S : n <= m
    <3> HIDE DEF S
    <3> QED BY <2>2, LeastNatural
  <2>4. PICK x \in Bids : Bad(x) /\ n = L.h[x]
    BY <2>3
  <2>5. node[x] # None /\ ~ Good(x) /\ \A z \in Bids : Bad(z) => L.h[x] <= L.h[z]
    BY <2>3, <2>4
  <2>6. CASE IsEnd(x)
    <3>1. L.h[x] = 0 /\ firstKey[x] = Head(node[x].keys)
      BY <1>6, <1>11, <2>5, <2>6
    <3>2. FirstLeaf(node, L, x, x)
      BY <2>1, <2>5, <3>1 DEF FirstLeaf
    <3> QED BY <2>5, <3>1, <3>2
  <2>7. CASE ~ IsEnd(x)
    <3> DEFINE c == Head(node[x].kids)
    <3>1. /\ c \in Bids /\ node[c] # None /\ L.h[x] = 1 + L.h[c] /\ L.h[c] \in Nat
          /\ L.lo[c] = L.lo[x] /\ L.hi[c] <= L.hi[x]
      BY <1>2, <2>5, <2>7
    <3>2. firstKey[x] = firstKey[c]
      BY <1>6, <2>7
    <3> HIDE DEF c, S
    <3>3. ~ (L.h[x] <= L.h[c])
      BY <3>1
    <3>4. Good(c)
      BY <2>5, <3>1, <3>3
    <3>5. PICK y \in Bids : FirstLeaf(node, L, c, y) /\ firstKey[c] = Head(node[y].keys)
      BY <3>4
    <3>6. FirstLeaf(node, L, x, y)
      <4>1. node[y] # None /\ L.h[y] = 0 /\ L.lo[y] = L.lo[c] /\ L.hi[y] <= L.hi[c]
        BY <3>5 DEF FirstLeaf
      <4>2. L.hi[y] <= L.hi[x]
        <5>1. L.hi[x] \in Int /\ L.hi[c] \in Int /\ L.hi[y] \in Int
          BY <2>1, <2>5, <3>1, <4>1
        <5> QED BY ONLY <3>1, <4>1, <5>1
      <4> QED BY <3>1, <4>1, <4>2 DEF FirstLeaf
    <3> QED BY <2>5, <3>2, <3>5, <3>6
  <2> QED BY <2>6, <2>7
<1> QED BY <1>7

\* A leaf has a key.
LeavesHaveKeys(nd) ==
  \A x \in Bids : nd[x] # None /\ nd[x].kids = <<>> => nd[x].keys # <<>>

\* The first and the last key of a leaf.
LEMMA LeafKeys ==
  ASSUME NEW nd, NEW r, NEW L, IsTree(nd, r, L), LeavesHaveKeys(nd), NEW x \in Bids,
         nd[x] # None, L.h[x] = 0
  PROVE  /\ Len(nd[x].keys) \in 1 .. Len(nd[x].keys) /\ 1 \in 1 .. Len(nd[x].keys)
         /\ Last(nd[x].keys) = nd[x].keys[Len(nd[x].keys)] /\ Head(nd[x].keys) = nd[x].keys[1]
<1>1. /\ nd[x].keys \in Seq(Keys) /\ Len(nd[x].keys) \in Nat
      /\ nd[x].kids \in Seq(Bids) /\ IsShaped(nd, L, x)
  BY TreeNode
<1>2. Len(nd[x].kids) = 0
  BY <1>1 DEF IsShaped
<1>3. nd[x].kids = <<>>
  BY <1>1, <1>2, EmptySeq
<1>4. nd[x].keys # <<>>
  BY <1>3 DEF LeavesHaveKeys
<1>5. Len(nd[x].keys) # 0
  BY <1>1, <1>4, EmptySeq
<1> QED BY <1>1, <1>5, EndsOf

\* There is a key between the bounds of every node.
LEMMA KeyBelow ==
  ASSUME NEW nd, NEW r, NEW L, IsTree(nd, r, L), LeavesHaveKeys(nd), NEW x \in Bids, nd[x] # None
  PROVE  \E k \in KeysOf(nd) : Within(L, x, k) /\ k \in Int
<1> DEFINE S == {L.h[y] : y \in Below(nd, L, x)}
<1>1. \A y \in Bids : nd[y] # None => L.h[y] \in Nat /\ L.lo[y] \in Int /\ L.hi[y] \in Int
  BY TreeNode
<1>2. Below(nd, L, x) \subseteq {y \in Bids : nd[y] # None} /\ x \in Below(nd, L, x)
  BY <1>1 DEF Below
<1>3. S \subseteq Nat /\ S # {}
  BY <1>1, <1>2
<1>4. PICK n \in S : \A m \in S : n <= m
  <2> HIDE DEF S
  <2> QED BY <1>3, LeastNatural
<1>5. PICK y \in Below(nd, L, x) : n = L.h[y]
  BY <1>4
<1>6. y \in Bids /\ nd[y] # None /\ L.lo[x] <= L.lo[y] /\ L.hi[y] <= L.hi[x] /\ L.h[y] <= L.h[x]
  BY <1>2, <1>5 DEF Below
<1>7. L.h[y] = 0
  <2> SUFFICES ASSUME L.h[y] # 0 PROVE FALSE
    OBVIOUS
  <2>1. Len(nd[y].kids) = Len(nd[y].keys) + 1 /\ Len(nd[y].keys) \in Nat
    BY <1>6, TreeNode DEF IsShaped
  <2> DEFINE c == nd[y].kids[1]
  <2>2. c \in Bids /\ nd[c] # None /\ L.h[y] = L.h[c] + 1 /\ L.h[c] \in Nat
        /\ L.lo[y] <= L.lo[c] /\ L.hi[c] <= L.hi[y]
    <3>1. 1 \in 1 .. Len(nd[y].kids)
      BY <2>1
    <3> QED BY <1>6, <3>1, BelowChild
  <2> HIDE DEF c
  <2>3. L.h[c] <= L.h[x] /\ L.lo[x] <= L.lo[c] /\ L.hi[c] <= L.hi[x]
    <3>1. /\ L.h[x] \in Nat /\ L.lo[x] \in Int /\ L.hi[x] \in Int
          /\ L.h[y] \in Nat /\ L.lo[y] \in Int /\ L.hi[y] \in Int
          /\ L.h[c] \in Nat /\ L.lo[c] \in Int /\ L.hi[c] \in Int
      BY <1>1, <1>6, <2>2
    <3>2. L.h[c] <= L.h[x]
      BY ONLY <1>6, <2>2, <3>1
    <3>3. L.lo[x] <= L.lo[c]
      BY ONLY <1>6, <2>2, <3>1
    <3>4. L.hi[c] <= L.hi[x]
      BY ONLY <1>6, <2>2, <3>1
    <3> QED BY <3>2, <3>3, <3>4
  <2>4. c \in Below(nd, L, x)
    BY <2>2, <2>3 DEF Below
  <2>5. L.h[y] <= L.h[c]
    BY <1>4, <1>5, <2>4
  <2> QED BY <2>2, <2>5
<1> DEFINE k == nd[y].keys[1]
<1>8. Has(nd, y, k)
  <2>1. 1 \in 1 .. Len(nd[y].keys)
    BY <1>6, <1>7, LeafKeys
  <2> QED BY <1>6, <2>1 DEF Has
<1> HIDE DEF k
<1>9. Within(L, y, k) /\ k \in Int /\ k \in KeysOf(nd)
  BY <1>6, <1>8, KeyBounds
<1>10. Within(L, x, k)
  <2>1. /\ L.lo[x] \in Int /\ L.hi[x] \in Int /\ L.lo[y] \in Int /\ L.hi[y] \in Int
    BY <1>1, <1>6
  <2>2. L.lo[y] < k /\ k < L.hi[y]
    BY <1>9 DEF Within
  <2>3. L.lo[x] < k /\ k < L.hi[x]
    BY ONLY <1>6, <1>9, <2>1, <2>2
  <2> QED BY <2>3 DEF Within
<1> QED BY <1>9, <1>10

\* A key between, one way or the other.
Between(k, u, v) == (u < k /\ k < v) \/ (v < k /\ k < u)

\* Between a key of an inner node and one of a higher node there is a third.
LEMMA InnerGap ==
  ASSUME NEW nd, NEW r, NEW L, IsTree(nd, r, L), LeavesHaveKeys(nd),
         NEW x \in Bids, NEW y \in Bids, NEW u, NEW v,
         Has(nd, x, v), Has(nd, y, u), L.h[x] # 0, L.h[x] < L.h[y]
  PROVE  \E k \in KeysOf(nd) : Between(k, u, v)
<1>1. nd[x] # None /\ nd[y] # None /\ u \in Int /\ v \in Int
  BY KeyBounds
<1>2. PICK j \in 1 .. Len(nd[x].keys) : nd[x].keys[j] = v
  BY DEF Has
<1>3. /\ Len(nd[x].keys) \in Nat
      /\ \A g \in 1 .. Len(nd[x].keys) : SepOf(nd, L, x, g) = nd[x].keys[g]
      /\ \A g \in 0 .. Len(nd[x].keys) + 1 :
           /\ SepOf(nd, L, x, g) \in Int
           /\ L.lo[x] <= SepOf(nd, L, x, g) /\ SepOf(nd, L, x, g) <= L.hi[x]
      /\ L.lo[x] \in Int /\ L.hi[x] \in Int
  BY <1>1, Order
<1>4. u <= L.lo[x] \/ L.hi[x] <= u
  <2>1. \A g \in 1 .. Len(nd[y].keys) : ~ (L.lo[x] < nd[y].keys[g] /\ nd[y].keys[g] < L.hi[x])
    BY <1>1, NoneBetween
  <2>2. ~ (L.lo[x] < u /\ u < L.hi[x])
    BY <2>1 DEF Has
  <2> QED BY ONLY <1>1, <1>3, <2>2
<1>5. Len(nd[x].kids) = Len(nd[x].keys) + 1
  BY <1>1, TreeNode DEF IsShaped
<1>6. /\ j \in 1 .. Len(nd[x].kids) /\ j + 1 \in 1 .. Len(nd[x].kids) /\ (j + 1) - 1 = j
      /\ j - 1 \in 0 .. Len(nd[x].keys) + 1 /\ j + 1 \in 0 .. Len(nd[x].keys) + 1
  BY <1>3, <1>5
<1>7. SepOf(nd, L, x, j) = v
  BY <1>2, <1>3
<1>8. CASE L.hi[x] <= u
  <2> DEFINE g == j + 1  c == nd[x].kids[g]
  <2>1. c \in Bids /\ nd[c] # None /\ L.lo[c] = SepOf(nd, L, x, g - 1) /\ L.hi[c] = SepOf(nd, L, x, g)
    <3>1. g \in 1 .. Len(nd[x].kids)
      BY <1>6
    <3> HIDE DEF g
    <3> QED BY <1>1, <3>1, BelowChild
  <2>2. L.lo[c] = v /\ L.hi[c] <= L.hi[x] /\ L.hi[c] \in Int
    BY <1>3, <1>6, <1>7, <2>1
  <2>3. PICK k \in KeysOf(nd) : Within(L, c, k) /\ k \in Int
    <3> HIDE DEF c, g
    <3> QED BY <2>1, KeyBelow
  <2>4. v < k /\ k < L.hi[c]
    BY <2>2, <2>3 DEF Within
  <2> HIDE DEF c, g
  <2>5. v < k /\ k < u
    BY ONLY <1>1, <1>3, <1>8, <2>2, <2>3, <2>4
  <2> QED BY <2>5 DEF Between
<1>9. CASE u <= L.lo[x]
  <2> DEFINE c == nd[x].kids[j]
  <2>1. c \in Bids /\ nd[c] # None /\ L.lo[c] = SepOf(nd, L, x, j - 1) /\ L.hi[c] = SepOf(nd, L, x, j)
    BY <1>1, <1>6, BelowChild
  <2>2. L.hi[c] = v /\ L.lo[x] <= L.lo[c] /\ L.lo[c] \in Int
    BY <1>3, <1>6, <1>7, <2>1
  <2>3. PICK k \in KeysOf(nd) : Within(L, c, k) /\ k \in Int
    <3> HIDE DEF c
    <3> QED BY <2>1, KeyBelow
  <2>4. k < v /\ L.lo[c] < k
    BY <2>2, <2>3 DEF Within
  <2> HIDE DEF c
  <2>5. u < k /\ k < v
    BY ONLY <1>1, <1>3, <1>9, <2>2, <2>3, <2>4
  <2> QED BY <2>5 DEF Between
<1> QED BY <1>4, <1>8, <1>9

\* The predecessor and the successor of a key are next to it, in a leaf.
LEMMA LastKeyNear ==
  ASSUME NEW r, NEW L, IsTree(node, r, L), LeavesHaveKeys(node), NEW x \in Bids, node[x] # None
  PROVE  /\ lastKey[x] \in KeysOf(node) /\ lastKey[x] \in Int /\ Within(L, x, lastKey[x])
         /\ \A k \in KeysOf(node) : ~ (lastKey[x] < k /\ k < L.hi[x])
<1>1. PICK y \in Bids : LastLeaf(node, L, x, y) /\ lastKey[x] = Last(node[y].keys)
  BY LastKeyIs
<1>2. node[y] # None /\ L.h[y] = 0 /\ L.hi[y] = L.hi[x] /\ L.lo[x] <= L.lo[y]
  BY <1>1 DEF LastLeaf
<1> DEFINE l == Len(node[y].keys)  v == lastKey[x]
<1>3. l \in 1 .. l /\ v = node[y].keys[l]
  BY <1>1, <1>2, LeafKeys
<1> HIDE DEF l, v
<1>4. Has(node, y, v)
  BY <1>2, <1>3 DEF Has, l
<1>5. Within(L, y, v) /\ v \in Int /\ v \in KeysOf(node)
  BY <1>4, KeyBounds
<1>6. L.lo[y] \in Int /\ L.hi[y] \in Int /\ L.lo[x] \in Int /\ L.hi[x] \in Int
  BY <1>2, TreeNode
<1>7. Within(L, x, v)
  <2>1. L.lo[y] < v /\ v < L.hi[y]
    BY <1>5 DEF Within
  <2>2. L.lo[x] < v /\ v < L.hi[x]
    BY ONLY <1>2, <1>5, <1>6, <2>1
  <2> QED BY <2>2 DEF Within
<1>8. ASSUME NEW k \in KeysOf(node), v < k, k < L.hi[x] PROVE FALSE
  <2>1. k \in Int
    BY DEF KeysOf, Keys
  <2>2. L.lo[y] < v
    BY <1>5 DEF Within
  <2>3. L.lo[y] < k /\ k < L.hi[y]
    BY ONLY <1>2, <1>5, <1>6, <1>8, <2>1, <2>2
  <2>4. Has(node, y, k)
    BY <1>2, <2>3, LeafHas DEF Within
  <2>5. PICK g \in 1 .. Len(node[y].keys) : node[y].keys[g] = k
    BY <2>4 DEF Has
  <2>6. g = l \/ g < l
    BY <1>3, <2>5 DEF l
  <2>7. g < l => node[y].keys[g] < node[y].keys[l]
    BY <1>2, <1>3, <2>5, KeyPlace DEF l
  <2> QED BY <1>3, <1>5, <1>8, <2>1, <2>5, <2>6, <2>7
<1> QED BY <1>5, <1>7, <1>8 DEF v

\* No key is between the lower bound of a node and the first key below it.
LEMMA FirstKeyNear ==
  ASSUME NEW r, NEW L, IsTree(node, r, L), LeavesHaveKeys(node), NEW x \in Bids, node[x] # None
  PROVE  /\ firstKey[x] \in KeysOf(node) /\ firstKey[x] \in Int /\ Within(L, x, firstKey[x])
         /\ \A k \in KeysOf(node) : ~ (L.lo[x] < k /\ k < firstKey[x])
<1>1. PICK y \in Bids : FirstLeaf(node, L, x, y) /\ firstKey[x] = Head(node[y].keys)
  BY FirstKeyIs
<1>2. node[y] # None /\ L.h[y] = 0 /\ L.lo[y] = L.lo[x] /\ L.hi[y] <= L.hi[x]
  BY <1>1 DEF FirstLeaf
<1> DEFINE l == Len(node[y].keys)  v == firstKey[x]
<1>3. 1 \in 1 .. l /\ l \in 1 .. l /\ v = node[y].keys[1]
  BY <1>1, <1>2, LeafKeys
<1> HIDE DEF l, v
<1>4. Has(node, y, v)
  BY <1>2, <1>3 DEF Has, l
<1>5. Within(L, y, v) /\ v \in Int /\ v \in KeysOf(node)
  BY <1>4, KeyBounds
<1>6. L.lo[y] \in Int /\ L.hi[y] \in Int /\ L.lo[x] \in Int /\ L.hi[x] \in Int
  BY <1>2, TreeNode
<1>7. Within(L, x, v)
  <2>1. L.lo[y] < v /\ v < L.hi[y]
    BY <1>5 DEF Within
  <2>2. L.lo[x] < v /\ v < L.hi[x]
    BY ONLY <1>2, <1>5, <1>6, <2>1
  <2> QED BY <2>2 DEF Within
<1>8. ASSUME NEW k \in KeysOf(node), L.lo[x] < k, k < v PROVE FALSE
  <2>1. k \in Int
    BY DEF KeysOf, Keys
  <2>2. v < L.hi[y]
    BY <1>5 DEF Within
  <2>3. L.lo[y] < k /\ k < L.hi[y]
    BY ONLY <1>2, <1>5, <1>6, <1>8, <2>1, <2>2
  <2>4. Has(node, y, k)
    BY <1>2, <2>3, LeafHas DEF Within
  <2>5. PICK g \in 1 .. Len(node[y].keys) : node[y].keys[g] = k
    BY <2>4 DEF Has
  <2>6. g = 1 \/ 1 < g
    BY <1>3, <2>5 DEF l
  <2>7. 1 < g => node[y].keys[1] < node[y].keys[g]
    BY <1>2, <1>3, <2>5, KeyPlace DEF l
  <2> QED BY <1>3, <1>5, <1>8, <2>1, <2>5, <2>6, <2>7
<1> QED BY <1>5, <1>7, <1>8 DEF v

(***************************************************************************)
(* The operations of a B-tree, on trees.                                   *)
(***************************************************************************)
LEMMA JoinsKeys ==
  ASSUME NEW nd, NEW jd, NEW p \in Bids, NEW c \in Bids, NEW s \in Bids, NEW i \in Nat,
         Joins(nd, jd, p, i, c, s)
  PROVE  KeysOf(jd) = KeysOf(nd)
<1> DEFINE n == Len(nd[c].keys)
           m == Len(nd[s].keys)
           k == Len(jd[p].keys)
<1>1. /\ nd[p] # None /\ nd[c] # None /\ nd[s] # None /\ jd[p] # None /\ jd[c] # None
      /\ n \in Nat /\ m \in Nat /\ k \in Nat
  BY NodeFacts DEF Joins
<1>2. /\ i \in 1 .. k + 1 /\ Len(nd[p].keys) = k + 1 /\ Len(jd[c].keys) = n + m + 1
      /\ \A j \in 1 .. k : jd[p].keys[j] = nd[p].keys[IF j < i THEN j ELSE j + 1]
      /\ \A j \in 1 .. n : jd[c].keys[j] = nd[c].keys[j]
      /\ jd[c].keys[n + 1] = nd[p].keys[i]
      /\ \A j \in 1 .. m : jd[c].keys[j + n + 1] = nd[s].keys[j]
      /\ \A x \in Bids \ {p, c, s} : jd[x] = nd[x]
      /\ jd[s] = None
  BY DEF Joins
<1>3. Len(nd[c].keys) = n /\ Len(nd[s].keys) = m /\ Len(jd[p].keys) = k
  OBVIOUS
<1> HIDE DEF n, m, k
<1>4. ASSUME NEW e, NEW x \in Bids, Has(nd, x, e)
      PROVE  \E y \in Bids : Has(jd, y, e)
  <2>1. CASE x \notin {p, c, s}
    <3>1. jd[x] = nd[x]
      BY <1>2, <2>1
    <3> QED BY <1>4, <3>1 DEF Has
  <2>2. PICK j \in 1 .. Len(nd[x].keys) : nd[x].keys[j] = e
    BY <1>4 DEF Has
  <2>3. CASE x = p
    <3>1. j \in 1 .. k + 1
      BY <1>2, <2>2, <2>3
    <3>2. CASE j < i
      <4>1. j \in 1 .. k
        BY ONLY <1>1, <1>2, <3>1, <3>2
      <4>2. jd[p].keys[j] = e
        BY <1>2, <2>2, <2>3, <3>2, <4>1
      <4> QED BY <1>1, <1>3, <4>1, <4>2 DEF Has
    <3>3. CASE j = i
      <4>1. n + 1 \in 1 .. Len(jd[c].keys)
        BY <1>1, <1>2
      <4>2. jd[c].keys[n + 1] = e
        BY <1>2, <2>2, <2>3, <3>3
      <4> QED BY <1>1, <4>1, <4>2 DEF Has
    <3>4. CASE j > i
      <4>1. j - 1 \in 1 .. k /\ ~ (j - 1 < i) /\ (j - 1) + 1 = j
        BY ONLY <1>1, <1>2, <3>1, <3>4
      <4>2. jd[p].keys[j - 1] = nd[p].keys[(j - 1) + 1]
        BY <1>2, <4>1
      <4> QED BY <1>1, <1>3, <2>2, <2>3, <4>1, <4>2 DEF Has
    <3> QED BY <3>1, <3>2, <3>3, <3>4
  <2>4. CASE x = c
    <3>1. j \in 1 .. Len(jd[c].keys) /\ j \in 1 .. n
      BY <1>1, <1>2, <1>3, <2>2, <2>4
    <3>2. jd[c].keys[j] = e
      BY <1>2, <2>2, <2>4, <3>1
    <3> QED BY <1>1, <3>1, <3>2 DEF Has
  <2>5. CASE x = s
    <3>1. j + n + 1 \in 1 .. Len(jd[c].keys) /\ j \in 1 .. m
      BY <1>1, <1>2, <1>3, <2>2, <2>5
    <3>2. jd[c].keys[j + n + 1] = e
      BY <1>2, <2>2, <2>5, <3>1
    <3> QED BY <1>1, <3>1, <3>2 DEF Has
  <2> QED BY <2>1, <2>3, <2>4, <2>5
<1>5. ASSUME NEW e, NEW x \in Bids, Has(jd, x, e)
      PROVE  \E y \in Bids : Has(nd, y, e)
  <2>1. CASE x \notin {p, c, s}
    <3>1. jd[x] = nd[x]
      BY <1>2, <2>1
    <3> QED BY <1>5, <3>1 DEF Has
  <2>2. PICK j \in 1 .. Len(jd[x].keys) : jd[x].keys[j] = e
    BY <1>5 DEF Has
  <2>3. CASE x = p
    <3>1. j \in 1 .. k
      BY <1>3, <2>2, <2>3
    <3>2. j \in 1 .. Len(nd[p].keys) /\ j + 1 \in 1 .. Len(nd[p].keys)
      BY ONLY <1>1, <1>2, <3>1
    <3>3. nd[p].keys[j] = e \/ nd[p].keys[j + 1] = e
      BY <1>2, <2>2, <2>3, <3>1
    <3> QED BY <1>1, <3>2, <3>3 DEF Has
  <2>4. CASE x = c
    <3>1. j \in 1 .. n + m + 1
      BY <1>2, <2>2, <2>4
    <3>2. CASE j \in 1 .. n
      BY <1>1, <1>2, <1>3, <2>2, <2>4, <3>2 DEF Has
    <3>3. CASE j = n + 1
      <4>1. i \in 1 .. Len(nd[p].keys) /\ nd[p].keys[i] = e
        BY <1>1, <1>2, <2>2, <2>4, <3>3
      <4> QED BY <1>1, <4>1 DEF Has
    <3>4. CASE j > n + 1
      <4>1. j - n - 1 \in 1 .. m /\ (j - n - 1) + n + 1 = j
        BY ONLY <1>1, <3>1, <3>4
      <4>2. jd[c].keys[(j - n - 1) + n + 1] = nd[s].keys[j - n - 1]
        BY <1>2, <4>1
      <4> QED BY <1>1, <1>3, <2>2, <2>4, <4>1, <4>2 DEF Has
    <3> QED BY <1>1, <3>1, <3>2, <3>3, <3>4
  <2>5. CASE x = s
    BY <1>2, <1>5, <2>5 DEF Has
  <2> QED BY <2>1, <2>3, <2>4, <2>5
<1> QED BY <1>4, <1>5 DEF KeysOf

\* A new root s above the root r.
RootedLabel(L, r, s) ==
  [h |-> [x \in Bids |-> IF x = s THEN L.h[r] + 1 ELSE L.h[x]],
   lo |-> [x \in Bids |-> IF x = s THEN 0 ELSE L.lo[x]],
   hi |-> [x \in Bids |-> IF x = s THEN MaxKey + 1 ELSE L.hi[x]],
   parent |-> [x \in Bids |-> IF x = r THEN s ELSE L.parent[x]],
   place |-> [x \in Bids |-> IF x = r THEN 1 ELSE L.place[x]]]

\* A new root over the old one, still without keys, leaves a search tree of the
\* same keys.
LEMMA NewRoot ==
  ASSUME NEW nd, NEW jd, NEW r \in Bids, NEW L, NEW s \in Bids, IsTree(nd, r, L),
         nd[r] # None, nd[s] = None, jd[s] = [keys |-> <<>>, kids |-> <<r>>],
         \A x \in Bids \ {s} : jd[x] = nd[x]
  PROVE  IsTree(jd, s, RootedLabel(L, r, s)) /\ KeysOf(jd) = KeysOf(nd)
<1> DEFINE M == RootedLabel(L, r, s)
<1>1. /\ \A x \in Bids \ {s} : M.h[x] = L.h[x] /\ M.lo[x] = L.lo[x] /\ M.hi[x] = L.hi[x]
      /\ M.h[s] = L.h[r] + 1 /\ M.lo[s] = 0 /\ M.hi[s] = MaxKey + 1
      /\ \A x \in Bids \ {r} : M.parent[x] = L.parent[x] /\ M.place[x] = L.place[x]
      /\ M.parent[r] = s /\ M.place[r] = 1
  BY DEF RootedLabel
<1> HIDE DEF M
<1>2. r # s /\ L.lo[r] = 0 /\ L.hi[r] = MaxKey + 1 /\ L.h[r] \in Nat
  BY TreeNode
<1>3. /\ jd[s] \in Node /\ Len(jd[s].keys) = 0 /\ Len(jd[s].kids) = 1 /\ jd[s].kids[1] = r
      /\ DOMAIN jd[s].kids = {1} /\ jd[s] # None
  <2>1. jd[s] \in Node
    BY DEF Node
  <2> QED BY <2>1, NodeFacts
<1>4. MaxKey \in Nat
  BY BTreeAssumption
<1>5. SepOf(jd, M, s, 0) = 0 /\ SepOf(jd, M, s, 1) = MaxKey + 1
  BY <1>1, <1>3 DEF SepOf, Sep
<1>6. IsLabel(M, s) /\ IsShaped(jd, M, s)
  <2>1. IsLabel(M, s)
    BY <1>1, <1>2, <1>4 DEF IsLabel
  <2>2. \A j, l \in 0 .. 1 : j < l => SepOf(jd, M, s, j) < SepOf(jd, M, s, l)
    <3>1. \A j, l \in 0 .. 1 : j < l => j = 0 /\ l = 1
      OBVIOUS
    <3> QED BY <1>4, <1>5, <3>1
  <2>3. Len(jd[s].kids) = IF M.h[s] = 0 THEN 0 ELSE Len(jd[s].keys) + 1
    BY <1>1, <1>2, <1>3
  <2> QED BY <1>3, <2>1, <2>2, <2>3 DEF IsShaped
<1>7. \A j \in DOMAIN jd[s].kids : IsChild(jd, s, M, s, j)
  <2>1. jd[r] # None
    BY <1>2
  <2>2. IsChild(jd, s, M, s, 1)
    <3>1. 1 - 1 = 0
      OBVIOUS
    <3> QED BY <1>1, <1>2, <1>3, <1>5, <2>1, <3>1 DEF IsChild
  <2> QED BY <1>3, <2>2
<1>8. ASSUME NEW x \in Bids, jd[x] # None, x # s
      PROVE  /\ jd[x] \in Node /\ IsLabel(M, x) /\ IsShaped(jd, M, x)
             /\ \A j \in DOMAIN jd[x].kids : IsChild(jd, s, M, x, j)
             /\ HasParent(jd, M, x)
  <2>1. jd[x] = nd[x] /\ nd[x] # None
    BY <1>8
  <2>2. nd[x] \in Node /\ IsLabel(L, x) /\ IsShaped(nd, L, x)
        /\ DOMAIN nd[x].kids = 1 .. Len(nd[x].kids)
    BY <2>1, TreeNode
  <2>3. IsLabel(M, x)
    BY <1>1, <1>8, <2>2 DEF IsLabel
  <2>4. \A j : SepOf(jd, M, x, j) = SepOf(nd, L, x, j)
    BY <1>1, <1>8, <2>1 DEF SepOf, Sep
  <2>5. IsShaped(jd, M, x)
    BY <1>1, <1>8, <2>1, <2>2, <2>4 DEF IsShaped
  <2>6. ASSUME NEW j \in DOMAIN jd[x].kids PROVE IsChild(jd, s, M, x, j)
    <3> DEFINE c == nd[x].kids[j]
    <3>1. /\ c \in Bids /\ nd[c] # None /\ c # r
          /\ L.h[x] = L.h[c] + 1 /\ L.parent[c] = x /\ L.place[c] = j
          /\ L.lo[c] = SepOf(nd, L, x, j - 1) /\ L.hi[c] = SepOf(nd, L, x, j)
      <4>1. j \in 1 .. Len(nd[x].kids)
        BY <2>1, <2>2
      <4> QED BY <2>1, <4>1, TreeChild
    <3>2. jd[x].kids[j] = c
      BY <2>1
    <3> HIDE DEF c
    <3>3. c # s /\ jd[c] # None
      BY <3>1
    <3> QED BY <1>1, <1>8, <2>4, <3>1, <3>2, <3>3 DEF IsChild
  <2>7. HasParent(jd, M, x)
    <3>1. CASE x = r
      BY <1>1, <1>3, <3>1 DEF HasParent
    <3>2. CASE x # r
      <4>1. HasParent(nd, L, x)
        BY <2>1, <3>2, TreeNode
      <4>2. L.parent[x] # s /\ L.parent[x] \in Bids
        BY <4>1 DEF HasParent
      <4>3. jd[L.parent[x]] = nd[L.parent[x]]
        BY <4>2
      <4> QED BY <1>1, <3>2, <4>1, <4>3 DEF HasParent
    <3> QED BY <3>1, <3>2
  <2> QED BY <2>1, <2>2, <2>3, <2>5, <2>6, <2>7
<1>9. IsTree(jd, s, M)
  BY <1>1, <1>3, <1>6, <1>7, <1>8 DEF IsTree
<1>10. KeysOf(jd) = KeysOf(nd)
  <2>1. \A e : ~ Has(jd, s, e) /\ ~ Has(nd, s, e)
    BY <1>3 DEF Has
  <2>2. \A e : \A x \in Bids \ {s} : Has(jd, x, e) <=> Has(nd, x, e)
    BY DEF Has
  <2> QED BY <2>1, <2>2 DEF KeysOf
<1> QED BY <1>9, <1>10 DEF M

\* A root without keys gives way to its child.
LEMMA DropRoot ==
  ASSUME NEW nd, NEW jd, NEW r \in Bids, NEW L, IsTree(nd, r, L), nd[r] # None,
         Len(nd[r].keys) = 0, Len(nd[r].kids) # 0,
         jd[r] = None, \A x \in Bids \ {r} : jd[x] = nd[x], NEW c, c = nd[r].kids[1]
  PROVE  /\ IsTree(jd, c, L) /\ KeysOf(jd) = KeysOf(nd)
         /\ c \in Bids /\ jd[c] # None /\ c # r /\ Len(nd[r].kids) = 1
<1>1. /\ L.lo[r] = 0 /\ L.hi[r] = MaxKey + 1 /\ Len(nd[r].kids) \in Nat /\ IsShaped(nd, L, r)
      /\ L.h[r] \in Nat
  BY TreeNode
<1>2. Len(nd[r].kids) = 1 /\ L.h[r] # 0
  BY <1>1 DEF IsShaped
<1>3. 1 \in 1 .. Len(nd[r].kids)
  BY <1>2
<1>4. /\ c \in Bids /\ nd[c] # None /\ c # r /\ L.parent[c] = r
      /\ L.lo[c] = SepOf(nd, L, r, 0) /\ L.hi[c] = SepOf(nd, L, r, 1)
  <2>1. 1 - 1 = 0
    OBVIOUS
  <2> QED BY <1>3, <2>1, TreeChild
<1>5. L.lo[c] = 0 /\ L.hi[c] = MaxKey + 1
  BY <1>1, <1>4 DEF SepOf, Sep
<1>50. nd[r].kids[1] = c
  OBVIOUS
<1>6. ASSUME NEW x \in Bids, jd[x] # None
      PROVE  /\ jd[x] \in Node /\ IsLabel(L, x) /\ IsShaped(jd, L, x)
             /\ \A j \in DOMAIN jd[x].kids : IsChild(jd, c, L, x, j)
             /\ x # c => HasParent(jd, L, x)
  <2>1. jd[x] = nd[x] /\ nd[x] # None /\ x # r
    BY <1>6
  <2>2. nd[x] \in Node /\ IsLabel(L, x) /\ IsShaped(nd, L, x) /\ HasParent(nd, L, x)
        /\ DOMAIN nd[x].kids = 1 .. Len(nd[x].kids)
    BY <2>1, TreeNode
  <2>3. \A j : SepOf(jd, L, x, j) = SepOf(nd, L, x, j)
    BY <2>1 DEF SepOf
  <2>4. IsShaped(jd, L, x)
    BY <2>1, <2>2, <2>3 DEF IsShaped
  <2>5. ASSUME NEW j \in DOMAIN jd[x].kids PROVE IsChild(jd, c, L, x, j)
    <3> DEFINE d == nd[x].kids[j]
    <3>1. /\ d \in Bids /\ nd[d] # None /\ d # r
          /\ L.h[x] = L.h[d] + 1 /\ L.parent[d] = x /\ L.place[d] = j
          /\ L.lo[d] = SepOf(nd, L, x, j - 1) /\ L.hi[d] = SepOf(nd, L, x, j)
      <4>1. j \in 1 .. Len(nd[x].kids)
        BY <2>1, <2>2
      <4> QED BY <2>1, <4>1, TreeChild
    <3>2. jd[x].kids[j] = d
      BY <2>1
    <3> HIDE DEF d
    <3>3. d # c /\ jd[d] # None
      BY <1>4, <2>1, <3>1
    <3> QED BY <2>3, <3>1, <3>2, <3>3 DEF IsChild
  <2>6. ASSUME x # c PROVE HasParent(jd, L, x)
    <3> DEFINE p == L.parent[x]  j == L.place[x]
    <3>1. p \in Bids /\ nd[p] # None /\ j \in DOMAIN nd[p].kids /\ nd[p].kids[j] = x
      BY <2>2 DEF HasParent
    <3> HIDE DEF p, j
    <3>2. p # r
      <4> SUFFICES ASSUME p = r PROVE FALSE
        OBVIOUS
      <4>1. DOMAIN nd[r].kids = 1 .. 1
        BY <1>2, TreeNode
      <4>2. j = 1
        BY <3>1, <4>1
      <4> QED BY <1>50, <2>6, <3>1, <4>2
    <3>3. jd[p] = nd[p]
      BY <3>1, <3>2
    <3> QED BY <3>1, <3>3 DEF HasParent, p, j
  <2> QED BY <2>1, <2>2, <2>4, <2>5, <2>6
<1>7. c \in Bids /\ jd[c] # None /\ L.lo[c] = 0 /\ L.hi[c] = MaxKey + 1
  BY <1>4, <1>5
<1>8. IsTree(jd, c, L)
  BY <1>6, <1>7 DEF IsTree
<1>9. KeysOf(jd) = KeysOf(nd)
  <2>1. \A e : ~ Has(jd, r, e) /\ ~ Has(nd, r, e)
    BY DEF Has
  <2>2. \A e : \A x \in Bids \ {r} : Has(jd, x, e) <=> Has(nd, x, e)
    BY DEF Has
  <2> QED BY <2>1, <2>2 DEF KeysOf
<1> QED BY <1>2, <1>4, <1>7, <1>8, <1>9

\* A leaf with other keys, in order.
LEMMA LeafTree ==
  ASSUME NEW nd, NEW jd, NEW r, NEW L, IsTree(nd, r, L), NEW x \in Bids,
         nd[x] # None, L.h[x] = 0, jd[x] \in Node, jd[x].kids = nd[x].kids,
         \A y \in Bids \ {x} : jd[y] = nd[y],
         \A j, l \in 0 .. Len(jd[x].keys) + 1 : j < l => SepOf(jd, L, x, j) < SepOf(jd, L, x, l)
  PROVE  IsTree(jd, r, L)
<1>1. /\ r \in Bids /\ nd[r] # None /\ L.lo[r] = 0 /\ L.hi[r] = MaxKey + 1
      /\ IsLabel(L, x) /\ IsShaped(nd, L, x) /\ nd[x].kids \in Seq(Bids)
      /\ DOMAIN nd[x].kids = 1 .. Len(nd[x].kids)
  BY TreeNode
<1>2. jd[x] # None
  BY NodeFacts
<1>3. \A y \in Bids : jd[y] # None <=> nd[y] # None
  BY <1>2
<1>4. Len(jd[x].kids) = 0 /\ DOMAIN jd[x].kids = {}
  <2>1. Len(nd[x].kids) = 0
    BY <1>1 DEF IsShaped
  <2> QED BY <1>1, <2>1
<1>5. IsShaped(jd, L, x)
  BY <1>4 DEF IsShaped
<1>6. ASSUME NEW y \in Bids, y # x, jd[y] # None
      PROVE  /\ jd[y] \in Node /\ IsLabel(L, y) /\ IsShaped(jd, L, y)
             /\ \A j \in DOMAIN jd[y].kids : IsChild(jd, r, L, y, j)
  <2>1. jd[y] = nd[y]
    BY <1>6
  <2>2. nd[y] \in Node /\ IsLabel(L, y) /\ IsShaped(nd, L, y)
        /\ DOMAIN nd[y].kids = 1 .. Len(nd[y].kids)
    BY <1>6, <2>1, TreeNode
  <2>3. \A j : SepOf(jd, L, y, j) = SepOf(nd, L, y, j)
    BY <2>1 DEF SepOf
  <2>4. IsShaped(jd, L, y)
    BY <2>1, <2>2, <2>3 DEF IsShaped
  <2>5. ASSUME NEW j \in DOMAIN jd[y].kids PROVE IsChild(jd, r, L, y, j)
    <3> DEFINE d == nd[y].kids[j]
    <3>1. /\ d \in Bids /\ nd[d] # None /\ d # r
          /\ L.h[y] = L.h[d] + 1 /\ L.parent[d] = y /\ L.place[d] = j
          /\ L.lo[d] = SepOf(nd, L, y, j - 1) /\ L.hi[d] = SepOf(nd, L, y, j)
      <4>1. j \in 1 .. Len(nd[y].kids)
        BY <2>1, <2>2
      <4> QED BY <1>6, <2>1, <4>1, TreeChild
    <3>2. jd[y].kids[j] = d
      BY <2>1
    <3> HIDE DEF d
    <3> QED BY <1>3, <2>3, <3>1, <3>2 DEF IsChild
  <2> QED BY <2>1, <2>2, <2>4, <2>5
<1>7. ASSUME NEW y \in Bids, jd[y] # None, y # r PROVE HasParent(jd, L, y)
  <2> DEFINE p == L.parent[y]  j == L.place[y]
  <2>1. HasParent(nd, L, y)
    BY <1>3, <1>7, TreeNode
  <2>2. p \in Bids /\ nd[p] # None /\ j \in DOMAIN nd[p].kids /\ nd[p].kids[j] = y
    BY <2>1 DEF HasParent
  <2> HIDE DEF p, j
  <2>3. jd[p].kids = nd[p].kids
    <3>1. CASE p = x
      BY <3>1
    <3>2. CASE p # x
      BY <2>2, <3>2
    <3> QED BY <3>1, <3>2
  <2> QED BY <1>3, <2>2, <2>3 DEF HasParent, p, j
<1>8. r \in Bids /\ jd[r] # None
  BY <1>1, <1>3
<1> QED BY <1>1, <1>4, <1>5, <1>6, <1>7, <1>8 DEF IsTree

\* A key put in among keys.
LEMMA InsertAtOf ==
  \A s \in Seq(Keys) : \A i \in 1 .. Len(s) + 1 : \A e \in Keys :
    /\ InsertAt(s, i, e) \in Seq(Keys) /\ Len(InsertAt(s, i, e)) = Len(s) + 1
    /\ \A j \in 1 .. Len(s) + 1 :
         InsertAt(s, i, e)[j] = IF j < i THEN s[j] ELSE IF j = i THEN e ELSE s[j - 1]
<1>1. ASSUME NEW s \in Seq(Keys), NEW i \in 1 .. Len(s) + 1, NEW e \in Keys
      PROVE  /\ InsertAt(s, i, e) \in Seq(Keys) /\ Len(InsertAt(s, i, e)) = Len(s) + 1
             /\ \A j \in 1 .. Len(s) + 1 :
                  InsertAt(s, i, e)[j] = IF j < i THEN s[j] ELSE IF j = i THEN e ELSE s[j - 1]
  BY ONLY InsertAtIs, SMTT(40)
<1> QED BY <1>1

Grown(nd, jd, x) ==
  Len(jd[x].keys) = Len(nd[x].keys) + 1 /\ jd[x] \in Node /\ jd[x].kids = nd[x].kids
Shrunk(nd, jd, x) ==
  Len(jd[x].keys) = Len(nd[x].keys) - 1 /\ jd[x] \in Node /\ jd[x].kids = nd[x].kids

\* A key inserted in its place in a leaf is one key more in the search tree.
LEMMA LeafInsert ==
  ASSUME NEW nd, NEW jd, NEW r, NEW L, IsTree(nd, r, L), NEW x \in Bids, NEW k \in Keys, NEW g \in Nat,
         nd[x] # None, L.h[x] = 0, g \in 0 .. Len(nd[x].keys),
         SepOf(nd, L, x, g) < k, k < SepOf(nd, L, x, g + 1),
         jd[x] = [nd[x] EXCEPT !.keys = InsertAt(@, g + 1, k)],
         \A y \in Bids \ {x} : jd[y] = nd[y]
  PROVE  /\ IsTree(jd, r, L) /\ KeysOf(jd) = KeysOf(nd) \cup {k}
         /\ Grown(nd, jd, x)
<1> DEFINE l == Len(nd[x].keys)  w == InsertAt(nd[x].keys, g + 1, k)
<1>1. /\ nd[x] \in Node /\ nd[x].keys \in Seq(Keys) /\ nd[x].kids \in Seq(Bids) /\ l \in Nat
      /\ nd[x] = [keys |-> nd[x].keys, kids |-> nd[x].kids]
  BY TreeNode, NodeFacts
<1>2. g + 1 \in 1 .. l + 1
  BY <1>1
<1>3. /\ w \in Seq(Keys) /\ Len(w) = l + 1
      /\ \A j \in 1 .. l + 1 : w[j] = IF j < g + 1 THEN nd[x].keys[j]
                                      ELSE IF j = g + 1 THEN k ELSE nd[x].keys[j - 1]
  <2> DEFINE i == g + 1
  <2> HIDE DEF i
  <2>1. i \in 1 .. Len(nd[x].keys) + 1
    BY <1>2 DEF i
  <2>2. /\ InsertAt(nd[x].keys, i, k) \in Seq(Keys)
        /\ Len(InsertAt(nd[x].keys, i, k)) = Len(nd[x].keys) + 1
        /\ \A j \in 1 .. Len(nd[x].keys) + 1 : InsertAt(nd[x].keys, i, k)[j] =
             IF j < i THEN nd[x].keys[j] ELSE IF j = i THEN k ELSE nd[x].keys[j - 1]
    <3>1. nd[x].keys \in Seq(Keys)
      BY <1>1
    <3> HIDE DEF l, w
    <3> QED BY ONLY <2>1, <3>1, k \in Keys, InsertAtOf, ZenonT(30)
  <2> QED BY <2>2 DEF i
<1>4. jd[x].keys = w /\ jd[x].kids = nd[x].kids /\ jd[x] = [keys |-> w, kids |-> nd[x].kids]
  BY <1>1
<1>5. Len(nd[x].keys) = l
  OBVIOUS
<1> HIDE DEF w, l
<1>6. jd[x] \in Node /\ Len(jd[x].keys) = l + 1
  BY <1>1, <1>3, <1>4 DEF Node
<1>7. /\ SepOf(nd, L, x, 0) = L.lo[x] /\ SepOf(nd, L, x, l + 1) = L.hi[x]
      /\ \A j \in 1 .. l : SepOf(nd, L, x, j) = nd[x].keys[j]
      /\ \A j \in 0 .. l + 1 : SepOf(nd, L, x, j) \in Int
      /\ \A j, m \in 0 .. l + 1 : j < m => SepOf(nd, L, x, j) < SepOf(nd, L, x, m)
  BY <1>5, Order
<1>8. /\ SepOf(jd, L, x, 0) = L.lo[x] /\ SepOf(jd, L, x, l + 2) = L.hi[x]
      /\ \A j \in 1 .. l + 1 : SepOf(jd, L, x, j) = w[j]
  <2>1. l + 1 \in Nat /\ l + 2 = (l + 1) + 1 /\ Len(jd[x].keys) = l + 1
    BY <1>1, <1>6
  <2> QED BY ONLY <1>1, <1>4, <2>1 DEF SepOf, Sep
<1>9. ASSUME NEW j \in 0 .. l + 2
      PROVE  SepOf(jd, L, x, j) = IF j < g + 1 THEN SepOf(nd, L, x, j)
                                  ELSE IF j = g + 1 THEN k ELSE SepOf(nd, L, x, j - 1)
  <2>1. CASE j = 0
    <3>1. j < g + 1
      BY <2>1
    <3> QED BY <1>7, <1>8, <2>1, <3>1
  <2>2. CASE j = l + 2
    <3>1. ~ (j < g + 1) /\ j # g + 1 /\ j - 1 = l + 1
      BY ONLY <1>1, <1>2, <2>2
    <3> QED BY ONLY <1>7, <1>8, <2>2, <3>1
  <2>3. CASE j \in 1 .. l + 1
    <3>1. SepOf(jd, L, x, j) = w[j]
      BY <1>8, <2>3
    <3>2. CASE j < g + 1
      <4>1. j \in 1 .. l
        BY ONLY <1>1, <1>2, <2>3, <3>2
      <4>2. w[j] = nd[x].keys[j]
        BY <1>3, <2>3, <3>2
      <4> QED BY <1>7, <3>1, <3>2, <4>1, <4>2
    <3>3. CASE j = g + 1
      BY <1>3, <2>3, <3>1, <3>3
    <3>4. CASE j > g + 1
      <4>1. j - 1 \in 1 .. l /\ ~ (j < g + 1) /\ j # g + 1
        BY ONLY <1>1, <1>2, <2>3, <3>4, g \in Nat
      <4>2. w[j] = nd[x].keys[j - 1]
        BY <1>3, <2>3, <4>1
      <4>3. SepOf(nd, L, x, j - 1) = nd[x].keys[j - 1]
        BY <1>7, <4>1
      <4> QED BY ONLY <3>1, <4>1, <4>2, <4>3
    <3> QED BY <2>3, <3>2, <3>3, <3>4
  <2> QED BY <1>1, <2>1, <2>2, <2>3
<1>10. ASSUME NEW j \in 0 .. l + 2, NEW m \in 0 .. l + 2, j < m
       PROVE  SepOf(jd, L, x, j) < SepOf(jd, L, x, m)
  <2>0. g \in 0 .. l /\ k \in Int /\ g \in 0 .. l + 1 /\ g + 1 \in 0 .. l + 1
    BY <1>1, <1>5 DEF Keys
  <2>1. CASE m < g + 1
    <3>1. j < g + 1 /\ j \in 0 .. l + 1 /\ m \in 0 .. l + 1
      BY ONLY <1>1, <1>10, <2>0, <2>1
    <3> QED BY ONLY <1>7, <1>9, <1>10, <2>1, <3>1
  <2>2. CASE m = g + 1
    <3>1. j < g + 1 /\ j \in 0 .. l + 1 /\ (j < g \/ j = g)
      BY ONLY <1>1, <1>10, <2>0, <2>2
    <3>2. SepOf(nd, L, x, j) <= SepOf(nd, L, x, g)
      BY ONLY <1>7, <2>0, <3>1
    <3>3. SepOf(nd, L, x, j) \in Int /\ SepOf(nd, L, x, g) \in Int
      BY ONLY <1>7, <2>0, <3>1
    <3>4. SepOf(nd, L, x, j) < k
      BY ONLY <2>0, <3>2, <3>3, SepOf(nd, L, x, g) < k
    <3> QED BY ONLY <1>9, <1>10, <2>2, <3>1, <3>4
  <2>3. CASE m > g + 1 /\ j > g + 1
    <3>1. j - 1 \in 0 .. l + 1 /\ m - 1 \in 0 .. l + 1 /\ j - 1 < m - 1 /\ ~ (j < g + 1)
          /\ ~ (m < g + 1) /\ j # g + 1 /\ m # g + 1
      BY ONLY <1>1, <1>10, <2>0, <2>3
    <3> QED BY ONLY <1>7, <1>9, <1>10, <3>1
  <2>4. CASE m > g + 1 /\ j <= g + 1
    <3>1. m - 1 \in 0 .. l + 1 /\ (g + 1 < m - 1 \/ g + 1 = m - 1)
          /\ ~ (m < g + 1) /\ m # g + 1
      BY ONLY <1>1, <1>10, <2>0, <2>4
    <3>2. SepOf(nd, L, x, g + 1) <= SepOf(nd, L, x, m - 1)
      BY ONLY <1>7, <2>0, <3>1
    <3>3. SepOf(nd, L, x, g + 1) \in Int /\ SepOf(nd, L, x, m - 1) \in Int
      BY ONLY <1>7, <2>0, <3>1
    <3>4. k < SepOf(nd, L, x, m - 1)
      BY ONLY <2>0, <3>2, <3>3, k < SepOf(nd, L, x, g + 1)
    <3>5. SepOf(jd, L, x, m) = SepOf(nd, L, x, m - 1)
      BY ONLY <1>9, <1>10, <3>1
    <3>6. CASE j = g + 1
      BY ONLY <1>9, <1>10, <3>4, <3>5, <3>6, <2>0
    <3>7. CASE j < g + 1
      <4>1. j \in 0 .. l + 1 /\ j < m - 1
        BY ONLY <1>1, <1>10, <2>0, <3>1, <3>7
      <4> QED BY ONLY <1>7, <1>9, <1>10, <3>1, <3>5, <3>7, <4>1
    <3> QED BY ONLY <1>10, <2>0, <2>4, <3>6, <3>7
  <2> QED BY ONLY <1>1, <1>10, <2>0, <2>1, <2>2, <2>3, <2>4
<1>11. \A j, m \in 0 .. Len(jd[x].keys) + 1 : j < m => SepOf(jd, L, x, j) < SepOf(jd, L, x, m)
  <2>1. Len(jd[x].keys) + 1 = l + 2
    BY <1>1, <1>6
  <2> QED BY <1>10, <2>1
<1>12. IsTree(jd, r, L)
  BY <1>4, <1>6, <1>11, LeafTree
<1>13. \A e : Has(jd, x, e) <=> Has(nd, x, e) \/ e = k
  <2> TAKE e
  <2>0. jd[x] # None /\ Len(jd[x].keys) = l + 1 /\ jd[x].keys = w
    BY <1>4, <1>6, NodeFacts
  <2>1. ASSUME Has(jd, x, e), e # k PROVE Has(nd, x, e)
    <3>1. PICK j \in 1 .. l + 1 : w[j] = e
      BY <2>0, <2>1 DEF Has
    <3>2. j # g + 1
      BY <1>3, <2>1, <3>1
    <3>3. CASE j < g + 1
      <4>1. j \in 1 .. l
        BY ONLY <1>1, <1>2, <3>1, <3>3
      <4> QED BY <1>3, <1>5, <3>1, <3>3, <4>1 DEF Has
    <3>4. CASE ~ (j < g + 1)
      <4>1. j - 1 \in 1 .. l
        BY ONLY <1>1, <1>2, <3>1, <3>2, <3>4, g \in Nat
      <4> QED BY <1>3, <1>5, <3>1, <3>2, <3>4, <4>1 DEF Has
    <3> QED BY <3>3, <3>4
  <2>2. ASSUME Has(nd, x, e) PROVE Has(jd, x, e)
    <3>1. PICK j \in 1 .. l : nd[x].keys[j] = e
      BY <1>5, <2>2 DEF Has
    <3>2. CASE j < g + 1
      <4>1. j \in 1 .. l + 1
        BY <1>1, <3>1
      <4> QED BY <1>3, <2>0, <3>1, <3>2, <4>1 DEF Has
    <3>3. CASE ~ (j < g + 1)
      <4>1. j + 1 \in 1 .. l + 1 /\ (j + 1) - 1 = j /\ ~ (j + 1 < g + 1) /\ j + 1 # g + 1
        BY ONLY <1>1, <3>1, <3>3, g \in Nat
      <4>2. w[j + 1] = nd[x].keys[(j + 1) - 1]
        BY <1>3, <4>1
      <4> QED BY <2>0, <3>1, <4>1, <4>2 DEF Has
    <3> QED BY <3>2, <3>3
  <2>3. Has(jd, x, k)
    <3>1. g + 1 \in 1 .. l + 1 /\ w[g + 1] = k
      BY <1>2, <1>3
    <3> QED BY <2>0, <3>1 DEF Has
  <2> QED BY <2>1, <2>2, <2>3
<1>14. KeysOf(jd) = KeysOf(nd) \cup {k}
  <2>1. \A e : \A y \in Bids \ {x} : Has(jd, y, e) <=> Has(nd, y, e)
    BY DEF Has
  <2> QED BY <1>13, <2>1 DEF KeysOf
<1> QED BY <1>4, <1>6, <1>12, <1>14 DEF l, Grown

\* A key removed from a leaf is one key less.
LEMMA LeafRemove ==
  ASSUME NEW nd, NEW jd, NEW r, NEW L, IsTree(nd, r, L), NEW x \in Bids, NEW g \in Nat,
         nd[x] # None, L.h[x] = 0, g \in 1 .. Len(nd[x].keys),
         jd[x] = [nd[x] EXCEPT !.keys = RemoveAt(@, g)],
         \A y \in Bids \ {x} : jd[y] = nd[y]
  PROVE  /\ IsTree(jd, r, L) /\ KeysOf(jd) = KeysOf(nd) \ {nd[x].keys[g]}
         /\ Shrunk(nd, jd, x)
<1> DEFINE l == Len(nd[x].keys)  w == RemoveAt(nd[x].keys, g)
<1>1. /\ nd[x] \in Node /\ nd[x].keys \in Seq(Keys) /\ nd[x].kids \in Seq(Bids) /\ l \in Nat
      /\ nd[x] = [keys |-> nd[x].keys, kids |-> nd[x].kids]
  BY TreeNode, NodeFacts
<1>3. /\ w \in Seq(Keys) /\ Len(w) = l - 1
      /\ \A j \in 1 .. l - 1 : w[j] = IF j < g THEN nd[x].keys[j] ELSE nd[x].keys[j + 1]
  BY ONLY <1>1, g \in 1 .. Len(nd[x].keys), RemoveAtOf DEF w, l
<1>4. jd[x].keys = w /\ jd[x].kids = nd[x].kids /\ jd[x] = [keys |-> w, kids |-> nd[x].kids]
  BY <1>1
<1>5. Len(nd[x].keys) = l /\ g \in 1 .. l
  OBVIOUS
<1> HIDE DEF w, l
<1>6. jd[x] \in Node /\ Len(jd[x].keys) = l - 1
  BY <1>1, <1>3, <1>4 DEF Node
<1>7. /\ SepOf(nd, L, x, 0) = L.lo[x] /\ SepOf(nd, L, x, l + 1) = L.hi[x]
      /\ \A j \in 1 .. l : SepOf(nd, L, x, j) = nd[x].keys[j]
      /\ \A j \in 0 .. l + 1 : SepOf(nd, L, x, j) \in Int
      /\ \A j, m \in 0 .. l + 1 : j < m => SepOf(nd, L, x, j) < SepOf(nd, L, x, m)
  BY ONLY <1>5, IsTree(nd, r, L), x \in Bids, nd[x] # None, Order
<1>8. /\ SepOf(jd, L, x, 0) = L.lo[x] /\ SepOf(jd, L, x, l) = L.hi[x]
      /\ \A j \in 1 .. l - 1 : SepOf(jd, L, x, j) = w[j]
  <2>1. l - 1 \in Nat /\ l = (l - 1) + 1 /\ Len(jd[x].keys) = l - 1
    BY <1>1, <1>5, <1>6
  <2> QED BY ONLY <1>1, <1>4, <2>1 DEF SepOf, Sep
<1>9. ASSUME NEW j \in 0 .. l
      PROVE  SepOf(jd, L, x, j) = IF j < g THEN SepOf(nd, L, x, j) ELSE SepOf(nd, L, x, j + 1)
  <2>1. CASE j = 0
    BY <1>5, <1>7, <1>8, <2>1
  <2>2. CASE j = l
    <3>1. ~ (j < g)
      BY ONLY <1>1, <1>5, <2>2
    <3> QED BY ONLY <1>7, <1>8, <2>2, <3>1
  <2>3. CASE j \in 1 .. l - 1
    <3>1. SepOf(jd, L, x, j) = w[j] /\ j \in 1 .. l /\ j + 1 \in 1 .. l
      BY <1>1, <1>8, <2>3
    <3> QED BY <1>3, <1>7, <2>3, <3>1
  <2> QED BY <1>1, <2>1, <2>2, <2>3
<1>10. ASSUME NEW j \in 0 .. l, NEW m \in 0 .. l, j < m
       PROVE  SepOf(jd, L, x, j) < SepOf(jd, L, x, m)
  <2>1. /\ j \in 0 .. l + 1 /\ j + 1 \in 0 .. l + 1 /\ m \in 0 .. l + 1 /\ m + 1 \in 0 .. l + 1
        /\ j + 1 < m + 1 /\ j < m + 1
    BY ONLY <1>1, <1>10
  <2>2. m < g => j < g
    BY ONLY <1>1, <1>5, <1>10
  <2> QED BY ONLY <1>7, <1>9, <1>10, <2>1, <2>2
<1>11. \A j, m \in 0 .. Len(jd[x].keys) + 1 : j < m => SepOf(jd, L, x, j) < SepOf(jd, L, x, m)
  <2>1. Len(jd[x].keys) + 1 = l
    BY <1>1, <1>6
  <2> QED BY <1>10, <2>1
<1>12. IsTree(jd, r, L)
  BY <1>4, <1>6, <1>11, LeafTree
<1>13. \A e : Has(jd, x, e) <=> Has(nd, x, e) /\ e # nd[x].keys[g]
  <2> TAKE e
  <2>0. jd[x] # None /\ Len(jd[x].keys) = l - 1 /\ jd[x].keys = w
    BY <1>4, <1>6, NodeFacts
  <2>1. \A i, j \in 1 .. l : nd[x].keys[i] = nd[x].keys[j] => i = j
    BY <1>5, KeyPlace
  <2>2. ASSUME Has(jd, x, e) PROVE Has(nd, x, e) /\ e # nd[x].keys[g]
    <3>1. PICK j \in 1 .. l - 1 : w[j] = e
      BY <2>0, <2>2 DEF Has
    <3>2. j \in 1 .. l /\ j + 1 \in 1 .. l
      BY ONLY <1>1, <3>1
    <3>3. CASE j < g
      <4>1. nd[x].keys[j] = e /\ j # g
        BY <1>3, <3>1, <3>3
      <4> QED BY <1>5, <2>1, <3>2, <4>1 DEF Has
    <3>4. CASE ~ (j < g)
      <4>1. nd[x].keys[j + 1] = e /\ j + 1 # g
        BY <1>3, <3>1, <3>4
      <4> QED BY <1>5, <2>1, <3>2, <4>1 DEF Has
    <3> QED BY <3>3, <3>4
  <2>3. ASSUME Has(nd, x, e), e # nd[x].keys[g] PROVE Has(jd, x, e)
    <3>1. PICK j \in 1 .. l : nd[x].keys[j] = e
      BY <1>5, <2>3 DEF Has
    <3>2. CASE j < g
      <4>1. j \in 1 .. l - 1
        BY <1>1, <1>5, <3>1, <3>2
      <4> QED BY <1>3, <2>0, <3>1, <3>2, <4>1 DEF Has
    <3>3. CASE ~ (j < g)
      <4>1. j # g
        BY <2>3, <3>1
      <4>2. j - 1 \in 1 .. l - 1 /\ (j - 1) + 1 = j /\ ~ (j - 1 < g)
        BY ONLY <1>1, <1>5, <3>1, <3>3, <4>1
      <4>3. w[j - 1] = nd[x].keys[(j - 1) + 1]
        BY <1>3, <4>2
      <4> QED BY <2>0, <3>1, <4>2, <4>3 DEF Has
    <3> QED BY <3>2, <3>3
  <2> QED BY <2>2, <2>3
<1>14. KeysOf(jd) = KeysOf(nd) \ {nd[x].keys[g]}
  <2>1. \A e : \A y \in Bids \ {x} : Has(jd, y, e) <=> Has(nd, y, e)
    BY DEF Has
  <2>2. Has(nd, x, nd[x].keys[g])
    BY DEF Has
  <2>3. \A y \in Bids \ {x} : ~ Has(nd, y, nd[x].keys[g])
    BY <2>2, KeyOnce
  <2> QED BY <1>13, <2>1, <2>3 DEF KeysOf
<1> QED BY <1>4, <1>6, <1>12, <1>14 DEF l, Shrunk

\* The bounds of a node are keys of higher nodes.
LEMMA BoundsAreKeys ==
  ASSUME NEW nd, NEW r, NEW L, IsTree(nd, r, L)
  PROVE  \A x \in Bids : nd[x] # None =>
           L.lo[x] \in KeysOf(nd) \cup {0} /\ L.hi[x] \in KeysOf(nd) \cup {MaxKey + 1}
<1> DEFINE Good(x) == L.lo[x] \in KeysOf(nd) \cup {0} /\ L.hi[x] \in KeysOf(nd) \cup {MaxKey + 1}
           Bad(x) == nd[x] # None /\ ~ Good(x)
           S == {L.h[r] - L.h[x] : x \in {z \in Bids : Bad(z)}}
<1>1. \A x \in Bids : nd[x] # None => L.h[x] \in Nat /\ L.h[r] \in Nat /\ L.h[x] <= L.h[r]
  <2> TAKE x \in Bids
  <2> HAVE nd[x] # None
  <2>1. CASE x = r
    <3>1. L.h[r] \in Nat
      BY <2>1, TreeNode
    <3> QED BY <2>1, <3>1
  <2>2. CASE x # r
    BY <2>2, RootIsHighest
  <2> QED BY <2>1, <2>2
<1>2. ASSUME NEW b \in Bids, Bad(b) PROVE FALSE
  <2>1. S \subseteq Nat /\ S # {}
    BY <1>1, <1>2
  <2>2. PICK n \in S : \A m \in S : n <= m
    <3> HIDE DEF S
    <3> QED BY <2>1, LeastNatural
  <2>3. PICK x \in Bids : Bad(x) /\ n = L.h[r] - L.h[x]
    BY <2>2
  <2>4. nd[x] # None /\ ~ Good(x) /\ \A z \in Bids : Bad(z) => L.h[r] - L.h[x] <= L.h[r] - L.h[z]
    BY <2>2, <2>3
  <2> HIDE DEF S
  <2>5. x # r
    BY <2>4, TreeNode
  <2> DEFINE p == L.parent[x]  j == L.place[x]
  <2>6. /\ p \in Bids /\ nd[p] # None /\ j \in 1 .. Len(nd[p].kids)
        /\ L.h[p] = L.h[x] + 1 /\ L.h[x] \in Nat /\ L.h[p] \in Nat
        /\ Len(nd[p].kids) = Len(nd[p].keys) + 1
        /\ L.lo[x] = SepOf(nd, L, p, j - 1) /\ L.hi[x] = SepOf(nd, L, p, j)
    BY <2>4, <2>5, Parent
  <2> HIDE DEF p, j
  <2>7. ~ Bad(p)
    <3>1. ~ (L.h[r] - L.h[x] <= L.h[r] - L.h[p])
      BY <1>1, <2>4, <2>6
    <3> QED BY <2>4, <2>6, <3>1
  <2>8. Good(p)
    BY <2>6, <2>7
  <2>9. /\ Len(nd[p].keys) \in Nat /\ SepOf(nd, L, p, 0) = L.lo[p]
        /\ SepOf(nd, L, p, Len(nd[p].keys) + 1) = L.hi[p]
        /\ \A g \in 1 .. Len(nd[p].keys) : SepOf(nd, L, p, g) = nd[p].keys[g] /\ nd[p].keys[g] \in Keys
    BY <2>6, Order
  <2>10. \A g \in 1 .. Len(nd[p].keys) : SepOf(nd, L, p, g) \in KeysOf(nd)
    BY <2>6, <2>9 DEF KeysOf, Has
  <2>11. j - 1 = 0 \/ j - 1 \in 1 .. Len(nd[p].keys)
    BY ONLY <2>6, <2>9
  <2>12. j = Len(nd[p].keys) + 1 \/ j \in 1 .. Len(nd[p].keys)
    BY ONLY <2>6, <2>9
  <2>13. L.lo[x] \in KeysOf(nd) \cup {0}
    BY <2>6, <2>8, <2>9, <2>10, <2>11
  <2>14. L.hi[x] \in KeysOf(nd) \cup {MaxKey + 1}
    BY <2>6, <2>8, <2>9, <2>10, <2>12
  <2> QED BY <2>4, <2>13, <2>14
<1> QED BY <1>2

\* The i-th key of node a is another one in od.
Replaces(nd, od, a, i, v) ==
  /\ nd[a] # None /\ od[a] \in Node /\ od[a].kids = nd[a].kids
  /\ i \in 1 .. Len(nd[a].keys) /\ Len(od[a].keys) = Len(nd[a].keys)
  /\ \A j \in 1 .. Len(nd[a].keys) : od[a].keys[j] = IF j = i THEN v ELSE nd[a].keys[j]
  /\ \A x \in Bids \ {a} : od[x] = nd[x]

ReplacedLabel(L, u, v) ==
  [h |-> L.h, parent |-> L.parent, place |-> L.place,
   lo |-> [x \in Bids |-> IF L.lo[x] = u THEN v ELSE L.lo[x]],
   hi |-> [x \in Bids |-> IF L.hi[x] = u THEN v ELSE L.hi[x]]]

Swapped(nd, od, u, v) == u \in KeysOf(nd) /\ KeysOf(od) = (KeysOf(nd) \ {u}) \cup {v}

\* With one key of a node replaced, the tree has the other in its place.
LEMMA ReplaceKeys ==
  ASSUME NEW nd, NEW od, NEW r, NEW L, IsTree(nd, r, L), NEW a \in Bids, NEW i \in Nat,
         NEW v \in Keys, Replaces(nd, od, a, i, v), NEW u, u = nd[a].keys[i]
  PROVE  Swapped(nd, od, u, v)
<1> DEFINE l == Len(nd[a].keys)
<1>1. /\ nd[a] # None /\ od[a] # None /\ i \in 1 .. l /\ Len(od[a].keys) = l
      /\ \A j \in 1 .. l : od[a].keys[j] = IF j = i THEN v ELSE nd[a].keys[j]
      /\ \A x \in Bids \ {a} : od[x] = nd[x]
  BY NodeFacts DEF Replaces
<1>2. Has(nd, a, u)
  BY <1>1 DEF Has
<1>3. u \in KeysOf(nd) /\ u \in Keys
  BY <1>2, KeyBounds
<1>4. \A x \in Bids \ {a} : \A e : (Has(od, x, e) <=> Has(nd, x, e)) /\ (Has(nd, x, e) => e # u)
  <2> SUFFICES ASSUME NEW x \in Bids \ {a}, NEW e
               PROVE  (Has(od, x, e) <=> Has(nd, x, e)) /\ (Has(nd, x, e) => e # u)
    OBVIOUS
  <2>1. od[x] = nd[x]
    BY <1>1
  <2>2. Has(nd, x, e) => e # u
    BY <1>2, KeyOnce
  <2> QED BY <2>1, <2>2 DEF Has
<1>5. \A e : Has(od, a, e) <=> (Has(nd, a, e) /\ e # u) \/ e = v
  <2>1. \A g, j \in 1 .. l : nd[a].keys[g] = nd[a].keys[j] => g = j
    BY <1>1, KeyPlace
  <2> TAKE e
  <2>2. ASSUME Has(od, a, e), e # v PROVE Has(nd, a, e) /\ e # u
    <3>1. PICK j \in 1 .. l : od[a].keys[j] = e
      BY <1>1, <2>2 DEF Has
    <3>2. j # i /\ nd[a].keys[j] = e
      BY <1>1, <2>2, <3>1
    <3> QED BY <1>1, <2>1, <3>1, <3>2 DEF Has
  <2>3. ASSUME Has(nd, a, e), e # u PROVE Has(od, a, e)
    BY <1>1, <2>3 DEF Has
  <2>4. Has(od, a, v)
    BY <1>1 DEF Has
  <2> QED BY <2>2, <2>3, <2>4
<1> HIDE DEF l
<1>6. KeysOf(od) = (KeysOf(nd) \ {u}) \cup {v}
  <2>1. ASSUME NEW e \in KeysOf(od) PROVE e \in (KeysOf(nd) \ {u}) \cup {v}
    <3>1. PICK x \in Bids : Has(od, x, e)
      BY DEF KeysOf
    <3>2. e \in Keys
      BY DEF KeysOf
    <3> QED BY <1>4, <1>5, <3>1, <3>2 DEF KeysOf
  <2>2. ASSUME NEW e \in KeysOf(nd), e # u PROVE e \in KeysOf(od)
    <3>1. PICK x \in Bids : Has(nd, x, e)
      BY DEF KeysOf
    <3>2. e \in Keys
      BY DEF KeysOf
    <3>3. Has(od, x, e)
      BY <1>4, <1>5, <2>2, <3>1
    <3> QED BY <3>2, <3>3 DEF KeysOf
  <2>3. v \in KeysOf(od)
    BY <1>5 DEF KeysOf
  <2> QED BY <2>1, <2>2, <2>3
<1> QED BY <1>3, <1>6 DEF Swapped

\* A key may be replaced by one that is not there, if no key is between the two.
LEMMA Replace ==
  ASSUME NEW nd, NEW od, NEW r, NEW L, IsTree(nd, r, L), NEW a \in Bids, NEW i \in Nat,
         NEW v \in Keys, v \notin KeysOf(nd), Replaces(nd, od, a, i, v),
         NEW u, u = nd[a].keys[i], \A k \in KeysOf(nd) : ~ Between(k, u, v)
  PROVE  IsTree(od, r, ReplacedLabel(L, u, v))
<1> DEFINE M == ReplacedLabel(L, u, v)
           sub(e) == IF e = u THEN v ELSE e
           B == KeysOf(nd) \cup {0, MaxKey + 1}
<1>1. /\ nd[a] # None /\ od[a] # None /\ i \in 1 .. Len(nd[a].keys)
      /\ Len(od[a].keys) = Len(nd[a].keys) /\ od[a].kids = nd[a].kids /\ od[a] \in Node
      /\ \A j \in 1 .. Len(nd[a].keys) : od[a].keys[j] = IF j = i THEN v ELSE nd[a].keys[j]
      /\ \A x \in Bids \ {a} : od[x] = nd[x]
  BY NodeFacts DEF Replaces
<1>2. Has(nd, a, u)
  BY <1>1 DEF Has
<1>3. u \in KeysOf(nd) /\ u \in Keys
  BY <1>2, KeyBounds
<1>4. M.h = L.h /\ M.parent = L.parent /\ M.place = L.place
      /\ \A x \in Bids : M.lo[x] = sub(L.lo[x]) /\ M.hi[x] = sub(L.hi[x])
  BY DEF ReplacedLabel
<1>5. \A k \in KeysOf(nd) : ~ Between(k, u, v)
  OBVIOUS
<1> HIDE DEF M
<1>6. MaxKey \in Nat /\ v \in 1 .. MaxKey /\ u \in 1 .. MaxKey /\ \A k \in KeysOf(nd) : k \in 1 .. MaxKey
  BY <1>3, BTreeAssumption DEF KeysOf, Keys
<1>7. \A e, f \in B : e < f => sub(e) < sub(f)
  <2> SUFFICES ASSUME NEW e \in B, NEW f \in B, e < f PROVE sub(e) < sub(f)
    OBVIOUS
  <2>1. e \in 0 .. MaxKey + 1 /\ f \in 0 .. MaxKey + 1
    BY <1>6
  <2>2. CASE e = u
    <3>1. f # 0 /\ f # u
      BY <1>6, <2>1, <2>2
    <3>2. CASE f = MaxKey + 1
      BY <1>6, <2>2, <3>1, <3>2
    <3>3. CASE f \in KeysOf(nd)
      <4>1. ~ (u < f /\ f < v) /\ f # v
        BY <1>5, <3>3 DEF Between
      <4> QED BY <1>6, <2>1, <2>2, <3>1, <4>1
    <3> QED BY <3>1, <3>2, <3>3
  <2>3. CASE f = u
    <3>1. e # MaxKey + 1 /\ e # u
      BY <1>6, <2>1, <2>3
    <3>2. CASE e = 0
      BY <1>6, <2>3, <3>1, <3>2
    <3>3. CASE e \in KeysOf(nd)
      <4>1. ~ (v < e /\ e < u) /\ e # v
        BY <1>5, <3>3 DEF Between
      <4> QED BY <1>6, <2>1, <2>3, <3>1, <4>1
    <3> QED BY <3>1, <3>2, <3>3
  <2>4. CASE e # u /\ f # u
    BY <2>4
  <2> QED BY <2>2, <2>3, <2>4
<1>8. \A x \in Bids : /\ od[x] # None <=> nd[x] # None
                      /\ od[x] # None => od[x].kids = nd[x].kids /\ Len(od[x].keys) = Len(nd[x].keys)
  BY <1>1
<1>9. ASSUME NEW x \in Bids, nd[x] # None, NEW j \in 0 .. Len(nd[x].keys) + 1
      PROVE  SepOf(nd, L, x, j) \in B /\ SepOf(od, M, x, j) = sub(SepOf(nd, L, x, j))
  <2> DEFINE l == Len(nd[x].keys)
  <2>0. Len(nd[x].keys) = l /\ Len(od[x].keys) = l /\ l \in Nat
    BY <1>8, <1>9, TreeNode
  <2> HIDE DEF l
  <2>1. /\ SepOf(nd, L, x, 0) = L.lo[x] /\ SepOf(nd, L, x, l + 1) = L.hi[x]
        /\ \A g \in 1 .. l : SepOf(nd, L, x, g) = nd[x].keys[g]
    BY ONLY <2>0 DEF SepOf, Sep
  <2>2. /\ SepOf(od, M, x, 0) = M.lo[x] /\ SepOf(od, M, x, l + 1) = M.hi[x]
        /\ \A g \in 1 .. l : SepOf(od, M, x, g) = od[x].keys[g]
    BY ONLY <2>0 DEF SepOf, Sep
  <2>3. L.lo[x] \in B /\ L.hi[x] \in B
    BY <1>9, BoundsAreKeys
  <2>4. CASE j = 0
    BY <1>4, <2>1, <2>2, <2>3, <2>4
  <2>5. CASE j = l + 1
    BY <1>4, <2>1, <2>2, <2>3, <2>5
  <2>6. CASE j \in 1 .. l
    <3>1. Has(nd, x, nd[x].keys[j])
      BY <1>9, <2>0, <2>6 DEF Has
    <3>2. nd[x].keys[j] \in KeysOf(nd)
      BY <3>1, KeyBounds
    <3>3. od[x].keys[j] = sub(nd[x].keys[j])
      <4>1. CASE x = a
        <5>1. \A g \in 1 .. Len(nd[a].keys) : nd[a].keys[g] = nd[a].keys[i] => g = i
          BY <1>1, KeyPlace
        <5> QED BY <1>1, <2>0, <2>6, <4>1, <5>1
      <4>2. CASE x # a
        <5>1. nd[x].keys[j] # u
          BY <1>2, <3>1, <4>2, KeyOnce
        <5> QED BY <1>1, <4>2, <5>1
      <4> QED BY <4>1, <4>2
    <3> QED BY <2>1, <2>2, <2>6, <3>2, <3>3
  <2> QED BY <1>9, <2>0, <2>4, <2>5, <2>6
<1> HIDE DEF sub
<1>10. \A e \in 0 .. MaxKey + 1 : sub(e) \in 0 .. MaxKey + 1
  BY <1>6 DEF sub
<1>11. ASSUME NEW x \in Bids, od[x] # None
       PROVE  /\ od[x] \in Node /\ IsLabel(M, x) /\ IsShaped(od, M, x)
              /\ \A j \in DOMAIN od[x].kids : IsChild(od, r, M, x, j)
              /\ x # r => HasParent(od, M, x)
  <2>1. nd[x] # None /\ od[x].kids = nd[x].kids /\ Len(od[x].keys) = Len(nd[x].keys)
    BY <1>8, <1>11
  <2>2. /\ nd[x] \in Node /\ IsLabel(L, x) /\ IsShaped(nd, L, x)
        /\ DOMAIN nd[x].kids = 1 .. Len(nd[x].kids) /\ Len(nd[x].keys) \in Nat
        /\ x # r => HasParent(nd, L, x)
    BY <2>1, TreeNode
  <2>3. od[x] \in Node
    BY <1>1, <2>2
  <2>4. IsLabel(M, x)
    BY <1>4, <1>10, <2>2 DEF IsLabel
  <2>5. IsShaped(od, M, x)
    <3>1. \A j, k \in 0 .. Len(nd[x].keys) + 1 : j < k => SepOf(nd, L, x, j) < SepOf(nd, L, x, k)
      BY <2>2 DEF IsShaped
    <3>2. \A j, k \in 0 .. Len(nd[x].keys) + 1 : j < k => SepOf(od, M, x, j) < SepOf(od, M, x, k)
      <4> SUFFICES ASSUME NEW j \in 0 .. Len(nd[x].keys) + 1, NEW k \in 0 .. Len(nd[x].keys) + 1, j < k
                   PROVE  SepOf(od, M, x, j) < SepOf(od, M, x, k)
        OBVIOUS
      <4>1. SepOf(nd, L, x, j) < SepOf(nd, L, x, k)
        BY <3>1
      <4>2. SepOf(nd, L, x, j) \in B /\ SepOf(od, M, x, j) = sub(SepOf(nd, L, x, j))
        BY <1>9, <2>1
      <4>3. SepOf(nd, L, x, k) \in B /\ SepOf(od, M, x, k) = sub(SepOf(nd, L, x, k))
        BY <1>9, <2>1
      <4> HIDE DEF B
      <4> QED BY ONLY <1>7, <4>1, <4>2, <4>3
    <3> QED BY <1>4, <2>1, <2>2, <3>2 DEF IsShaped
  <2>6. ASSUME NEW j \in DOMAIN od[x].kids PROVE IsChild(od, r, M, x, j)
    <3> DEFINE d == nd[x].kids[j]
    <3>0. j \in 1 .. Len(nd[x].kids)
      BY <2>1, <2>2
    <3>1. /\ d \in Bids /\ nd[d] # None /\ d # r
          /\ L.h[x] = L.h[d] + 1 /\ L.parent[d] = x /\ L.place[d] = j
          /\ L.lo[d] = SepOf(nd, L, x, j - 1) /\ L.hi[d] = SepOf(nd, L, x, j)
          /\ Len(nd[x].kids) = Len(nd[x].keys) + 1
      BY <2>1, <3>0, TreeChild
    <3>2. od[x].kids[j] = d
      BY <2>1
    <3> HIDE DEF d
    <3>3. j - 1 \in 0 .. Len(nd[x].keys) + 1 /\ j \in 0 .. Len(nd[x].keys) + 1
      BY <2>2, <3>0, <3>1
    <3>4. M.lo[d] = SepOf(od, M, x, j - 1) /\ M.hi[d] = SepOf(od, M, x, j)
      <4>1. SepOf(od, M, x, j - 1) = sub(SepOf(nd, L, x, j - 1))
        BY <1>9, <2>1, <3>3
      <4>2. SepOf(od, M, x, j) = sub(SepOf(nd, L, x, j))
        BY <1>9, <2>1, <3>3
      <4> QED BY <1>4, <3>1, <4>1, <4>2
    <3> QED BY <1>4, <1>8, <3>1, <3>2, <3>4 DEF IsChild
  <2>7. ASSUME x # r PROVE HasParent(od, M, x)
    <3>1. HasParent(nd, L, x)
      BY <2>2, <2>7
    <3> QED BY <1>4, <1>8, <3>1 DEF HasParent
  <2> QED BY <2>3, <2>4, <2>5, <2>6, <2>7
<1>12. r \in Bids /\ od[r] # None /\ M.lo[r] = 0 /\ M.hi[r] = MaxKey + 1
  <2>1. r \in Bids /\ nd[r] # None /\ L.lo[r] = 0 /\ L.hi[r] = MaxKey + 1
    BY <1>1, TreeNode
  <2>2. sub(0) = 0 /\ sub(MaxKey + 1) = MaxKey + 1
    BY <1>6 DEF sub
  <2> QED BY <1>4, <1>8, <2>1, <2>2
<1>13. IsTree(od, r, M)
  BY <1>11, <1>12 DEF IsTree
<1> QED BY <1>13 DEF M

\* Without nodes there are no keys.
LEMMA NoNodes ==
  ASSUME NEW nd, \A x \in Bids : nd[x] = None
  PROVE  KeysOf(nd) = {} /\ \A r, L : IsTree(nd, r, L)
BY DEF KeysOf, Has, IsTree

FirstLabel ==
  [h |-> [x \in Bids |-> 0], lo |-> [x \in Bids |-> 0], hi |-> [x \in Bids |-> MaxKey + 1],
   parent |-> [x \in Bids |-> 0], place |-> [x \in Bids |-> 0]]

\* One leaf of one key is a search tree.
LEMMA FirstNode ==
  ASSUME NEW jd, NEW s \in Bids, NEW k \in Keys, jd[s] = [keys |-> <<k>>, kids |-> <<>>],
         \A x \in Bids \ {s} : jd[x] = None
  PROVE  IsTree(jd, s, FirstLabel) /\ KeysOf(jd) = {k} /\ jd[s] \in Node /\ FirstLabel.h[s] = 0
<1> DEFINE L == FirstLabel
<1>1. L.h[s] = 0 /\ L.lo[s] = 0 /\ L.hi[s] = MaxKey + 1
  BY DEF FirstLabel
<1> HIDE DEF L
<1>2. /\ jd[s] \in Node /\ Len(jd[s].keys) = 1 /\ Len(jd[s].kids) = 0 /\ jd[s].keys[1] = k
      /\ DOMAIN jd[s].kids = {}
  <2>1. jd[s] \in Node
    BY DEF Node
  <2> QED BY <2>1
<1>3. jd[s] # None
  BY <1>2, NodeFacts
<1>4. MaxKey \in Nat /\ k \in 1 .. MaxKey
  BY BTreeAssumption DEF Keys
<1>5. SepOf(jd, L, s, 0) = 0 /\ SepOf(jd, L, s, 1) = k /\ SepOf(jd, L, s, 2) = MaxKey + 1
  BY <1>1, <1>2 DEF SepOf, Sep
<1>6. IsLabel(L, s) /\ IsShaped(jd, L, s)
  <2>1. IsLabel(L, s)
    BY <1>1, <1>4 DEF IsLabel
  <2>2. \A i, j \in 0 .. 2 : i < j => SepOf(jd, L, s, i) < SepOf(jd, L, s, j)
    <3>1. \A j \in 0 .. 2 : j = 0 \/ j = 1 \/ j = 2
      OBVIOUS
    <3> QED BY <1>4, <1>5, <3>1
  <2> QED BY <1>1, <1>2, <2>1, <2>2 DEF IsShaped
<1>7. IsTree(jd, s, L)
  BY <1>1, <1>2, <1>3, <1>6 DEF IsTree
<1>8. KeysOf(jd) = {k}
  <2>1. \A e : Has(jd, s, e) <=> e = k
    BY <1>2, <1>3 DEF Has
  <2>2. \A x \in Bids \ {s} : \A e : ~ Has(jd, x, e)
    BY DEF Has
  <2> QED BY <2>1, <2>2 DEF KeysOf
<1> QED BY <1>1, <1>2, <1>7, <1>8 DEF L

(***************************************************************************)
(* What a walk does to the nodes around it.                                *)
(***************************************************************************)
TreeOK(nd, r, L, last) ==
  /\ IsTree(nd, r, L) /\ DOMAIN nd = Bids /\ IsFilled(nd, r)
  /\ \A x \in Bids : x > last => nd[x] = None

\* What the filling of a tree says of a node.
LEMMA Filled ==
  ASSUME NEW nd, NEW r, NEW L, NEW last, TreeOK(nd, r, L, last), NEW x \in Bids, nd[x] # None
  PROVE  /\ IsTree(nd, r, L) /\ LeavesHaveKeys(nd) /\ T \in Nat /\ T > 1
         /\ Len(nd[x].keys) \in Nat /\ Len(nd[x].keys) <= 2 * T - 1
         /\ x # r => Len(nd[x].keys) >= T - 1
         /\ nd[x] \in Node /\ r \in Bids /\ nd[r] # None
<1>1. Len(nd[x].keys) \in Nat /\ nd[x] \in Node /\ r \in Bids /\ nd[r] # None
  BY TreeNode DEF TreeOK
<1> QED BY <1>1, BTreeAssumption DEF TreeOK, IsFilled, LeavesHaveKeys

\* Two children side by side.
Pair(nd, r, L, p, i, c, s) ==
  /\ c \in Bids /\ s \in Bids /\ nd[c] # None /\ nd[s] # None
  /\ nd[p] \in Node /\ nd[c] \in Node /\ nd[s] \in Node
  /\ p # c /\ p # s /\ c # s /\ c # r /\ s # r
  /\ i \in Nat /\ i + 1 \in 1 .. Len(nd[p].kids) /\ i \in 1 .. Len(nd[p].kids)
  /\ Len(nd[p].kids) = Len(nd[p].keys) + 1 /\ Len(nd[p].keys) \in Nat
  /\ \/ Len(nd[c].kids) = 0 /\ Len(nd[s].kids) = 0
     \/ Len(nd[c].kids) = Len(nd[c].keys) + 1 /\ Len(nd[s].kids) = Len(nd[s].keys) + 1
  /\ L.hi[c] = nd[p].keys[i] /\ L.lo[s] = nd[p].keys[i] /\ nd[p].keys[i] \in Int
  /\ L.lo[c] < L.hi[c] /\ L.lo[s] < L.hi[s]
  /\ L.lo[c] \in Int /\ L.hi[c] \in Int /\ L.lo[s] \in Int /\ L.hi[s] \in Int
  /\ L.h[c] = L.h[s] /\ L.h[p] = L.h[c] + 1 /\ L.h[c] \in Nat

\* Children at i and i + 1 are side by side.
LEMMA PairAt ==
  ASSUME NEW nd, NEW r, NEW L, IsTree(nd, r, L), NEW p \in Bids, nd[p] # None, L.h[p] # 0,
         NEW i \in 1 .. Len(nd[p].keys), NEW c, NEW s, c = nd[p].kids[i], s = nd[p].kids[i + 1]
  PROVE  Pair(nd, r, L, p, i, c, s)
<1> DEFINE e == i + 1
<1>1. /\ Len(nd[p].kids) = Len(nd[p].keys) + 1 /\ Len(nd[p].keys) \in Nat /\ nd[p] \in Node
  BY TreeNode DEF IsShaped
<1>2. e \in 1 .. Len(nd[p].kids) /\ i \in 1 .. Len(nd[p].kids) /\ e - 1 = i /\ i \in Nat /\ e # i
  BY <1>1
<1>20. e = i + 1 /\ c = nd[p].kids[i] /\ s = nd[p].kids[e]
  OBVIOUS
<1> HIDE DEF e
<1>3. /\ c \in Bids /\ nd[c] # None /\ c # r /\ c # p /\ L.h[p] = L.h[c] + 1
      /\ L.place[c] = i /\ L.hi[c] = SepOf(nd, L, p, i)
  BY <1>2, <1>20, TreeChild
<1>4. /\ s \in Bids /\ nd[s] # None /\ s # r /\ s # p /\ L.h[p] = L.h[s] + 1
      /\ L.place[s] = e /\ L.lo[s] = SepOf(nd, L, p, e - 1)
  BY <1>2, <1>20, TreeChild
<1>5. c # s
  BY <1>2, <1>3, <1>4
<1>6. SepOf(nd, L, p, i) = nd[p].keys[i] /\ nd[p].keys[i] \in Int
  BY <1>1, Order, KeyPlace
<1>7. /\ nd[c] \in Node /\ IsShaped(nd, L, c) /\ L.h[c] \in Nat /\ L.lo[c] < L.hi[c]
      /\ L.lo[c] \in Int /\ L.hi[c] \in Int
  BY <1>3, TreeNode, Order
<1>8. /\ nd[s] \in Node /\ IsShaped(nd, L, s) /\ L.h[s] \in Nat /\ L.lo[s] < L.hi[s]
      /\ L.lo[s] \in Int /\ L.hi[s] \in Int
  BY <1>4, TreeNode, Order
<1>9. L.h[c] = L.h[s]
  BY ONLY <1>3, <1>4, <1>7, <1>8
<1>10. \/ Len(nd[c].kids) = 0 /\ Len(nd[s].kids) = 0
       \/ Len(nd[c].kids) = Len(nd[c].keys) + 1 /\ Len(nd[s].kids) = Len(nd[s].keys) + 1
  BY <1>7, <1>8, <1>9 DEF IsShaped
<1> QED BY <1>1, <1>2, <1>20, <1>3, <1>4, <1>5, <1>6, <1>7, <1>8, <1>9, <1>10 DEF e, Pair

\* Merging the i-th child c of p and the next one, s, when both are at the minimum.
LEMMA MergeStep ==
  ASSUME NEW nd, NEW r, NEW L, NEW last, TreeOK(nd, r, L, last), NEW p \in Bids, nd[p] # None,
         L.h[p] # 0, NEW i \in 1 .. Len(nd[p].keys), NEW c, NEW s,
         c = nd[p].kids[i], s = nd[p].kids[i + 1],
         Len(nd[c].keys) = T - 1, Len(nd[s].keys) = T - 1,
         p # r => Len(nd[p].keys) >= T
  PROVE  LET jd == MergeAt(nd, p, i)
             M == JoinedLabel(L, p, i, c, s, Len(nd[c].keys))
         IN  /\ Joins(nd, jd, p, i, c, s)
             /\ TreeOK(jd, r, M, last) /\ KeysOf(jd) = KeysOf(nd)
             /\ M.h = L.h /\ M.lo[c] = L.lo[c] /\ M.hi[c] = L.hi[s]
             /\ Len(jd[c].keys) = 2 * T - 1 /\ jd[c] # None /\ jd[s] = None /\ jd[p] # None
             /\ \A x \in Bids \ {p, c, s} : jd[x] = nd[x]
             /\ Len(jd[p].keys) = Len(nd[p].keys) - 1
<1> DEFINE jd == MergeAt(nd, p, i)
           M == JoinedLabel(L, p, i, c, s, Len(nd[c].keys))
<1>1. IsTree(nd, r, L) /\ DOMAIN nd = Bids /\ IsFilled(nd, r) /\ \A x \in Bids : x > last => nd[x] = None
  BY DEF TreeOK
<1>15. Pair(nd, r, L, p, i, c, s)
  BY ONLY <1>1, p \in Bids, nd[p] # None, L.h[p] # 0, i \in 1 .. Len(nd[p].keys),
     c = nd[p].kids[i], s = nd[p].kids[i + 1], PairAt
<1>2. /\ c \in Bids /\ s \in Bids /\ nd[c] # None /\ nd[s] # None
      /\ nd[p] \in Node /\ nd[c] \in Node /\ nd[s] \in Node
      /\ p # c /\ p # s /\ c # s /\ c # r /\ s # r /\ i \in Nat
      /\ Len(nd[p].kids) = Len(nd[p].keys) + 1 /\ Len(nd[p].keys) \in Nat
      /\ \/ Len(nd[c].kids) = 0 /\ Len(nd[s].kids) = 0
         \/ Len(nd[c].kids) = Len(nd[c].keys) + 1 /\ Len(nd[s].kids) = Len(nd[s].keys) + 1
  BY <1>15 DEF Pair
<1>3. Joins(nd, jd, p, i, c, s) /\ DOMAIN jd = Bids
  BY <1>1, <1>2, MergeJoins
<1> HIDE DEF jd
<1>4. IsTree(jd, r, M)
  BY <1>1, <1>2, <1>3, MergeTree
<1>5. KeysOf(jd) = KeysOf(nd)
  BY <1>2, <1>3, JoinsKeys
<1>6. M.h = L.h /\ M.lo[c] = L.lo[c] /\ M.hi[c] = L.hi[s]
  BY <1>2 DEF JoinedLabel
<1> HIDE DEF M
<1>7. /\ jd[p] \in Node /\ jd[c] \in Node /\ jd[s] = None
      /\ Len(jd[c].keys) = Len(nd[c].keys) + Len(nd[s].keys) + 1
      /\ Len(nd[p].keys) = Len(jd[p].keys) + 1 /\ Len(jd[p].kids) = Len(jd[p].keys) + 1
      /\ \A x \in Bids \ {p, c, s} : jd[x] = nd[x]
  BY <1>3, Zenon DEF Joins
<1>8. T \in Nat /\ T > 1 /\ Len(nd[p].keys) <= 2 * T - 1 /\ jd[p] # None /\ jd[c] # None
      /\ Len(jd[p].keys) \in Nat /\ Len(jd[c].keys) \in Nat
  BY <1>1, <1>7, BTreeAssumption, NodeFacts DEF IsFilled
<1>9. Len(jd[c].keys) = 2 * T - 1 /\ Len(jd[p].keys) = Len(nd[p].keys) - 1
  BY <1>2, <1>7, <1>8
<1>10. IsFilled(jd, r)
  <2> SUFFICES ASSUME NEW x \in Bids, jd[x] # None
               PROVE  /\ Len(jd[x].keys) <= 2 * T - 1
                      /\ x # r => Len(jd[x].keys) >= T - 1
                      /\ jd[x].kids = <<>> => jd[x].keys # <<>>
    BY DEF IsFilled
  <2>1. CASE x = p
    <3>1. jd[p].kids # <<>>
      <4>1. Len(jd[p].kids) # 0
        BY <1>7, <1>8
      <4> QED BY <4>1
    <3> QED BY <1>2, <1>8, <1>9, <2>1, <3>1
  <2>2. CASE x = c
    <3>1. jd[c].keys # <<>>
      <4>1. Len(jd[c].keys) # 0
        BY <1>8, <1>9
      <4> QED BY <4>1
    <3> QED BY <1>8, <1>9, <2>2, <3>1
  <2>3. CASE x \notin {p, c, s}
    BY <1>1, <1>7, <2>3 DEF IsFilled
  <2> QED BY <1>7, <2>1, <2>2, <2>3
<1>11. \A x \in Bids : x > last => jd[x] = None
  BY <1>1, <1>2, <1>7
<1>12. TreeOK(jd, r, M, last)
  BY <1>3, <1>4, <1>10, <1>11, SMTT(40) DEF TreeOK
<1> QED BY <1>3, <1>5, <1>6, <1>7, <1>8, <1>9, <1>12 DEF jd, M

\* A deletion of k goes from p to its child c, once c has a key to spare.
Fills(nd, od, r, L, last, p, c, k) ==
  /\ KeysOf(od) = KeysOf(nd)
  /\ \E N : /\ TreeOK(od, r, N, last) /\ Within(N, c, k)
            /\ \A x \in Bids : N.h[x] = L.h[x]
  /\ c \in Bids /\ c # r /\ od[c] # None /\ Len(od[c].keys) >= T /\ L.h[p] = L.h[c] + 1
  /\ \A x \in Bids : L.h[x] > L.h[p] => od[x] = nd[x]

\* The children a and b of p share their keys and the i-th of p in another way.
Shared(nd, od, r, L, last, p, i, a, b) ==
  /\ KeysOf(od) = KeysOf(nd)
  /\ \E N : /\ TreeOK(od, r, N, last)
            /\ \A x \in Bids : N.h[x] = L.h[x]
            /\ N.lo[a] = L.lo[a] /\ N.hi[a] = od[p].keys[i]
            /\ N.lo[b] = od[p].keys[i] /\ N.hi[b] = L.hi[b]
  /\ od[p] # None /\ od[a] # None /\ od[b] # None
  /\ \A x \in Bids \ {p, a, b} : od[x] = nd[x]
  /\ Len(od[p].keys) = Len(nd[p].keys)

\* Any redistribution of what two children a, b of p join to.
LEMMA ShareStep ==
  ASSUME NEW nd, NEW od, NEW r, NEW L, NEW last, TreeOK(nd, r, L, last), NEW p \in Bids, nd[p] # None,
         L.h[p] # 0, NEW i \in 1 .. Len(nd[p].keys), NEW a, NEW b,
         a = nd[p].kids[i], b = nd[p].kids[i + 1],
         NEW jd, jd = MergeAt(nd, p, i), Joins(od, jd, p, i, a, b), DOMAIN od = Bids,
         Len(od[a].keys) \in T - 1 .. 2 * T - 1, Len(od[b].keys) \in T - 1 .. 2 * T - 1
  PROVE  Shared(nd, od, r, L, last, p, i, a, b)
<1> DEFINE M == JoinedLabel(L, p, i, a, b, Len(nd[a].keys))
           N == SplitLabel(M, p, i, a, b, Len(od[a].keys), od[p].keys[i])
<1>1. IsTree(nd, r, L) /\ DOMAIN nd = Bids /\ IsFilled(nd, r) /\ \A x \in Bids : x > last => nd[x] = None
  BY DEF TreeOK
<1>21. Pair(nd, r, L, p, i, a, b)
  BY ONLY <1>1, p \in Bids, nd[p] # None, L.h[p] # 0, i \in 1 .. Len(nd[p].keys),
     a = nd[p].kids[i], b = nd[p].kids[i + 1], PairAt
<1>2. /\ a \in Bids /\ b \in Bids /\ nd[a] # None /\ nd[b] # None
      /\ nd[p] \in Node /\ nd[a] \in Node /\ nd[b] \in Node
      /\ p # a /\ p # b /\ a # b /\ a # r /\ b # r /\ i \in Nat
      /\ Len(nd[p].kids) = Len(nd[p].keys) + 1 /\ Len(nd[p].keys) \in Nat
      /\ \/ Len(nd[a].kids) = 0 /\ Len(nd[b].kids) = 0
         \/ Len(nd[a].kids) = Len(nd[a].keys) + 1 /\ Len(nd[b].kids) = Len(nd[b].keys) + 1
      /\ L.h[a] = L.h[b]
  BY <1>21 DEF Pair
<1>3. Joins(nd, jd, p, i, a, b)
  BY <1>1, <1>2, MergeJoins
<1>4. IsTree(jd, r, M)
  BY <1>1, <1>2, <1>3, MergeTree
<1> HIDE DEF M
<1>5. IsTree(od, r, N)
  BY <1>2, <1>4, SplitTree
<1>6. KeysOf(jd) = KeysOf(nd) /\ KeysOf(jd) = KeysOf(od)
  BY <1>2, <1>3, JoinsKeys
<1>7. /\ M.h = L.h /\ M.lo = L.lo
      /\ \A x \in Bids : M.hi[x] = IF x = a THEN L.hi[b] ELSE L.hi[x]
  BY SMTT(40) DEF JoinedLabel, M
<1>8. /\ \A x \in Bids : N.h[x] = IF x = b THEN M.h[a] ELSE M.h[x]
      /\ N.lo[a] = M.lo[a] /\ N.lo[b] = od[p].keys[i]
      /\ N.hi[a] = od[p].keys[i] /\ N.hi[b] = M.hi[a]
  BY <1>2 DEF SplitLabel
<1> HIDE DEF N
<1>9. /\ \A x \in Bids : N.h[x] = L.h[x]
      /\ N.lo[a] = L.lo[a] /\ N.hi[a] = od[p].keys[i]
      /\ N.lo[b] = od[p].keys[i] /\ N.hi[b] = L.hi[b]
  BY <1>2, <1>7, <1>8
<1>10. /\ od[p] \in Node /\ od[a] \in Node /\ od[b] \in Node
       /\ \A x \in Bids \ {p, a, b} : od[x] = nd[x]
       /\ Len(od[p].keys) = Len(nd[p].keys) /\ Len(od[p].kids) = Len(nd[p].kids)
  BY <1>3, ZenonT(30) DEF Joins
<1>11. od[p] # None /\ od[a] # None /\ od[b] # None
  BY <1>10, NodeFacts
<1>12. T \in Nat /\ T > 1
  BY BTreeAssumption
<1>13. IsFilled(od, r)
  <2> SUFFICES ASSUME NEW x \in Bids, od[x] # None
               PROVE  /\ Len(od[x].keys) <= 2 * T - 1
                      /\ x # r => Len(od[x].keys) >= T - 1
                      /\ od[x].kids = <<>> => od[x].keys # <<>>
    BY DEF IsFilled
  <2>1. CASE x = p
    <3>1. od[p].kids # <<>>
      <4>1. Len(od[p].kids) # 0
        BY <1>2, <1>10
      <4> QED BY <4>1
    <3>2. Len(nd[p].keys) <= 2 * T - 1 /\ (p # r => Len(nd[p].keys) >= T - 1)
      BY <1>1 DEF IsFilled
    <3> QED BY <1>10, <2>1, <3>1, <3>2
  <2>2. CASE x \in {a, b}
    <3>1. Len(od[x].keys) \in T - 1 .. 2 * T - 1
      BY <2>2
    <3>2. od[x].keys # <<>>
      <4>1. Len(od[x].keys) # 0
        BY <1>12, <3>1
      <4> QED BY <4>1
    <3> QED BY <1>12, <3>1, <3>2
  <2>3. CASE x \notin {p, a, b}
    BY <1>1, <1>10, <2>3 DEF IsFilled
  <2> QED BY <2>1, <2>2, <2>3
<1>14. \A x \in Bids : x > last => od[x] = None
  BY <1>1, <1>2, <1>10
<1>15. TreeOK(od, r, N, last)
  BY <1>5, <1>13, <1>14 DEF TreeOK
<1> QED BY <1>6, <1>9, <1>10, <1>11, <1>15 DEF Shared

\* As BorrowPrevJoins, by the position g of the sibling.
LEMMA BorrowPrevOf ==
  ASSUME NEW nodes, NEW jd, NEW p \in Bids, NEW c \in Bids, NEW s \in Bids, NEW i \in Nat, NEW g,
         g = i - 1, DOMAIN nodes = Bids, Joins(nodes, jd, p, g, s, c), nodes[p].kids[i] = c,
         Len(nodes[s].keys) > 0, NEW od, od = BorrowFromPrev(nodes, p, i)
  PROVE  Joins(od, jd, p, g, s, c) /\ KeyGiven(nodes, od, c, s)
<1>0. Joins(nodes, jd, p, i - 1, s, c)
  OBVIOUS
<1>1. Joins(od, jd, p, i - 1, s, c) /\ KeyGiven(nodes, od, c, s)
  BY <1>0, BorrowPrevJoins
<1> QED BY <1>1

\* The child c after s takes the last key of s.
LEMMA PrevFills ==
  ASSUME NEW nd, NEW r, NEW L, NEW last, TreeOK(nd, r, L, last), NEW p \in Bids, nd[p] # None,
         L.h[p] # 0, NEW q \in 1 .. Len(nd[p].keys), NEW i, i = q + 1, NEW c, NEW s,
         s = nd[p].kids[q], c = nd[p].kids[q + 1],
         Len(nd[c].keys) = T - 1, Len(nd[s].keys) >= T,
         NEW k \in Int, Within(L, c, k), NEW od, od = BorrowFromPrev(nd, p, i)
  PROVE  Fills(nd, od, r, L, last, p, c, k)
<1> DEFINE jd == MergeAt(nd, p, q)
           n == Len(nd[s].keys)
<1>1. IsTree(nd, r, L) /\ DOMAIN nd = Bids
  BY DEF TreeOK
<1>15. Pair(nd, r, L, p, q, s, c)
  BY ONLY <1>1, p \in Bids, nd[p] # None, L.h[p] # 0, q \in 1 .. Len(nd[p].keys),
     s = nd[p].kids[q], c = nd[p].kids[q + 1], PairAt
<1>2. /\ c \in Bids /\ s \in Bids /\ nd[c] # None /\ nd[s] # None
      /\ nd[p] \in Node /\ nd[c] \in Node /\ nd[s] \in Node
      /\ p # c /\ p # s /\ c # s /\ q \in Nat
      /\ Len(nd[p].kids) = Len(nd[p].keys) + 1 /\ Len(nd[p].keys) \in Nat
      /\ \/ Len(nd[s].kids) = 0 /\ Len(nd[c].kids) = 0
         \/ Len(nd[s].kids) = Len(nd[s].keys) + 1 /\ Len(nd[c].kids) = Len(nd[c].keys) + 1
      /\ L.hi[s] = nd[p].keys[q] /\ L.lo[c] = nd[p].keys[q]
      /\ L.h[c] = L.h[s] /\ L.h[p] = L.h[c] + 1 /\ L.h[c] \in Nat /\ c # r /\ L.lo[c] \in Int /\ L.hi[c] \in Int
  BY <1>15 DEF Pair
<1>3. Joins(nd, jd, p, q, s, c)
  BY <1>1, <1>2, MergeJoins
<1>4. T \in Nat /\ T > 1 /\ n \in Nat /\ n <= 2 * T - 1 /\ n >= T
  BY <1>2, Filled
<1>41. jd = MergeAt(nd, p, q)
  OBVIOUS
<1> HIDE DEF jd
<1>42. q = i - 1 /\ i \in Nat /\ nd[p].kids[i] = c /\ Len(nd[s].keys) > 0
  BY <1>2, <1>4
<1>43. Joins(od, jd, p, q, s, c) /\ KeyGiven(nd, od, c, s)
  BY ONLY <1>1, <1>2, <1>3, <1>41, <1>42, p \in Bids, od = BorrowFromPrev(nd, p, i), BorrowPrevOf
<1>5. /\ Joins(od, jd, p, q, s, c) /\ DOMAIN od = Bids
      /\ Len(od[c].keys) = T /\ Len(od[s].keys) = n - 1
  BY <1>4, <1>43 DEF KeyGiven
<1> HIDE DEF n
<1>6. Len(od[s].keys) \in T - 1 .. 2 * T - 1 /\ Len(od[c].keys) \in T - 1 .. 2 * T - 1
  BY <1>4, <1>5
<1>7. Shared(nd, od, r, L, last, p, q, s, c)
  BY ONLY TreeOK(nd, r, L, last), p \in Bids, nd[p] # None, L.h[p] # 0, q \in 1 .. Len(nd[p].keys),
     s = nd[p].kids[q], c = nd[p].kids[q + 1], <1>41, <1>5, <1>6, ShareStep, ZenonT(30)
<1>8. od[p].keys[q] = nd[s].keys[n]
  <2>1. jd[s].keys[Len(od[s].keys) + 1] = od[p].keys[q]
    BY <1>5, Zenon DEF Joins
  <2>2. \A j \in 1 .. n : jd[s].keys[j] = nd[s].keys[j]
    BY <1>3, Zenon DEF Joins, n
  <2>3. n \in 1 .. n /\ Len(od[s].keys) + 1 = n
    BY ONLY <1>4, <1>5
  <2> QED BY <2>1, <2>2, <2>3, Zenon
<1>9. nd[s].keys[n] < L.lo[c] /\ nd[s].keys[n] \in Int
  <2>1. Has(nd, s, nd[s].keys[n])
    <3>1. n \in 1 .. n
      BY <1>4
    <3> QED BY <1>2, <3>1 DEF Has, n
  <2>2. Within(L, s, nd[s].keys[n]) /\ nd[s].keys[n] \in Int
    BY <1>1, <1>2, <2>1, KeyBounds
  <2> QED BY <1>2, <2>2, SMTT(40) DEF Within
<1> HIDE DEF n
<1>10. Len(od[c].keys) >= T
  BY ONLY <1>4, <1>5
<1>11. PICK N : /\ TreeOK(od, r, N, last)
                /\ \A x \in Bids : N.h[x] = L.h[x]
                /\ N.lo[s] = L.lo[s] /\ N.hi[s] = od[p].keys[q]
                /\ N.lo[c] = od[p].keys[q] /\ N.hi[c] = L.hi[c]
  BY <1>7 DEF Shared
<1>12. /\ KeysOf(od) = KeysOf(nd) /\ od[c] # None
      /\ \A x \in Bids \ {p, c, s} : od[x] = nd[x]
  BY <1>7 DEF Shared
<1>13. Within(N, c, k)
  <2>1. N.lo[c] < L.lo[c] /\ N.hi[c] = L.hi[c] /\ N.lo[c] \in Int
    BY <1>8, <1>9, <1>11
  <2>2. L.lo[c] < k /\ k < L.hi[c]
    BY DEF Within
  <2>3. N.lo[c] < k
    BY ONLY <1>2, <2>1, <2>2, k \in Int
  <2> QED BY ONLY <2>1, <2>2, <2>3 DEF Within
<1>14. \A x \in Bids : L.h[x] > L.h[p] => od[x] = nd[x]
  <2> SUFFICES ASSUME NEW x \in Bids, L.h[x] > L.h[p]
               PROVE  x \notin {p, c, s}
    BY <1>12
  <2>1. L.h[c] = L.h[s] /\ L.h[p] = L.h[c] + 1 /\ L.h[c] \in Nat
    BY <1>2
  <2> DEFINE u == L.h[c]  v == L.h[p]
  <2>2. u < v /\ ~ (v > v) /\ ~ (u > v)
    <3>1. v = u + 1 /\ u \in Nat
      BY <2>1
    <3> HIDE DEF u, v
    <3> QED BY ONLY <3>1
  <2> QED BY ONLY <2>1, <2>2, L.h[x] > L.h[p]
<1> QED BY <1>2, <1>10, <1>11, <1>12, <1>13, <1>14 DEF Fills

\* The child c before s takes the first key of s.
LEMMA NextFills ==
  ASSUME NEW nd, NEW r, NEW L, NEW last, TreeOK(nd, r, L, last), NEW p \in Bids, nd[p] # None,
         L.h[p] # 0, NEW i \in 1 .. Len(nd[p].keys), NEW c, NEW s,
         c = nd[p].kids[i], s = nd[p].kids[i + 1],
         Len(nd[c].keys) = T - 1, Len(nd[s].keys) >= T,
         NEW k \in Int, Within(L, c, k), NEW od, od = BorrowFromNext(nd, p, i)
  PROVE  Fills(nd, od, r, L, last, p, c, k)
<1> DEFINE jd == MergeAt(nd, p, i)
           n == Len(nd[c].keys)
           m == Len(nd[s].keys)
<1>1. IsTree(nd, r, L) /\ DOMAIN nd = Bids
  BY DEF TreeOK
<1>15. Pair(nd, r, L, p, i, c, s)
  BY ONLY <1>1, p \in Bids, nd[p] # None, L.h[p] # 0, i \in 1 .. Len(nd[p].keys),
     c = nd[p].kids[i], s = nd[p].kids[i + 1], PairAt
<1>2. /\ c \in Bids /\ s \in Bids /\ nd[c] # None /\ nd[s] # None
      /\ nd[p] \in Node /\ nd[c] \in Node /\ nd[s] \in Node
      /\ p # c /\ p # s /\ c # s /\ i \in Nat
      /\ Len(nd[p].kids) = Len(nd[p].keys) + 1 /\ Len(nd[p].keys) \in Nat
      /\ \/ Len(nd[c].kids) = 0 /\ Len(nd[s].kids) = 0
         \/ Len(nd[c].kids) = Len(nd[c].keys) + 1 /\ Len(nd[s].kids) = Len(nd[s].keys) + 1
      /\ L.hi[c] = nd[p].keys[i] /\ L.lo[s] = nd[p].keys[i]
      /\ L.h[c] = L.h[s] /\ L.h[p] = L.h[c] + 1 /\ L.h[c] \in Nat /\ c # r /\ L.lo[c] \in Int /\ L.hi[c] \in Int
  BY <1>15 DEF Pair
<1>3. Joins(nd, jd, p, i, c, s)
  BY <1>1, <1>2, MergeJoins
<1>4. T \in Nat /\ T > 1 /\ m \in Nat /\ m <= 2 * T - 1 /\ m >= T /\ n = T - 1
  BY <1>2, Filled
<1>41. jd = MergeAt(nd, p, i)
  OBVIOUS
<1> HIDE DEF jd
<1>42. Len(nd[s].keys) > 0
  BY <1>4
<1>43. Joins(od, jd, p, i, c, s) /\ KeyGiven(nd, od, c, s)
  BY ONLY <1>1, <1>2, <1>3, <1>41, <1>42, p \in Bids, od = BorrowFromNext(nd, p, i), BorrowNextJoins
<1>5. /\ Joins(od, jd, p, i, c, s) /\ DOMAIN od = Bids
      /\ Len(od[c].keys) = n + 1 /\ Len(od[s].keys) = m - 1
  BY <1>4, <1>43 DEF KeyGiven
<1>6. Len(od[s].keys) \in T - 1 .. 2 * T - 1 /\ Len(od[c].keys) \in T - 1 .. 2 * T - 1
      /\ Len(od[c].keys) = T
  <2> HIDE DEF n, m
  <2> QED BY ONLY <1>4, <1>5
<1>7. Shared(nd, od, r, L, last, p, i, c, s)
  BY ONLY TreeOK(nd, r, L, last), p \in Bids, nd[p] # None, L.h[p] # 0, i \in 1 .. Len(nd[p].keys),
     c = nd[p].kids[i], s = nd[p].kids[i + 1], <1>41, <1>5, <1>6, ShareStep, Zenon
<1>8. od[p].keys[i] = nd[s].keys[1]
  <2>1. jd[c].keys[Len(od[c].keys) + 1] = od[p].keys[i]
    BY <1>5, Zenon DEF Joins
  <2>2. \A j \in 1 .. m : jd[c].keys[j + n + 1] = nd[s].keys[j]
    BY <1>3, Zenon DEF Joins
  <2> HIDE DEF n, m
  <2>3. 1 \in 1 .. m /\ Len(od[c].keys) + 1 = 1 + n + 1
    BY <1>4, <1>5, SMTT(40)
  <2> QED BY <2>1, <2>2, <2>3, Zenon
<1>9. L.hi[c] < nd[s].keys[1] /\ nd[s].keys[1] \in Int
  <2>1. Has(nd, s, nd[s].keys[1])
    <3>1. 1 \in 1 .. m
      BY <1>4
    <3> QED BY <1>2, <3>1 DEF Has
  <2>2. Within(L, s, nd[s].keys[1]) /\ nd[s].keys[1] \in Int
    BY <1>1, <1>2, <2>1, KeyBounds
  <2> QED BY <1>2, <2>2 DEF Within
<1> HIDE DEF n, m
<1>10. Len(od[c].keys) = T /\ L.hi[c] < od[p].keys[i] /\ od[p].keys[i] \in Int
  BY <1>6, <1>8, <1>9
<1>101. Len(od[c].keys) >= T
  BY ONLY <1>4, <1>10
<1>11. PICK N : /\ TreeOK(od, r, N, last)
                /\ \A x \in Bids : N.h[x] = L.h[x]
                /\ N.lo[c] = L.lo[c] /\ N.hi[c] = od[p].keys[i]
                /\ N.lo[s] = od[p].keys[i] /\ N.hi[s] = L.hi[s]
  BY <1>7 DEF Shared
<1>12. /\ KeysOf(od) = KeysOf(nd) /\ od[c] # None
      /\ \A x \in Bids \ {p, c, s} : od[x] = nd[x]
  BY <1>7 DEF Shared
<1>13. Within(N, c, k)
  <2>1. N.lo[c] = L.lo[c] /\ L.hi[c] < N.hi[c] /\ N.hi[c] \in Int
    BY <1>10, <1>11
  <2>2. L.lo[c] < k /\ k < L.hi[c]
    BY DEF Within
  <2>3. k < N.hi[c]
    BY ONLY <1>2, <2>1, <2>2, k \in Int
  <2> QED BY ONLY <2>1, <2>2, <2>3 DEF Within
<1>14. \A x \in Bids : L.h[x] > L.h[p] => od[x] = nd[x]
  <2> SUFFICES ASSUME NEW x \in Bids, L.h[x] > L.h[p]
               PROVE  x \notin {p, c, s}
    BY <1>12
  <2>1. L.h[c] = L.h[s] /\ L.h[p] = L.h[c] + 1 /\ L.h[c] \in Nat
    BY <1>2
  <2> DEFINE u == L.h[c]  v == L.h[p]
  <2>2. u < v /\ ~ (v > v) /\ ~ (u > v)
    <3>1. v = u + 1 /\ u \in Nat
      BY <2>1
    <3> HIDE DEF u, v
    <3> QED BY ONLY <3>1
  <2> QED BY ONLY <2>1, <2>2, L.h[x] > L.h[p]
<1> QED BY <1>2, <1>101, <1>11, <1>12, <1>13, <1>14 DEF Fills

\* The children c and s of p become one.
LEMMA MergeFills ==
  ASSUME NEW nd, NEW r, NEW L, NEW last, TreeOK(nd, r, L, last), NEW p \in Bids, nd[p] # None,
         L.h[p] # 0, NEW i \in 1 .. Len(nd[p].keys), NEW c, NEW s,
         c = nd[p].kids[i], s = nd[p].kids[i + 1],
         Len(nd[c].keys) = T - 1, Len(nd[s].keys) = T - 1, p # r => Len(nd[p].keys) >= T,
         NEW k \in Int, Within(L, c, k) \/ Within(L, s, k) \/ k = nd[p].keys[i],
         NEW od, od = MergeAt(nd, p, i)
  PROVE  Fills(nd, od, r, L, last, p, c, k)
<1> DEFINE M == JoinedLabel(L, p, i, c, s, Len(nd[c].keys))
<1>1. IsTree(nd, r, L) /\ DOMAIN nd = Bids
  BY DEF TreeOK
<1>15. Pair(nd, r, L, p, i, c, s)
  BY ONLY <1>1, p \in Bids, nd[p] # None, L.h[p] # 0, i \in 1 .. Len(nd[p].keys),
     c = nd[p].kids[i], s = nd[p].kids[i + 1], PairAt
<1>2. /\ c \in Bids /\ s \in Bids /\ c # r
      /\ L.hi[c] = nd[p].keys[i] /\ L.lo[s] = nd[p].keys[i] /\ nd[p].keys[i] \in Int
      /\ L.lo[c] < L.hi[c] /\ L.lo[s] < L.hi[s]
      /\ L.lo[c] \in Int /\ L.hi[c] \in Int /\ L.lo[s] \in Int /\ L.hi[s] \in Int
      /\ L.h[c] = L.h[s] /\ L.h[p] = L.h[c] + 1 /\ L.h[c] \in Nat
  BY <1>15 DEF Pair
<1>3. /\ TreeOK(od, r, M, last) /\ KeysOf(od) = KeysOf(nd)
      /\ M.h = L.h /\ M.lo[c] = L.lo[c] /\ M.hi[c] = L.hi[s]
      /\ Len(od[c].keys) = 2 * T - 1 /\ od[c] # None
      /\ \A x \in Bids \ {p, c, s} : od[x] = nd[x]
  BY MergeStep
<1> HIDE DEF M
<1>4. Within(M, c, k)
  <2> DEFINE v == nd[p].keys[i]
  <2>1. L.lo[c] < v /\ v < L.hi[s] /\ v \in Int
    BY ONLY <1>2
  <2>2. (L.lo[c] < k /\ k < v) \/ (v < k /\ k < L.hi[s]) \/ k = v
    BY <1>2 DEF Within
  <2> HIDE DEF v
  <2>3. L.lo[c] \in Int /\ L.hi[s] \in Int
    BY <1>2
  <2>4. L.lo[c] < k /\ k < L.hi[s]
    BY ONLY <2>1, <2>2, <2>3, k \in Int
  <2> QED BY ONLY <1>3, <2>4 DEF Within
<1>5. Len(od[c].keys) >= T
  BY <1>3, BTreeAssumption
<1>6. \A x \in Bids : L.h[x] > L.h[p] => od[x] = nd[x]
  <2> SUFFICES ASSUME NEW x \in Bids, L.h[x] > L.h[p]
               PROVE  x \notin {p, c, s}
    BY <1>3
  <2>1. L.h[c] = L.h[s] /\ L.h[p] = L.h[c] + 1 /\ L.h[c] \in Nat
    BY <1>2
  <2> DEFINE u == L.h[c]  v == L.h[p]
  <2>2. u < v /\ ~ (v > v) /\ ~ (u > v)
    <3>1. v = u + 1 /\ u \in Nat
      BY <2>1, SMTT(40)
    <3> HIDE DEF u, v
    <3> QED BY ONLY <3>1
  <2> QED BY ONLY <2>1, <2>2, L.h[x] > L.h[p]
<1> QED BY <1>2, <1>3, <1>4, <1>5, <1>6 DEF Fills

\* The full i-th child y of p gives half of its keys to the new node z.
Splits(nd, od, r, L, p, i, y, z) ==
  /\ KeysOf(od) = KeysOf(nd) /\ od[p].keys[i] \in KeysOf(nd) /\ od[p].keys[i] \in Int
  /\ Joins(od, nd, p, i, y, z)
  /\ \E N : /\ TreeOK(od, r, N, z)
            /\ N.lo[y] = L.lo[y] /\ N.hi[y] = od[p].keys[i]
            /\ N.lo[z] = od[p].keys[i] /\ N.hi[z] = L.hi[y]
  /\ y # r /\ z # r /\ y \in Bids /\ od[p] # None /\ od[y] # None /\ od[z] # None
  /\ Len(od[y].keys) = T - 1 /\ Len(od[z].keys) = T - 1

\* SplitChild leaves a filled search tree of the same keys.
LEMMA SplitStep ==
  ASSUME NEW nd, NEW r, NEW L, NEW last, TreeOK(nd, r, L, last), NEW p \in Bids, nd[p] # None,
         L.h[p] # 0, Len(nd[p].keys) < 2 * T - 1, NEW i \in 1 .. Len(nd[p].kids),
         NEW y, y = nd[p].kids[i], Len(nd[y].keys) = 2 * T - 1,
         NEW z \in Bids, z > last, \A x \in Bids : x > z => x > last,
         NEW od, od = SplitChild(nd, p, i, y, z)
  PROVE  Splits(nd, od, r, L, p, i, y, z)
<1> DEFINE N == SplitLabel(L, p, i, y, z, Len(od[y].keys), od[p].keys[i])
<1>1. IsTree(nd, r, L) /\ DOMAIN nd = Bids /\ IsFilled(nd, r) /\ \A x \in Bids : x > last => nd[x] = None
  BY DEF TreeOK
<1>2. /\ nd[p] \in Node /\ Len(nd[p].keys) \in Nat /\ IsShaped(nd, L, p)
      /\ r \in Bids /\ nd[r] # None
  BY <1>1, TreeNode
<1>3. Len(nd[p].kids) = Len(nd[p].keys) + 1 /\ i \in Nat /\ i \in 1 .. Len(nd[p].keys) + 1
  BY <1>2 DEF IsShaped
<1>4. y \in Bids /\ nd[y] # None /\ y # r /\ y # p
  BY <1>1, TreeChild
<1>5. nd[y] \in Node /\ IsShaped(nd, L, y) /\ T \in Nat /\ T > 1
  BY <1>1, <1>4, TreeNode, BTreeAssumption
<1>6. Len(nd[y].kids) \in {0, 2 * T}
  BY <1>5 DEF IsShaped
<1>7. nd[z] = None
  BY <1>1
<1>8. Joins(od, nd, p, i, y, z) /\ Halved(od, y, z)
  BY ONLY <1>1, <1>2, <1>3, <1>4, <1>5, <1>6, <1>7, p \in Bids, z \in Bids, y = nd[p].kids[i],
     Len(nd[y].keys) = 2 * T - 1, od = SplitChild(nd, p, i, y, z), SplitJoins
<1>81. DOMAIN od = Bids /\ Len(od[y].keys) = T - 1 /\ Len(od[z].keys) = T - 1
  BY <1>8 DEF Halved
<1>9. IsTree(od, r, N)
  BY <1>1, <1>3, <1>4, <1>8, SplitTree, ZenonT(30)
<1>10. KeysOf(od) = KeysOf(nd)
  BY <1>3, <1>4, <1>8, JoinsKeys
<1>11. /\ od[p] \in Node /\ od[y] \in Node /\ od[z] \in Node
       /\ Len(od[p].keys) = Len(nd[p].keys) + 1 /\ Len(od[p].kids) = Len(nd[p].keys) + 2
       /\ \A x \in Bids \ {p, y, z} : od[x] = nd[x]
       /\ y # z /\ p # z /\ i \in 1 .. Len(nd[p].keys) + 1
  BY <1>8, Zenon DEF Joins
<1>12. od[p] # None /\ od[y] # None /\ od[z] # None
  BY <1>11, NodeFacts
<1>13. /\ N.lo[y] = L.lo[y] /\ N.hi[y] = od[p].keys[i]
       /\ N.lo[z] = od[p].keys[i] /\ N.hi[z] = L.hi[y]
  BY <1>4, <1>11 DEF SplitLabel
<1> HIDE DEF N
<1>14. IsFilled(od, r)
  <2> SUFFICES ASSUME NEW x \in Bids, od[x] # None
               PROVE  /\ Len(od[x].keys) <= 2 * T - 1
                      /\ x # r => Len(od[x].keys) >= T - 1
                      /\ od[x].kids = <<>> => od[x].keys # <<>>
    BY DEF IsFilled
  <2>1. CASE x = p
    <3>1. od[p].kids # <<>>
      <4>1. Len(od[p].kids) # 0
        BY <1>2, <1>11
      <4> QED BY <4>1
    <3>2. p # r => Len(nd[p].keys) >= T - 1
      BY <1>1 DEF IsFilled
    <3>3. Len(od[p].keys) <= 2 * T - 1 /\ (p # r => Len(od[p].keys) >= T - 1)
      BY <1>2, <1>5, <1>11, <3>2
    <3> QED BY <2>1, <3>1, <3>3
  <2>2. CASE x \in {y, z}
    <3>1. Len(od[x].keys) = T - 1
      BY <1>81, <2>2
    <3>2. od[x].keys # <<>>
      <4>1. Len(od[x].keys) # 0
        BY <1>5, <3>1
      <4> QED BY <4>1
    <3> QED BY <1>5, <3>1, <3>2
  <2>3. CASE x \notin {p, y, z}
    BY <1>1, <1>11, <2>3 DEF IsFilled
  <2> QED BY <2>1, <2>2, <2>3
<1>15. \A x \in Bids : x > z => od[x] = None
  <2> SUFFICES ASSUME NEW x \in Bids, x > z
               PROVE  od[x] = None
    OBVIOUS
  <2>1. x > last /\ nd[x] = None
    BY <1>1
  <2>2. x # z
    BY BTreeAssumption DEF Bids
  <2> QED BY <1>4, <1>11, <2>1, <2>2
<1>16. TreeOK(od, r, N, z)
  BY <1>81, <1>9, <1>14, <1>15 DEF TreeOK
<1>17. od[p].keys[i] \in KeysOf(nd) /\ od[p].keys[i] \in Int
  <2>1. Has(od, p, od[p].keys[i])
    BY <1>11, <1>12 DEF Has
  <2> QED BY <1>9, <1>10, <2>1, KeyBounds
<1>18. z # r
  BY <1>2, <1>7
<1> QED BY <1>4, <1>8, <1>81, <1>10, <1>12, <1>13, <1>16, <1>17, <1>18 DEF Splits

(***************************************************************************)
(* The same step in a tree nd and in nt, where a key of node a differs.    *)
(***************************************************************************)
KeepsCopy(nd, nt, od, ot, a) ==
  /\ DOMAIN ot = Bids /\ ot[a] = nt[a] /\ od[a] = nd[a]
  /\ \A x \in Bids \ {a} : ot[x] = od[x]

\* MergeAt does not look at a node that it does not change.
LEMMA MergeKeeps ==
  ASSUME NEW nd, NEW nt, DOMAIN nd = Bids, DOMAIN nt = Bids, NEW p \in Bids, NEW a \in Bids, NEW i,
         NEW c \in Bids, NEW s \in Bids, c = nd[p].kids[i], s = nd[p].kids[i + 1],
         a \notin {p, c, s}, p # c, p # s, c # s, \A x \in Bids \ {a} : nt[x] = nd[x]
  PROVE  KeepsCopy(nd, nt, MergeAt(nd, p, i), MergeAt(nt, p, i), a)
<1> DEFINE A == [keys |-> RemoveAt(nd[p].keys, i), kids |-> RemoveAt(nd[p].kids, i + 1)]
           B == [keys |-> Append(nd[c].keys, nd[p].keys[i]) \o nd[s].keys,
                 kids |-> nd[c].kids \o nd[s].kids]
<1>1. nt[p] = nd[p] /\ nt[c] = nd[c] /\ nt[s] = nd[s]
  OBVIOUS
<1>2. MergeAt(nd, p, i) = [nd EXCEPT ![p] = A, ![c] = B, ![s] = None]
  BY DEF MergeAt
<1>3. MergeAt(nt, p, i) = [nt EXCEPT ![p] = A, ![c] = B, ![s] = None]
  BY <1>1 DEF MergeAt
<1> HIDE DEF A, B
<1> QED BY <1>2, <1>3 DEF KeepsCopy

\* BorrowFromPrev does not look at a node that it does not change.
LEMMA BorrowPrevKeeps ==
  ASSUME NEW nd, NEW nt, DOMAIN nd = Bids, DOMAIN nt = Bids, NEW p \in Bids, NEW a \in Bids, NEW i,
         NEW c \in Bids, NEW s \in Bids, c = nd[p].kids[i], s = nd[p].kids[i - 1],
         a \notin {p, c, s}, p # c, p # s, c # s, \A x \in Bids \ {a} : nt[x] = nd[x]
  PROVE  KeepsCopy(nd, nt, BorrowFromPrev(nd, p, i), BorrowFromPrev(nt, p, i), a)
<1> DEFINE kid == IF nd[c].kids = <<>> THEN <<>> ELSE <<Last(nd[s].kids)>>
           A == [nd[p] EXCEPT !.keys[i - 1] = Last(nd[s].keys)]
           B == [keys |-> <<nd[p].keys[i - 1]>> \o nd[c].keys, kids |-> kid \o nd[c].kids]
           C == [keys |-> Front(nd[s].keys), kids |-> IF kid = <<>> THEN <<>> ELSE Front(nd[s].kids)]
<1>1. nt[p] = nd[p] /\ nt[c] = nd[c] /\ nt[s] = nd[s]
  OBVIOUS
<1>2. BorrowFromPrev(nd, p, i) = [nd EXCEPT ![p] = A, ![c] = B, ![s] = C]
  BY DEF BorrowFromPrev
<1>3. BorrowFromPrev(nt, p, i) = [nt EXCEPT ![p] = A, ![c] = B, ![s] = C]
  BY <1>1 DEF BorrowFromPrev
<1> HIDE DEF A, B, C
<1> QED BY <1>2, <1>3 DEF KeepsCopy

\* BorrowFromNext does not look at a node that it does not change.
LEMMA BorrowNextKeeps ==
  ASSUME NEW nd, NEW nt, DOMAIN nd = Bids, DOMAIN nt = Bids, NEW p \in Bids, NEW a \in Bids, NEW i,
         NEW c \in Bids, NEW s \in Bids, c = nd[p].kids[i], s = nd[p].kids[i + 1],
         a \notin {p, c, s}, p # c, p # s, c # s, \A x \in Bids \ {a} : nt[x] = nd[x]
  PROVE  KeepsCopy(nd, nt, BorrowFromNext(nd, p, i), BorrowFromNext(nt, p, i), a)
<1> DEFINE kid == IF nd[c].kids = <<>> THEN <<>> ELSE <<Head(nd[s].kids)>>
           A == [nd[p] EXCEPT !.keys[i] = Head(nd[s].keys)]
           B == [keys |-> Append(nd[c].keys, nd[p].keys[i]), kids |-> nd[c].kids \o kid]
           C == [keys |-> Tail(nd[s].keys), kids |-> IF kid = <<>> THEN <<>> ELSE Tail(nd[s].kids)]
<1>1. nt[p] = nd[p] /\ nt[c] = nd[c] /\ nt[s] = nd[s]
  OBVIOUS
<1>2. BorrowFromNext(nd, p, i) = [nd EXCEPT ![p] = A, ![c] = B, ![s] = C]
  BY DEF BorrowFromNext
<1>3. BorrowFromNext(nt, p, i) = [nt EXCEPT ![p] = A, ![c] = B, ![s] = C]
  BY <1>1 DEF BorrowFromNext
<1> HIDE DEF A, B, C
<1> QED BY <1>2, <1>3 DEF KeepsCopy

\* A replaced key stays replaced by a step that leaves its node alone.
LEMMA CopyKept ==
  ASSUME NEW nd, NEW nt, NEW od, NEW ot, NEW a \in Bids, NEW i, NEW v,
         Replaces(nd, nt, a, i, v), KeepsCopy(nd, nt, od, ot, a)
  PROVE  Replaces(od, ot, a, i, v)
BY DEF Replaces, KeepsCopy

(***************************************************************************)
(* The steps at a leaf and at the root.                                    *)
(***************************************************************************)
With(nd, x, e, k) == [nd EXCEPT ![x].keys = InsertAt(@, e, k)]
Without(nd, x, g) == [nd EXCEPT ![x].keys = RemoveAt(@, g)]

\* A leaf with room takes a key.
LEMMA LeafGrows ==
  ASSUME NEW nd, NEW r, NEW L, NEW last, TreeOK(nd, r, L, last), NEW x \in Bids, nd[x] # None,
         L.h[x] = 0, Len(nd[x].keys) < 2 * T - 1, NEW k \in Keys, NEW g \in Nat, NEW e,
         e = g + 1, g \in 0 .. Len(nd[x].keys), SepOf(nd, L, x, g) < k, k < SepOf(nd, L, x, e),
         NEW od, od = With(nd, x, e, k)
  PROVE  /\ TreeOK(od, r, L, last) /\ KeysOf(od) = KeysOf(nd) \cup {k} /\ od[r] # None
         /\ od[x] # None /\ od[x].kids = nd[x].kids /\ Len(od[x].keys) # 0
<1>1. IsTree(nd, r, L) /\ DOMAIN nd = Bids /\ IsFilled(nd, r) /\ \A y \in Bids : y > last => nd[y] = None
  BY DEF TreeOK
<1>2. /\ nd[x] \in Node /\ Len(nd[x].keys) \in Nat /\ nd[x].keys \in Seq(Keys) /\ nd[x].kids \in Seq(Bids)
      /\ r \in Bids /\ nd[r] # None
  BY <1>1, TreeNode
<1>3. od[x] = [nd[x] EXCEPT !.keys = InsertAt(@, e, k)] /\ \A y \in Bids \ {x} : od[y] = nd[y]
  BY <1>1 DEF With
<1>31. od[x] = [nd[x] EXCEPT !.keys = InsertAt(@, g + 1, k)] /\ k < SepOf(nd, L, x, g + 1)
  BY <1>3
<1>32. DOMAIN od = Bids
  BY <1>1 DEF With
<1>33. IsTree(od, r, L) /\ KeysOf(od) = KeysOf(nd) \cup {k} /\ Grown(nd, od, x)
  BY ONLY <1>1, <1>3, <1>31, x \in Bids, k \in Keys, g \in Nat, nd[x] # None, L.h[x] = 0,
     g \in 0 .. Len(nd[x].keys), SepOf(nd, L, x, g) < k, LeafInsert
<1>4. /\ IsTree(od, r, L) /\ KeysOf(od) = KeysOf(nd) \cup {k}
      /\ Len(od[x].keys) = Len(nd[x].keys) + 1 /\ od[x] \in Node /\ od[x].kids = nd[x].kids
  BY <1>33 DEF Grown
<1>5. od[x] # None /\ od[x].keys # <<>> /\ T \in Nat /\ Len(od[x].keys) # 0
  <2>1. Len(od[x].keys) # 0
    BY <1>2, <1>4
  <2> QED BY <1>4, <2>1, NodeFacts, BTreeAssumption
<1>6. IsFilled(od, r)
  <2> SUFFICES ASSUME NEW y \in Bids, od[y] # None
               PROVE  /\ Len(od[y].keys) <= 2 * T - 1
                      /\ y # r => Len(od[y].keys) >= T - 1
                      /\ od[y].kids = <<>> => od[y].keys # <<>>
    BY DEF IsFilled
  <2>1. CASE y = x
    <3>1. x # r => Len(nd[x].keys) >= T - 1
      BY <1>1 DEF IsFilled
    <3>2. Len(od[x].keys) <= 2 * T - 1 /\ (x # r => Len(od[x].keys) >= T - 1)
      BY <1>2, <1>4, <1>5, <3>1
    <3> QED BY <1>5, <2>1, <3>2
  <2>2. CASE y # x
    BY <1>1, <1>3, <2>2 DEF IsFilled
  <2> QED BY <2>1, <2>2
<1>7. \A y \in Bids : y > last => od[y] = None
  BY <1>1, <1>3
<1>8. od[r] # None
  BY <1>2, <1>3, <1>5
<1> QED BY <1>4, <1>5, <1>32, <1>6, <1>7, <1>8 DEF TreeOK

\* A leaf that stays filled gives a key away.
LEMMA LeafShrinks ==
  ASSUME NEW nd, NEW r, NEW L, NEW last, TreeOK(nd, r, L, last), NEW x \in Bids, nd[x] # None,
         L.h[x] = 0, NEW g \in Nat, g \in 1 .. Len(nd[x].keys),
         Len(nd[x].keys) >= T \/ (x = r /\ Len(nd[x].keys) # 1),
         NEW od, od = Without(nd, x, g)
  PROVE  /\ TreeOK(od, r, L, last) /\ KeysOf(od) = KeysOf(nd) \ {nd[x].keys[g]}
         /\ od[r] # None /\ od[x] # None /\ od[x].kids = nd[x].kids /\ Len(od[x].keys) # 0
<1>1. IsTree(nd, r, L) /\ DOMAIN nd = Bids /\ IsFilled(nd, r) /\ \A y \in Bids : y > last => nd[y] = None
  BY DEF TreeOK
<1>2. /\ nd[x] \in Node /\ Len(nd[x].keys) \in Nat /\ nd[x].keys \in Seq(Keys) /\ nd[x].kids \in Seq(Bids)
      /\ r \in Bids /\ nd[r] # None
  BY <1>1, TreeNode
<1>3. od[x] = [nd[x] EXCEPT !.keys = RemoveAt(@, g)] /\ \A y \in Bids \ {x} : od[y] = nd[y]
  BY <1>1 DEF Without
<1>32. DOMAIN od = Bids
  BY <1>1 DEF Without
<1>33. IsTree(od, r, L) /\ KeysOf(od) = KeysOf(nd) \ {nd[x].keys[g]} /\ Shrunk(nd, od, x)
  BY ONLY <1>1, <1>3, x \in Bids, g \in Nat, nd[x] # None, L.h[x] = 0,
     g \in 1 .. Len(nd[x].keys), LeafRemove
<1>4. /\ IsTree(od, r, L) /\ KeysOf(od) = KeysOf(nd) \ {nd[x].keys[g]}
      /\ Len(od[x].keys) = Len(nd[x].keys) - 1 /\ od[x] \in Node /\ od[x].kids = nd[x].kids
  BY <1>33 DEF Shrunk
<1>41. T \in Nat /\ T > 1
  BY BTreeAssumption
<1>5. od[x] # None /\ od[x].keys # <<>> /\ Len(od[x].keys) # 0
  <2> DEFINE n == Len(nd[x].keys)  m == Len(od[x].keys)
  <2>0. n \in Nat /\ m = n - 1 /\ g \in 1 .. n /\ (n >= T \/ n # 1)
    BY <1>2, <1>4
  <2> HIDE DEF n, m
  <2>1. m # 0
    BY ONLY <1>41, <2>0, g \in Nat
  <2> USE DEF m
  <2> QED BY <1>4, <2>1, NodeFacts
<1>6. IsFilled(od, r)
  <2> SUFFICES ASSUME NEW y \in Bids, od[y] # None
               PROVE  /\ Len(od[y].keys) <= 2 * T - 1
                      /\ y # r => Len(od[y].keys) >= T - 1
                      /\ od[y].kids = <<>> => od[y].keys # <<>>
    BY DEF IsFilled
  <2>1. CASE y = x
    <3>1. Len(nd[x].keys) <= 2 * T - 1
      BY <1>1 DEF IsFilled
    <3>2. Len(od[x].keys) <= 2 * T - 1 /\ (x # r => Len(od[x].keys) >= T - 1)
      BY <1>2, <1>4, <1>41, <3>1
    <3> QED BY <1>5, <2>1, <3>2
  <2>2. CASE y # x
    BY <1>1, <1>3, <2>2 DEF IsFilled
  <2> QED BY <2>1, <2>2
<1>7. \A y \in Bids : y > last => od[y] = None
  BY <1>1, <1>3
<1>8. od[r] # None
  BY <1>2, <1>3, <1>5
<1> QED BY <1>4, <1>5, <1>32, <1>6, <1>7, <1>8 DEF TreeOK

\* The full root r is split under a new root s; md is the tree in between.
RootSplit(nd, md, od, r, s, z) ==
  /\ KeysOf(md) = KeysOf(nd) /\ nd[s] = None
  /\ \E M : Splits(md, od, s, M, s, 1, r, z) /\ M.lo[r] = 0 /\ M.hi[r] = MaxKey + 1

\* A full root split under a new one leaves a filled search tree of the same
\* keys.
LEMMA RootSplits ==
  ASSUME NEW nd, NEW r \in Bids, NEW L, NEW last, TreeOK(nd, r, L, last), nd[r] # None,
         Len(nd[r].keys) = 2 * T - 1, NEW s \in Bids, NEW z \in Bids, s > last, z > s,
         \A x \in Bids : (x > s => x > last) /\ (x > z => x > s),
         NEW md, md = [nd EXCEPT ![s] = [keys |-> <<>>, kids |-> <<r>>]],
         NEW od, od = SplitChild(md, s, 1, r, z)
  PROVE  RootSplit(nd, md, od, r, s, z)
<1> DEFINE M == RootedLabel(L, r, s)
<1>1. IsTree(nd, r, L) /\ DOMAIN nd = Bids /\ IsFilled(nd, r) /\ \A x \in Bids : x > last => nd[x] = None
  BY DEF TreeOK
<1>2. nd[s] = None /\ s # r /\ L.lo[r] = 0 /\ L.hi[r] = MaxKey + 1 /\ T \in Nat /\ T > 1 /\ L.h[r] \in Nat
  BY <1>1, TreeNode, BTreeAssumption
<1>3. md[s] = [keys |-> <<>>, kids |-> <<r>>] /\ (\A x \in Bids \ {s} : md[x] = nd[x]) /\ DOMAIN md = Bids
  BY <1>1
<1>4. IsTree(md, s, M) /\ KeysOf(md) = KeysOf(nd)
  BY <1>1, <1>2, <1>3, NewRoot
<1>5. M.lo[r] = 0 /\ M.hi[r] = MaxKey + 1 /\ M.h[s] # 0
  BY <1>2 DEF RootedLabel
<1> HIDE DEF M
<1>6. md[s].keys = <<>> /\ md[s].kids = <<r>> /\ Len(md[s].kids) = 1 /\ md[s].kids[1] = r /\ Len(md[s].keys) = 0
  BY <1>3
<1>7. md[s] # None
  <2>1. <<>> \in Seq(Keys) /\ <<r>> \in Seq(Bids)
    OBVIOUS
  <2>2. md[s] \in Node
    BY <1>3, <2>1 DEF Node
  <2> QED BY <2>2, NodeFacts
<1>8. IsFilled(md, s)
  <2> SUFFICES ASSUME NEW x \in Bids, md[x] # None
               PROVE  /\ Len(md[x].keys) <= 2 * T - 1
                      /\ x # s => Len(md[x].keys) >= T - 1
                      /\ md[x].kids = <<>> => md[x].keys # <<>>
    BY DEF IsFilled
  <2>1. CASE x = s
    BY <1>2, <1>6, <2>1
  <2>2. CASE x = r
    <3>1. nd[r].kids = <<>> => nd[r].keys # <<>>
      BY <1>1 DEF IsFilled
    <3> QED BY <1>2, <1>3, <2>2, <3>1
  <2>3. CASE x # s /\ x # r
    BY <1>1, <1>3, <2>3 DEF IsFilled
  <2> QED BY <2>1, <2>2, <2>3
<1>9. \A x \in Bids : x > s => md[x] = None
  <2> SUFFICES ASSUME NEW x \in Bids, x > s
               PROVE  md[x] = None
    OBVIOUS
  <2>1. x # s
    BY BTreeAssumption DEF Bids
  <2> QED BY <1>1, <1>3, <2>1
<1>10. TreeOK(md, s, M, s)
  BY <1>3, <1>4, <1>8, <1>9 DEF TreeOK
<1>11. Len(md[s].keys) < 2 * T - 1 /\ 1 \in 1 .. Len(md[s].kids) /\ r = md[s].kids[1] /\ Len(md[r].keys) = 2 * T - 1
  BY <1>2, <1>3, <1>6
<1>12. Splits(md, od, s, M, s, 1, r, z)
  BY ONLY <1>5, <1>7, <1>10, <1>11, s \in Bids, z \in Bids, z > s, \A x \in Bids : x > z => x > s,
     od = SplitChild(md, s, 1, r, z), SplitStep
<1> QED BY <1>2, <1>4, <1>5, <1>12 DEF RootSplit

\* The root left with one child goes.
Collapsed(nd, od, r, c, L, last) ==
  /\ TreeOK(od, c, L, last) /\ KeysOf(od) = KeysOf(nd)
  /\ c \in Bids /\ od[c] # None /\ c # r /\ Len(od[c].keys) # 0
  /\ Len(nd[r].kids) = 1 /\ nd[r].kids[1] = c /\ nd[r] \in Node

\* A root without keys that gives way to its child leaves a filled search tree of
\* the same keys.
LEMMA Collapses ==
  ASSUME NEW nd, NEW r \in Bids, NEW L, NEW last, TreeOK(nd, r, L, last), nd[r] # None,
         Len(nd[r].keys) = 0, NEW c, c = Head(nd[r].kids), NEW od, od = [nd EXCEPT ![r] = None]
  PROVE  Collapsed(nd, od, r, c, L, last)
<1>1. IsTree(nd, r, L) /\ DOMAIN nd = Bids /\ IsFilled(nd, r) /\ \A x \in Bids : x > last => nd[x] = None
  BY DEF TreeOK
<1>2. /\ nd[r] \in Node /\ nd[r].keys \in Seq(Keys) /\ nd[r].kids \in Seq(Bids) /\ Len(nd[r].kids) \in Nat
      /\ T \in Nat /\ T > 1
  BY <1>1, TreeNode, BTreeAssumption
<1>3. Len(nd[r].kids) # 0
  <2>1. nd[r].keys = <<>>
    BY <1>2, EmptySeq
  <2>2. nd[r].kids # <<>>
    BY <1>1, <2>1 DEF IsFilled
  <2> QED BY <1>2, <2>2, EmptySeq
<1>4. od[r] = None /\ (\A x \in Bids \ {r} : od[x] = nd[x]) /\ DOMAIN od = Bids
  BY <1>1
<1>6. c = nd[r].kids[1]
  <2>1. Len(nd[r].kids) > 0
    BY <1>2, <1>3
  <2> QED BY <1>2, <2>1, EndsOf
<1>5. /\ IsTree(od, c, L) /\ KeysOf(od) = KeysOf(nd)
      /\ c \in Bids /\ od[c] # None /\ c # r /\ Len(nd[r].kids) = 1
  BY ONLY <1>1, <1>3, <1>4, <1>6, r \in Bids, nd[r] # None, Len(nd[r].keys) = 0, DropRoot, SMTT(40)
<1>7. od[c] = nd[c] /\ Len(nd[c].keys) >= T - 1
  BY <1>1, <1>4, <1>5, <1>6 DEF IsFilled
<1>8. Len(od[c].keys) # 0
  BY <1>2, <1>7
<1>9. IsFilled(od, c)
  <2> SUFFICES ASSUME NEW x \in Bids, od[x] # None
               PROVE  /\ Len(od[x].keys) <= 2 * T - 1
                      /\ x # c => Len(od[x].keys) >= T - 1
                      /\ od[x].kids = <<>> => od[x].keys # <<>>
    BY DEF IsFilled
  <2>1. x # r /\ od[x] = nd[x]
    BY <1>4
  <2> QED BY <1>1, <2>1 DEF IsFilled
<1>10. \A x \in Bids : x > last => od[x] = None
  BY <1>1, <1>4
<1>11. TreeOK(od, c, L, last)
  BY <1>4, <1>5, <1>6, <1>9, <1>10 DEF TreeOK
<1> QED BY <1>2, <1>5, <1>6, <1>8, <1>11 DEF Collapsed

\* The key v, copied over u in node a, is removed from its leaf x.
Removed(nd, ot, r, last, u) ==
  (\E M : TreeOK(ot, r, M, last)) /\ KeysOf(ot) = KeysOf(nd) \ {u} /\ ot[r] # None

\* Removing the neighbour from its leaf, when a copy of it stands for the key,
\* removes the key.
LEMMA CopyRemoved ==
  ASSUME NEW nd, NEW r, NEW L, NEW last, TreeOK(nd, r, L, last), NEW a \in Bids, NEW j \in Nat,
         NEW u, NEW v \in Keys, NEW nt, Replaces(nd, nt, a, j, v), DOMAIN nt = Bids, nd[a].keys[j] = u,
         u # v, \A k \in KeysOf(nd) : ~ Between(k, v, u),
         NEW x \in Bids, x # a, nd[x] # None, L.h[x] = 0, Len(nd[x].keys) >= T,
         NEW g \in Nat, g \in 1 .. Len(nd[x].keys), nd[x].keys[g] = v,
         NEW ot, ot = Without(nt, x, g)
  PROVE  Removed(nd, ot, r, last, u)
<1> DEFINE od == Without(nd, x, g)
           M == ReplacedLabel(L, u, v)
<1>1. IsTree(nd, r, L) /\ DOMAIN nd = Bids
  BY DEF TreeOK
<1>19. od = Without(nd, x, g)
  OBVIOUS
<1> HIDE DEF od
<1>2. TreeOK(od, r, L, last) /\ KeysOf(od) = KeysOf(nd) \ {v} /\ od[r] # None
  BY ONLY <1>19, TreeOK(nd, r, L, last), x \in Bids, nd[x] # None, L.h[x] = 0, g \in Nat,
     g \in 1 .. Len(nd[x].keys), nd[x].keys[g] = v, Len(nd[x].keys) >= T, LeafShrinks
<1>3. nt[x] = nd[x]
  BY DEF Replaces
<1>4. ot[x] = od[x] /\ (\A y \in Bids \ {x} : od[y] = nd[y] /\ ot[y] = nt[y]) /\ DOMAIN ot = Bids
  BY <1>1, <1>3, <1>19 DEF Without
<1> HIDE DEF M
<1>5. Replaces(od, ot, a, j, v) /\ od[a].keys[j] = u
  BY <1>4 DEF Replaces
<1>6. IsTree(od, r, L) /\ IsFilled(od, r) /\ \A y \in Bids : y > last => od[y] = None
  BY <1>2 DEF TreeOK
<1>7. \A k \in KeysOf(od) : ~ Between(k, u, v)
  BY <1>2 DEF Between
<1>8. v \notin KeysOf(od)
  BY <1>2
<1>9. IsTree(ot, r, M)
  BY <1>5, <1>6, <1>7, <1>8, Replace DEF M
<1>10. Swapped(od, ot, u, v)
  <2>1. u = od[a].keys[j] /\ IsTree(od, r, L) /\ Replaces(od, ot, a, j, v)
    BY <1>5, <1>6
  <2> QED BY ONLY <2>1, a \in Bids, j \in Nat, v \in Keys, ReplaceKeys
<1>11. v \in KeysOf(nd)
  <2>1. Has(nd, x, v)
    BY DEF Has
  <2> QED BY <1>1, <2>1, KeyBounds
<1>12. KeysOf(ot) = KeysOf(nd) \ {u}
  BY <1>2, <1>10, <1>11 DEF Swapped
<1>13. /\ od[a] # None /\ ot[a] # None /\ ot[a].kids = od[a].kids /\ Len(ot[a].keys) = Len(od[a].keys)
       /\ \A y \in Bids \ {a} : ot[y] = od[y]
  BY <1>5, NodeFacts DEF Replaces
<1>14. od[a].keys # <<>> /\ ot[a].keys # <<>>
  <2>1. od[a].keys \in Seq(Keys) /\ Len(od[a].keys) # 0
    BY <1>5, <1>6, <1>13, TreeNode DEF Replaces
  <2> QED BY <1>13, <2>1
<1>15. IsFilled(ot, r)
  <2> SUFFICES ASSUME NEW y \in Bids, ot[y] # None
               PROVE  /\ Len(ot[y].keys) <= 2 * T - 1
                      /\ y # r => Len(ot[y].keys) >= T - 1
                      /\ ot[y].kids = <<>> => ot[y].keys # <<>>
    BY DEF IsFilled
  <2>1. od[y] # None /\ Len(ot[y].keys) = Len(od[y].keys) /\ (y # a => ot[y] = od[y])
    BY <1>13
  <2>2. /\ Len(od[y].keys) <= 2 * T - 1
        /\ y # r => Len(od[y].keys) >= T - 1
        /\ od[y].kids = <<>> => od[y].keys # <<>>
    BY <1>6, <2>1 DEF IsFilled
  <2> QED BY <1>14, <2>1, <2>2
<1>16. \A y \in Bids : y > last => ot[y] = None
  BY <1>6, <1>13
<1>17. TreeOK(ot, r, M, last)
  BY <1>4, <1>9, <1>15, <1>16 DEF TreeOK
<1>18. ot[r] # None
  <2>1. r \in Bids
    BY <1>6, <1>13, TreeNode
  <2> QED BY <1>2, <1>13, <2>1
<1> QED BY <1>12, <1>17, <1>18 DEF Removed

(***************************************************************************)
(* Where a walk finds its key, and where it goes on.                       *)
(***************************************************************************)
Finds(nd, L, x, k) ==
  LET g == findKey(k, x) IN
  /\ g \in Nat /\ g \in 0 .. Len(nd[x].keys) /\ g + 1 \in 1 .. Len(nd[x].keys) + 1
  /\ HasKey(k, x) <=> Has(nd, x, k)
  /\ HasKey(k, x) => g + 1 \in 1 .. Len(nd[x].keys) /\ nd[x].keys[g + 1] = k
  /\ ~ HasKey(k, x) => SepOf(nd, L, x, g) < k /\ k < SepOf(nd, L, x, g + 1)

\* findKey() of a node finds the key, or the child that the key is below.
LEMMA FindsAt ==
  ASSUME NEW nd, NEW r, NEW L, IsTree(nd, r, L), NEW x \in Bids, nd[x] # None, node[x] = nd[x],
         NEW k \in Int, Within(L, x, k)
  PROVE  Finds(nd, L, x, k)
<1> DEFINE g == findKey(k, x)
           n == Len(nd[x].keys)
<1>1. nd[x] \in Node /\ keynum(x) = n
  BY TreeNode DEF keynum
<1>2. /\ g \in 0 .. n /\ n \in Nat
      /\ \A i \in 1 .. g : nd[x].keys[i] < k
      /\ g < n => ~ (nd[x].keys[g + 1] < k)
  BY <1>1, FindKeyIs
<1>3. \A i, j \in 1 .. n : /\ i < j => nd[x].keys[i] < nd[x].keys[j]
                           /\ nd[x].keys[i] \in Int
  BY KeyPlace
<1>4. HasKey(k, x) <=> g < n /\ nd[x].keys[g + 1] = k
  BY <1>1 DEF HasKey
<1>5. Has(nd, x, k) <=> \E j \in 1 .. n : nd[x].keys[j] = k
  BY DEF Has
<1>6. /\ SepOf(nd, L, x, 0) = L.lo[x] /\ SepOf(nd, L, x, n + 1) = L.hi[x]
      /\ \A j \in 1 .. n : SepOf(nd, L, x, j) = nd[x].keys[j]
  BY Order
<1> HIDE DEF g, n
<1>7. g \in Nat /\ g \in 0 .. n /\ g + 1 \in 1 .. n + 1 /\ (g < n => g + 1 \in 1 .. n)
  BY ONLY <1>2
<1>8. Has(nd, x, k) => HasKey(k, x)
  <2> SUFFICES ASSUME NEW j \in 1 .. n, nd[x].keys[j] = k
               PROVE  g < n /\ nd[x].keys[g + 1] = k
    BY <1>4, <1>5
  <2>1. j > g
    <3>1. n \in Nat /\ g \in Nat /\ j \in Nat
      BY <1>2
    <3>2. ASSUME j <= g PROVE FALSE
      <4>1. j \in 1 .. g
        BY ONLY <1>2, j \in 1 .. n, <3>2
      <4>2. k < k
        BY <1>2, <4>1
      <4> QED BY <4>2
    <3> QED BY ONLY <3>1, <3>2
  <2>2. g < n /\ g + 1 \in 1 .. n /\ (j = g + 1 \/ g + 1 < j)
    BY ONLY <1>2, <2>1, j \in 1 .. n
  <2>3. CASE g + 1 < j
    <3>1. nd[x].keys[g + 1] < k
      BY <1>3, <2>2, <2>3
    <3> QED BY <1>2, <2>2, <3>1
  <2> QED BY <2>2, <2>3
<1>9. HasKey(k, x) => g + 1 \in 1 .. n /\ nd[x].keys[g + 1] = k
  BY <1>4, <1>7
<1>10. HasKey(k, x) => Has(nd, x, k)
  BY <1>5, <1>9
<1>11. ASSUME ~ HasKey(k, x) PROVE SepOf(nd, L, x, g) < k
  <2>1. CASE g = 0
    BY <1>6, <2>1 DEF Within
  <2>2. CASE g # 0
    <3>1. g \in 1 .. g /\ g \in 1 .. n
      BY ONLY <1>2, <2>2
    <3> QED BY <1>2, <1>6, <3>1
  <2> QED BY <2>1, <2>2
<1>12. ASSUME ~ HasKey(k, x) PROVE k < SepOf(nd, L, x, g + 1)
  <2>1. CASE g = n
    BY <1>6, <2>1 DEF Within
  <2>2. CASE g # n
    <3>1. g < n /\ g + 1 \in 1 .. n
      BY ONLY <1>2, <2>2
    <3>2. nd[x].keys[g + 1] # k /\ ~ (nd[x].keys[g + 1] < k) /\ nd[x].keys[g + 1] \in Int
      BY <1>2, <1>3, <1>4, <1>12, <3>1
    <3>3. SepOf(nd, L, x, g + 1) = nd[x].keys[g + 1]
      BY <1>6, <3>1
    <3> DEFINE e == nd[x].keys[g + 1]
    <3>4. e # k /\ ~ (e < k) /\ e \in Int
      BY <3>2
    <3> HIDE DEF e
    <3>5. k < e
      BY ONLY <3>4, k \in Int
    <3> QED BY <3>3, <3>5 DEF e
  <2> QED BY <2>1, <2>2
<1> QED BY <1>7, <1>8, <1>9, <1>10, <1>11, <1>12 DEF Finds, g, n

\* The child the key is below.
Down(nd, r, L, x, c, k) ==
  /\ c \in Bids /\ nd[c] # None /\ c # r /\ c # x /\ Within(L, c, k)
  /\ L.h[c] \in Nat /\ L.h[x] = L.h[c] + 1

\* A key between two others of an inner node is between the bounds of the child
\* there.
LEMMA DownAt ==
  ASSUME NEW nd, NEW r, NEW L, IsTree(nd, r, L), NEW x \in Bids, nd[x] # None, L.h[x] # 0,
         NEW k \in Int, NEW i \in Nat, NEW g, g = i - 1, i \in 1 .. Len(nd[x].keys) + 1,
         SepOf(nd, L, x, g) < k, k < SepOf(nd, L, x, i), NEW c, c = nd[x].kids[i]
  PROVE  Down(nd, r, L, x, c, k) /\ i \in 1 .. Len(nd[x].kids)
<1>1. IsShaped(nd, L, x) /\ Len(nd[x].keys) \in Nat
  BY TreeNode
<1>2. i \in 1 .. Len(nd[x].kids)
  BY <1>1 DEF IsShaped
<1>3. /\ c \in Bids /\ nd[c] # None /\ c # r /\ c # x /\ L.h[x] = L.h[c] + 1
      /\ L.lo[c] = SepOf(nd, L, x, g) /\ L.hi[c] = SepOf(nd, L, x, i)
  BY <1>2, TreeChild
<1>4. L.h[c] \in Nat
  BY <1>3, TreeNode
<1> QED BY <1>2, <1>3, <1>4 DEF Down, Within

(***************************************************************************)
(* The inductive invariant.  nd is the tree with the key kw still in its   *)
(* place: while a removal carries the copy of a predecessor or successor   *)
(* down to its leaf, node differs from nd in that key's first copy.        *)
(***************************************************************************)
Types ==
  /\ DOMAIN node = Bids
  /\ brootKey \in Bids \cup {0} /\ nextbid \in Bids \cup {0}
  /\ op \in {"idle", "insert", "search", "remove"}
  /\ kw \in Keys /\ key \in Keys /\ cur \in Bids \cup {0}
  /\ res \in BOOLEAN /\ failed \in BOOLEAN

Copying == op = "remove" /\ cur # 0 /\ key # kw

\* nt is nd but for u, a key of node a above height h: it is the key v next
\* to u, which is in the tree still.
CopyOf(nd, nt, L, a, j, u, v, h) ==
  /\ a \in Bids /\ j \in Nat /\ Replaces(nd, nt, a, j, v) /\ nd[a].keys[j] = u
  /\ L.h[a] > h /\ v \in KeysOf(nd) /\ u # v
  /\ \A k \in KeysOf(nd) : ~ Between(k, v, u)

Held(nd, L) ==
  /\ ~ Copying => node = nd
  /\ Copying => \E a, j : CopyOf(nd, node, L, a, j, kw, key, L.h[cur])

CallOK(nd, L) ==
  /\ cur # 0 /\ op # "idle" => nd[cur] # None /\ Within(L, cur, key)
  /\ op = "insert" => /\ kw \notin KeysOf(nd) /\ key = kw
                      /\ cur = 0 => brootKey = 0
                      /\ cur \notin {0, brootKey} => Len(nd[cur].keys) < 2 * T - 1
  /\ op = "search" => key = kw /\ res = FALSE
  /\ op = "remove" => /\ cur = 0 => kw \notin KeysOf(nd)
                      /\ cur \notin {0, brootKey} => Len(nd[cur].keys) >= T

RootOK(nd) ==
  brootKey # 0 =>
    /\ nd[brootKey] = None => op = "remove" /\ cur = 0
    /\ nd[brootKey] # None /\ Len(nd[brootKey].keys) = 0 => op = "remove" /\ cur # brootKey

IState(nd, L) == TreeOK(nd, brootKey, L, nextbid) /\ Held(nd, L) /\ CallOK(nd, L) /\ RootOK(nd)
IInv == Types /\ \E nd, L : IState(nd, L)

\* Keys and bids are numbers, and 0 is none of the bids.
LEMMA KeysAreInts == Keys \subseteq Int /\ Keys \subseteq Nat /\ Bids \subseteq Nat /\ Bids \subseteq Int /\ 0 \notin Bids
BY BTreeAssumption DEF Keys, Bids

\* The nodes a call may look at are those of nd.
AtCall(nd, L) ==
  /\ IsTree(nd, brootKey, L) /\ DOMAIN nd = Bids /\ Alike(nd)
  /\ cur \in Bids /\ key \in Int /\ nd[cur] # None /\ Within(L, cur, key)
  /\ \A x \in Bids : L.h[x] <= L.h[cur] => node[x] = nd[x]
  /\ node[cur] = nd[cur] /\ Finds(nd, L, cur, key)
  /\ isleaf(cur) <=> L.h[cur] = 0
  /\ L.h[cur] \in Nat
  /\ Len(nd[cur].keys) \in Nat /\ Len(nd[cur].keys) <= 2 * T - 1
  /\ brootKey \in Bids /\ nd[brootKey] # None /\ (cur # brootKey => L.h[cur] < L.h[brootKey])

\* What the invariant says of a call that goes on.
LEMMA Calls ==
  ASSUME Types, NEW nd, NEW L, IState(nd, L), cur # 0, op # "idle"
  PROVE  AtCall(nd, L)
<1>1. IsTree(nd, brootKey, L) /\ DOMAIN nd = Bids
  BY DEF IState, TreeOK
<1>2. cur \in Bids /\ key \in Int /\ nd[cur] # None /\ Within(L, cur, key)
  BY KeysAreInts DEF Types, IState, CallOK
<1>3. L.h[cur] \in Nat /\ brootKey \in Bids /\ nd[brootKey] # None
  BY <1>1, <1>2, TreeNode
<1>4. Alike(nd) /\ \A x \in Bids : L.h[x] <= L.h[cur] => node[x] = nd[x]
  <2>1. CASE ~ Copying
    BY <2>1 DEF IState, Held, Alike
  <2>2. CASE Copying
    <3>1. PICK a, j : CopyOf(nd, node, L, a, j, kw, key, L.h[cur])
      BY <2>2 DEF IState, Held
    <3>2. /\ a \in Bids /\ Replaces(nd, node, a, j, key) /\ L.h[a] > L.h[cur]
      BY <3>1 DEF CopyOf
    <3>3. /\ nd[a] # None /\ node[a] \in Node /\ node[a].kids = nd[a].kids
          /\ \A x \in Bids \ {a} : node[x] = nd[x]
      BY <3>2 DEF Replaces
    <3>4. Alike(nd)
      BY <3>3, NodeFacts DEF Alike
    <3>5. L.h[a] \in Nat
      BY <1>1, <3>2, <3>3, TreeNode
    <3>6. ASSUME NEW x \in Bids, L.h[x] <= L.h[cur] PROVE x # a
      <4> DEFINE u == L.h[a]  v == L.h[cur]
      <4>1. u \in Nat /\ v \in Nat /\ u > v
        BY <1>3, <3>2, <3>5
      <4> HIDE DEF u, v
      <4>2. ~ (u <= v)
        BY ONLY <4>1
      <4> QED BY <3>6, <4>2 DEF u, v
    <3> QED BY <3>3, <3>4, <3>6
  <2> QED BY <2>1, <2>2
<1>5. node[cur] = nd[cur]
  BY <1>2, <1>3, <1>4
<1>6. Finds(nd, L, cur, key)
  BY <1>1, <1>2, <1>5, FindsAt
<1>7. isleaf(cur) <=> L.h[cur] = 0
  BY <1>1, <1>2, <1>4, EndIs
<1>8. Len(nd[cur].keys) \in Nat /\ Len(nd[cur].keys) <= 2 * T - 1
  BY <1>2, TreeNode, <1>1 DEF IState, TreeOK, IsFilled
<1>9. cur # brootKey => L.h[cur] < L.h[brootKey]
  BY <1>1, <1>2, RootIsHighest
<1> QED BY <1>1, <1>2, <1>3, <1>4, <1>5, <1>6, <1>7, <1>8, <1>9 DEF AtCall

\* The tree setup made is as the invariant has it.
LEMMA InitOK == Init => IInv
<1> SUFFICES ASSUME Init PROVE IInv
  OBVIOUS
<1>1. PICK t \in InitTrees : node = NodesOf(t) /\ brootKey = RootOf(t) /\ nextbid = Len(t.nodes)
  BY DEF Init
<1> DEFINE nd == NodesOf(t)  L == t.label
<1>2. /\ t.nodes \in Seq(Node) /\ Len(t.nodes) <= MaxBid
      /\ IsTree(nd, brootKey, L) /\ IsFilled(nd, brootKey)
      /\ t.nodes # <<>> => t.nodes[1].keys # <<>>
  BY <1>1, BTreeAssumption
<1>3. /\ Len(t.nodes) \in Nat /\ DOMAIN t.nodes = 1 .. Len(t.nodes) /\ MaxBid \in Nat
      /\ (t.nodes # <<>> => Len(t.nodes) > 0)
  BY <1>2, BTreeAssumption, EmptySeq
<1>4. DOMAIN nd = Bids /\ \A x \in Bids : x > nextbid => nd[x] = None
  BY <1>1, <1>3 DEF NodesOf, Bids
<1>5. TreeOK(nd, brootKey, L, nextbid)
  BY <1>2, <1>4 DEF TreeOK
<1>6. Types
  <2>1. nextbid \in Bids \cup {0} /\ brootKey \in Bids \cup {0}
    BY <1>1, <1>2, <1>3 DEF RootOf, Bids
  <2> QED BY <1>1, <1>4, <2>1 DEF Types, Init
<1>7. RootOK(nd)
  <2> SUFFICES ASSUME brootKey # 0
               PROVE  nd[brootKey] # None /\ Len(nd[brootKey].keys) # 0
    BY DEF RootOK
  <2>1. t.nodes # <<>> /\ brootKey = 1
    BY <1>1 DEF RootOf
  <2>2. 1 \in DOMAIN t.nodes /\ 1 \in Bids
    BY <1>2, <1>3, <2>1 DEF Bids
  <2>3. nd[1] = t.nodes[1] /\ nd[1] \in Node
    BY <1>2, <2>2 DEF NodesOf
  <2>4. nd[1] # None /\ nd[1].keys \in Seq(Keys) /\ nd[1].keys # <<>>
    BY <1>2, <2>1, <2>3, NodeFacts
  <2> HIDE DEF nd
  <2> QED BY <2>1, <2>4, EmptySeq
<1>8. Held(nd, L) /\ CallOK(nd, L)
  BY <1>1 DEF Init, Held, CallOK, Copying
<1> QED BY <1>5, <1>6, <1>7, <1>8 DEF IInv, IState

\* What the variables show of nd.
View(nd) ==
  /\ Alike(nd) /\ \A x \in Bids : node[x] # None => node[x] \in Node
  /\ Reachable = {x \in Bids : node[x] # None} /\ keyset = KeysOf(node)
  /\ KeysOf(node) = KeysOf(nd) \ (IF Copying THEN {kw} ELSE {})

\* The operators of BTree, in terms of the tree nd.
LEMMA Views ==
  ASSUME Types, NEW nd, NEW L, IState(nd, L)
  PROVE  View(nd)
<1>1. IsTree(nd, brootKey, L) /\ DOMAIN nd = Bids
  BY DEF IState, TreeOK
<1>2. \A x \in Bids : nd[x] # None => nd[x] \in Node
  BY <1>1 DEF IsTree
<1>3. /\ Alike(nd) /\ \A x \in Bids : node[x] # None => node[x] \in Node
      /\ KeysOf(node) = KeysOf(nd) \ (IF Copying THEN {kw} ELSE {})
  <2>1. CASE ~ Copying
    BY <1>2, <2>1 DEF IState, Held, Alike
  <2>2. CASE Copying
    <3>1. PICK a, j : CopyOf(nd, node, L, a, j, kw, key, L.h[cur])
      BY <2>2 DEF IState, Held
    <3>2. /\ a \in Bids /\ j \in Nat /\ Replaces(nd, node, a, j, key) /\ kw = nd[a].keys[j]
          /\ key \in Keys /\ key \in KeysOf(nd) /\ key # kw
      BY <2>2, <3>1 DEF CopyOf, Types, Copying
    <3>3. /\ nd[a] # None /\ node[a] \in Node /\ node[a].kids = nd[a].kids
          /\ \A x \in Bids \ {a} : node[x] = nd[x]
      BY <3>2 DEF Replaces
    <3>4. Alike(nd)
      BY <3>3, NodeFacts DEF Alike
    <3>5. Swapped(nd, node, kw, key)
      BY ONLY <1>1, <3>2, ReplaceKeys
    <3>6. KeysOf(node) = KeysOf(nd) \ {kw}
      BY <3>2, <3>5 DEF Swapped
    <3> QED BY <1>2, <2>2, <3>3, <3>4, <3>6
  <2> QED BY <2>1, <2>2
<1>4. Reachable = {x \in Bids : node[x] # None}
  BY <1>1, <1>3, ReachableIs DEF Types
<1>5. keyset = KeysOf(node)
  BY <1>3, <1>4, KeysetIs
<1> QED BY <1>3, <1>4, <1>5 DEF View

\* The step leads to a tree with the keys K.
Becomes(K) == Types' /\ \E md, M : IState(md, M)' /\ KeysOf(md) = K

\* An operation begins without changing the tree.
LEMMA BeginOK ==
  ASSUME Types, NEW nd, NEW L, IState(nd, L), NEW kind \in {"insert", "search", "remove"},
         NEW k \in Keys, Begin(kind, k)
  PROVE  Becomes(KeysOf(nd)) /\ ~ Copying /\ ~ Copying'
<1>1. /\ op = "idle" /\ ~ failed /\ (kind = "insert" => k \notin keyset)
      /\ op' = kind /\ kw' = k /\ key' = k /\ cur' = brootKey /\ res' = FALSE
      /\ node' = node /\ brootKey' = brootKey /\ nextbid' = nextbid /\ failed' = failed
  BY DEF Begin
<1>2. Types'
  BY <1>1 DEF Types
<1>3. ~ Copying /\ ~ Copying' /\ node = nd
  BY <1>1 DEF Copying, IState, Held
<1>4. kind = "insert" => k \notin KeysOf(nd)
  BY <1>1, <1>3, Views DEF View
<1>5. TreeOK(nd, brootKey, L, nextbid)
  BY DEF IState
<1>6. brootKey = 0 => KeysOf(nd) = {}
  <2> SUFFICES ASSUME brootKey = 0 PROVE KeysOf(nd) = {}
    OBVIOUS
  <2>1. \A x \in Bids : nd[x] = None
    BY <1>5, TreeNode, KeysAreInts DEF TreeOK
  <2> QED BY <2>1, NoNodes
<1>7. brootKey # 0 => nd[brootKey] # None /\ Len(nd[brootKey].keys) # 0
  BY <1>1 DEF IState, RootOK
<1>8. brootKey # 0 => Within(L, brootKey, k)
  <2> SUFFICES ASSUME brootKey # 0 PROVE Within(L, brootKey, k)
    OBVIOUS
  <2>1. L.lo[brootKey] = 0 /\ L.hi[brootKey] = MaxKey + 1
    BY <1>5, <1>7, TreeNode DEF TreeOK, Types
  <2>2. 0 < k /\ k < MaxKey + 1
    BY BTreeAssumption DEF Keys
  <2> QED BY <2>1, <2>2 DEF Within
<1>9. IState(nd, L)'
  <2>1. TreeOK(nd, brootKey, L, nextbid)'
    BY <1>1, <1>5
  <2>2. Held(nd, L)'
    BY <1>1, <1>3 DEF Held
  <2>3. CallOK(nd, L)'
    BY <1>1, <1>4, <1>6, <1>7, <1>8 DEF CallOK
  <2>4. RootOK(nd)'
    BY <1>1, <1>7 DEF RootOK
  <2> QED BY <2>1, <2>2, <2>3, <2>4 DEF IState
<1> QED BY <1>2, <1>3, <1>9 DEF Becomes

\* A call that throws leaves the tree as it is.
LEMMA ThrowOK ==
  ASSUME Types, NEW nd, NEW L, IState(nd, L), Throw
  PROVE  Becomes(KeysOf(nd)) /\ ~ Copying /\ ~ Copying'
<1>1. /\ op = "search" /\ failed' = TRUE
      /\ node' = node /\ brootKey' = brootKey /\ nextbid' = nextbid /\ res' = res
      /\ op' = op /\ kw' = kw /\ cur' = cur /\ key' = key
  BY DEF Throw, opVars
<1>2. Types'
  BY <1>1 DEF Types
<1>3. ~ Copying /\ ~ Copying'
  BY <1>1 DEF Copying
<1>4. IState(nd, L)'
  BY <1>1, <1>3 DEF IState, Held, CallOK, RootOK
<1> QED BY <1>2, <1>3, <1>4 DEF Becomes

\* An answer is right, and a key that is below goes on to be looked for there.
LEMMA SearchOK ==
  ASSUME Types, NEW nd, NEW L, IState(nd, L), Search
  PROVE  /\ Becomes(KeysOf(nd)) /\ ~ Copying /\ ~ Copying'
         /\ op' = "idle" => res' = (kw \in KeysOf(nd))
         /\ op' # "idle" => op' = op /\ res' = res
         /\ kw' = kw
<1>1. /\ op = "search" /\ cur # 0
      /\ node' = node /\ brootKey' = brootKey /\ nextbid' = nextbid /\ failed' = failed
  BY DEF Search
<1>2. AtCall(nd, L)
  BY <1>1, Calls
<1>3. ~ Copying /\ ~ Copying' /\ node = nd /\ key = kw /\ kw \in Keys /\ res = FALSE
  <2>1. op' # "remove"
    BY <1>1 DEF Search, Return, DescendTo
  <2> QED BY <1>1, <2>1 DEF Copying, IState, Held, CallOK, Types
<1>4. Types /\ TreeOK(nd, brootKey, L, nextbid) /\ IsTree(nd, brootKey, L) /\ RootOK(nd)
  BY DEF IState, TreeOK
<1>40. TreeOK(nd, brootKey, L, nextbid)'
  BY <1>1, <1>4
<1>5. CASE op' = "idle" /\ kw' = kw /\ cur' = cur /\ key' = key
          /\ \/ HasKey(key, cur) /\ res' = TRUE
             \/ ~ HasKey(key, cur) /\ isleaf(cur) /\ res' = res
  <2>1. Types'
    BY <1>1, <1>3, <1>5 DEF Types
  <2>2. IState(nd, L)'
    <3>1. Held(nd, L)'
      BY <1>1, <1>3 DEF Held
    <3>2. CallOK(nd, L)'
      BY <1>5 DEF CallOK
    <3>3. RootOK(nd)'
      BY <1>1, <1>4, <1>5 DEF RootOK
    <3> QED BY <1>40, <3>1, <3>2, <3>3 DEF IState
  <2>3. res' = (kw \in KeysOf(nd))
    <3>1. CASE HasKey(key, cur) /\ res' = TRUE
      <4>1. Has(nd, cur, kw)
        BY <1>2, <1>3, <3>1 DEF AtCall, Finds
      <4>2. kw \in KeysOf(nd)
        BY <1>2, <1>4, <4>1, KeyBounds DEF AtCall
      <4> QED BY <3>1, <4>2
    <3>2. CASE ~ HasKey(key, cur) /\ isleaf(cur) /\ res' = res
      <4>1. ~ Has(nd, cur, kw) /\ L.h[cur] = 0 /\ Within(L, cur, kw) /\ cur \in Bids /\ nd[cur] # None
        BY <1>2, <1>3, <3>2 DEF AtCall, Finds
      <4>2. kw \notin KeysOf(nd)
        BY <1>4, <4>1, LeafHas
      <4>3. res' = FALSE
        BY <1>3, <3>2
      <4>4. (kw \in KeysOf(nd)) = FALSE
        BY <4>2
      <4> QED BY ONLY <4>3, <4>4
    <3> QED BY <1>5, <3>1, <3>2
  <2> QED BY <1>3, <1>5, <2>1, <2>2, <2>3 DEF Becomes
<1>6. CASE ~ HasKey(key, cur) /\ ~ isleaf(cur) /\ DescendTo(ChildFor(key, cur), key) /\ res' = res
  <2> DEFINE c == ChildFor(key, cur)
             g == findKey(key, cur)
             i == g + 1
  <2>1. /\ c = nd[cur].kids[i] /\ g = i - 1 /\ i \in Nat /\ i \in 1 .. Len(nd[cur].keys) + 1
        /\ SepOf(nd, L, cur, g) < key /\ key < SepOf(nd, L, cur, i)
        /\ cur \in Bids /\ nd[cur] # None /\ key \in Int /\ L.h[cur] # 0
    BY <1>2, <1>6 DEF AtCall, Finds, ChildFor
  <2> HIDE DEF c, g, i
  <2>2. Down(nd, brootKey, L, cur, c, key)
    BY <1>4, <2>1, DownAt
  <2>3. op' = op /\ kw' = kw /\ cur' = c /\ key' = key
    BY <1>6 DEF DescendTo, c
  <2>4. Types'
    BY <1>1, <1>3, <1>6, <2>2, <2>3 DEF Types, Down
  <2>5. IState(nd, L)'
    <3>1. Held(nd, L)'
      BY <1>1, <1>3 DEF Held
    <3>2. CallOK(nd, L)'
      BY <1>1, <1>3, <1>6, <2>2, <2>3 DEF CallOK, Down
    <3>3. RootOK(nd)'
      BY <1>1, <1>4, <2>3 DEF RootOK
    <3> QED BY <1>40, <3>1, <3>2, <3>3 DEF IState
  <2> QED BY <1>1, <1>3, <1>6, <2>3, <2>4, <2>5 DEF Becomes
<1>7. \/ /\ op' = "idle" /\ kw' = kw /\ cur' = cur /\ key' = key
         /\ \/ HasKey(key, cur) /\ res' = TRUE
            \/ ~ HasKey(key, cur) /\ isleaf(cur) /\ res' = res
      \/ ~ HasKey(key, cur) /\ ~ isleaf(cur) /\ DescendTo(ChildFor(key, cur), key) /\ res' = res
  BY DEF Search, Return
<1> QED BY <1>5, <1>6, <1>7

\* The first insertion makes the root.
LEMMA InsertFirstOK ==
  ASSUME Types, NEW nd, NEW L, IState(nd, L), InsertFirst
  PROVE  /\ Becomes(KeysOf(nd) \cup {kw}) /\ ~ Copying /\ ~ Copying'
         /\ op' = "idle" /\ kw' = kw /\ res' = res /\ brootKey = 0
<1> DEFINE s == nextbid + 1
<1>0. PICK md : md = node'
  OBVIOUS
<1>1. /\ op = "insert" /\ cur = 0 /\ s <= MaxBid /\ nextbid' = s /\ brootKey' = s
      /\ md = [node EXCEPT ![s] = [keys |-> <<key>>, kids |-> <<>>]]
      /\ op' = "idle" /\ kw' = kw /\ cur' = cur /\ key' = key /\ res' = res /\ failed' = failed
  BY <1>0 DEF InsertFirst, Return
<1>2. ~ Copying /\ ~ Copying' /\ node = nd /\ key = kw /\ kw \in Keys /\ brootKey = 0
  BY <1>1 DEF Copying, IState, Held, CallOK, Types
<1>3. s \in Bids /\ s # 0 /\ s \in Nat
  BY <1>1, BTreeAssumption DEF Types, Bids
<1> HIDE DEF s
<1>4. IsTree(nd, 0, L) /\ DOMAIN nd = Bids
  BY <1>2 DEF IState, TreeOK
<1>5. \A x \in Bids : nd[x] = None
  BY <1>4, TreeNode, KeysAreInts
<1>6. KeysOf(nd) = {}
  BY <1>5, NoNodes
<1>7. /\ md[s] = [keys |-> <<kw>>, kids |-> <<>>] /\ DOMAIN md = Bids
      /\ \A x \in Bids \ {s} : md[x] = None
  BY <1>1, <1>2, <1>3, <1>4, <1>5
<1>8. IsTree(md, s, FirstLabel) /\ KeysOf(md) = {kw} /\ md[s] \in Node
  BY <1>2, <1>3, <1>7, FirstNode
<1>9. md[s].keys = <<kw>> /\ Len(md[s].keys) = 1 /\ md[s] # None /\ T \in Nat /\ T > 1
  BY <1>7, <1>8, NodeFacts, BTreeAssumption
<1>10. IsFilled(md, s)
  <2> SUFFICES ASSUME NEW x \in Bids, md[x] # None
               PROVE  /\ Len(md[x].keys) <= 2 * T - 1
                      /\ x # s => Len(md[x].keys) >= T - 1
                      /\ md[x].kids = <<>> => md[x].keys # <<>>
    BY DEF IsFilled
  <2>1. x = s
    BY <1>7
  <2>2. 1 <= 2 * T - 1 /\ md[s].keys # <<>>
    BY <1>9
  <2> QED BY <1>9, <2>1, <2>2
<1>11. \A x \in Bids : x > s => md[x] = None
  <2> SUFFICES ASSUME NEW x \in Bids, x > s PROVE x # s
    BY <1>7
  <2> QED BY <1>3
<1>12. TreeOK(md, s, FirstLabel, s)
  BY <1>7, <1>8, <1>10, <1>11 DEF TreeOK
<1>13. Types'
  BY <1>0, <1>1, <1>3, <1>7 DEF Types
<1>14. IState(md, FirstLabel)'
  <2>1. Held(md, FirstLabel)'
    BY <1>0, <1>2 DEF Held
  <2>2. CallOK(md, FirstLabel)'
    BY <1>1 DEF CallOK
  <2>3. RootOK(md)'
    BY <1>1, <1>3, <1>9 DEF RootOK
  <2> QED BY <1>1, <1>12, <2>1, <2>2, <2>3 DEF IState
<1>15. KeysOf(md) = KeysOf(nd) \cup {kw}
  BY <1>6, <1>8
<1> QED BY <1>1, <1>2, <1>13, <1>14, <1>15 DEF Becomes

\* insertNFull() goes down to a child that is not full.
LEMMA InsertDescendingOK ==
  ASSUME Types, NEW nd, NEW L, IState(nd, L), InsertDescending
  PROVE  /\ Becomes(KeysOf(nd)) /\ ~ Copying /\ ~ Copying'
         /\ op' = op /\ kw' = kw /\ res' = res
<1> DEFINE c == ChildFor(key, cur)
           g == findKey(key, cur)
           i == g + 1
<1>1. /\ op = "insert" /\ cur # 0 /\ ~ isleaf(cur) /\ keynum(c) < 2 * T - 1
      /\ node' = node /\ brootKey' = brootKey /\ nextbid' = nextbid /\ res' = res /\ failed' = failed
      /\ op' = op /\ kw' = kw /\ cur' = c /\ key' = key
  BY DEF InsertDescending, DescendTo
<1>2. ~ Copying /\ ~ Copying' /\ node = nd /\ key = kw /\ kw \in Keys /\ kw \notin KeysOf(nd)
  BY <1>1 DEF Copying, IState, Held, CallOK, Types
<1>3. AtCall(nd, L)
  BY <1>1, Calls
<1>4. IsTree(nd, brootKey, L) /\ TreeOK(nd, brootKey, L, nextbid) /\ RootOK(nd)
  BY DEF IState, TreeOK
<1>5. ~ HasKey(key, cur)
  <2>1. ~ Has(nd, cur, key)
    BY <1>2, <1>3, <1>4, KeyBounds DEF AtCall
  <2> QED BY <1>3, <2>1 DEF AtCall, Finds
<1>6. /\ c = nd[cur].kids[i] /\ g = i - 1 /\ i \in Nat /\ i \in 1 .. Len(nd[cur].keys) + 1
      /\ SepOf(nd, L, cur, g) < key /\ key < SepOf(nd, L, cur, i)
      /\ cur \in Bids /\ nd[cur] # None /\ key \in Int /\ L.h[cur] # 0
  BY <1>1, <1>3, <1>5 DEF AtCall, Finds, ChildFor
<1> HIDE DEF c, g, i
<1>7. Down(nd, brootKey, L, cur, c, key)
  BY <1>4, <1>6, DownAt
<1>8. Types'
  BY <1>1, <1>7 DEF Types, Down
<1>9. IState(nd, L)'
  <2>1. Held(nd, L)'
    BY <1>1, <1>2 DEF Held
  <2>2. CallOK(nd, L)'
    BY <1>1, <1>2, <1>7, KeysAreInts DEF CallOK, Down, keynum
  <2>3. RootOK(nd)'
    BY <1>1, <1>4 DEF RootOK
  <2> QED BY <1>1, <1>4, <2>1, <2>2, <2>3 DEF IState
<1> QED BY <1>1, <1>2, <1>8, <1>9 DEF Becomes

\* insertNFull() puts the key in its leaf.
LEMMA InsertIntoLeafOK ==
  ASSUME Types, NEW nd, NEW L, IState(nd, L), InsertIntoLeaf
  PROVE  /\ Becomes(KeysOf(nd) \cup {kw}) /\ ~ Copying /\ ~ Copying'
         /\ op' = "idle" /\ kw' = kw /\ res' = res
         /\ cur \in Bids /\ nd[cur] # None /\ \A x \in Bids : (node'[x] = None <=> nd[x] = None)
                                                   /\ (nd[x] # None => node'[x].kids = nd[x].kids)
<1> DEFINE g == findKey(key, cur)
           i == g + 1
<1>0. PICK md : md = node'
  OBVIOUS
<1>1. /\ op = "insert" /\ cur # 0 /\ isleaf(cur) /\ keynum(cur) < 2 * T - 1
      /\ md = With(node, cur, i, key)
      /\ brootKey' = brootKey /\ nextbid' = nextbid /\ res' = res /\ failed' = failed
      /\ op' = "idle" /\ kw' = kw /\ cur' = cur /\ key' = key
  BY <1>0 DEF InsertIntoLeaf, Return, With
<1>2. ~ Copying /\ ~ Copying' /\ node = nd /\ key = kw /\ kw \in Keys /\ kw \notin KeysOf(nd)
  BY <1>1 DEF Copying, IState, Held, CallOK, Types
<1>3. AtCall(nd, L)
  BY <1>1, Calls
<1>4. IsTree(nd, brootKey, L) /\ TreeOK(nd, brootKey, L, nextbid) /\ RootOK(nd) /\ DOMAIN nd = Bids
  BY DEF IState, TreeOK
<1>5. ~ HasKey(key, cur)
  <2>1. ~ Has(nd, cur, key)
    BY <1>2, <1>3, <1>4, KeyBounds DEF AtCall
  <2> QED BY <1>3, <2>1 DEF AtCall, Finds
<1>6. /\ g \in Nat /\ g \in 0 .. Len(nd[cur].keys)
      /\ SepOf(nd, L, cur, g) < kw /\ kw < SepOf(nd, L, cur, i)
      /\ cur \in Bids /\ nd[cur] # None /\ L.h[cur] = 0
      /\ Len(nd[cur].keys) < 2 * T - 1 /\ md = With(nd, cur, i, kw)
  BY <1>1, <1>2, <1>3, <1>5 DEF AtCall, Finds, keynum
<1>61. i = g + 1
  OBVIOUS
<1> HIDE DEF g, i
<1>7. TreeOK(md, brootKey, L, nextbid) /\ KeysOf(md) = KeysOf(nd) \cup {kw} /\ md[brootKey] # None
      /\ md[cur] # None /\ md[cur].kids = nd[cur].kids /\ Len(md[cur].keys) # 0
  BY ONLY <1>2, <1>4, <1>6, <1>61, LeafGrows
<1>8. DOMAIN md = Bids /\ \A x \in Bids \ {cur} : md[x] = nd[x]
  BY <1>4, <1>6 DEF With
<1>9. Len(md[brootKey].keys) # 0 /\ nd[brootKey] # None
  <2>1. brootKey \in Bids /\ nd[brootKey] # None
    BY <1>3 DEF AtCall
  <2>2. Len(nd[brootKey].keys) # 0
    BY <1>1, <1>4, <2>1, KeysAreInts DEF RootOK
  <2> QED BY <1>7, <1>8, <2>1, <2>2
<1>10. Types'
  BY <1>0, <1>1, <1>8 DEF Types
<1>11. IState(md, L)'
  <2>1. Held(md, L)'
    BY <1>0, <1>2 DEF Held
  <2>2. CallOK(md, L)'
    BY <1>1 DEF CallOK
  <2>3. RootOK(md)'
    BY <1>1, <1>7, <1>9 DEF RootOK
  <2> QED BY <1>1, <1>7, <2>1, <2>2, <2>3 DEF IState
<1> QED BY <1>0, <1>1, <1>2, <1>6, <1>7, <1>8, <1>9, <1>10, <1>11 DEF Becomes

\* insertkw() splits a full root.
LEMMA SplitRootOK ==
  ASSUME Types, NEW nd, NEW L, IState(nd, L), SplitRoot
  PROVE  /\ Becomes(KeysOf(nd)) /\ ~ Copying /\ ~ Copying'
         /\ op' = op /\ kw' = kw /\ res' = res
<1> DEFINE r == brootKey
           s == nextbid + 1
           z == nextbid + 2
<1>0. PICK od : od = node'
  OBVIOUS
<1>00. PICK md : md = [node EXCEPT ![s] = [keys |-> <<>>, kids |-> <<r>>]]
  OBVIOUS
<1>1. /\ op = "insert" /\ cur = r /\ cur # 0 /\ keynum(cur) = 2 * T - 1 /\ z <= MaxBid
      /\ od = SplitChild(md, s, 1, r, z)
      /\ brootKey' = s /\ nextbid' = z /\ res' = res /\ failed' = failed
      /\ op' = op /\ kw' = kw /\ cur' = (IF od[s].keys[1] < key THEN s ELSE r) /\ key' = key
  BY <1>0, <1>00 DEF SplitRoot, DescendTo
<1>2. ~ Copying /\ ~ Copying' /\ node = nd /\ key = kw /\ kw \in Keys /\ kw \notin KeysOf(nd)
  BY <1>1 DEF Copying, IState, Held, CallOK, Types
<1>3. AtCall(nd, L)
  BY <1>1, Calls
<1>4. TreeOK(nd, r, L, nextbid) /\ r \in Bids /\ nd[r] # None /\ Len(nd[r].keys) = 2 * T - 1
  BY <1>1, <1>2, <1>3 DEF IState, AtCall, keynum
<1>5. nextbid \in Nat /\ Bids \subseteq Nat /\ s \in Bids /\ z \in Bids
  BY <1>1, BTreeAssumption DEF Types, Bids
<1>6. s > nextbid /\ z > s /\ (\A x \in Bids : (x > s => x > nextbid) /\ (x > z => x > s)) /\ s # 0
  BY <1>5
<1> HIDE DEF s, z
<1>7. md = [nd EXCEPT ![s] = [keys |-> <<>>, kids |-> <<r>>]]
  BY <1>00, <1>2
<1>71. od = SplitChild(md, s, 1, r, z)
  BY <1>1
<1>8. RootSplit(nd, md, od, r, s, z)
  BY ONLY <1>71, <1>4, <1>5, <1>6, <1>7, RootSplits
<1>9. PICK M : Splits(md, od, s, M, s, 1, r, z) /\ M.lo[r] = 0 /\ M.hi[r] = MaxKey + 1
  BY <1>8 DEF RootSplit
<1>10. PICK N : /\ TreeOK(od, s, N, z)
                /\ N.lo[r] = M.lo[r] /\ N.hi[r] = od[s].keys[1]
  BY <1>9 DEF Splits
<1> DEFINE mid == od[s].keys[1]
<1>11. /\ KeysOf(od) = KeysOf(nd) /\ mid \in KeysOf(nd) /\ mid \in Int
       /\ od[s] # None /\ od[r] # None /\ Len(od[r].keys) = T - 1
       /\ Joins(od, md, s, 1, r, z)
  BY <1>8, <1>9 DEF Splits, RootSplit
<1>12. Len(od[s].keys) # 0
  <2>1. md[s] \in Node /\ Len(od[s].keys) = Len(md[s].keys) + 1
    BY <1>11 DEF Joins
  <2>2. Len(md[s].keys) \in Nat
    BY <2>1, NodeFacts
  <2> QED BY <2>1, <2>2
<1>13. key \in Int /\ 0 < key /\ key < MaxKey + 1 /\ key # mid /\ T \in Nat /\ T > 1
  BY <1>2, <1>11, BTreeAssumption DEF Keys
<1>14. Within(N, s, key)
  <2>1. N.lo[s] = 0 /\ N.hi[s] = MaxKey + 1
    BY <1>5, <1>10, <1>11, TreeNode DEF TreeOK
  <2> QED BY <1>13, <2>1 DEF Within
<1>15. ~ (mid < key) => Within(N, r, key)
  <2> SUFFICES ASSUME ~ (mid < key) PROVE Within(N, r, key)
    OBVIOUS
  <2>1. N.lo[r] = 0 /\ N.hi[r] = mid
    BY <1>9, <1>10
  <2> HIDE DEF mid
  <2>2. key < mid
    BY ONLY <1>11, <1>13, ~ (mid < key)
  <2> QED BY <1>13, <2>1, <2>2 DEF Within
<1>16. DOMAIN od = Bids
  BY <1>10 DEF TreeOK
<1> HIDE DEF mid
<1>17. cur' = s \/ (cur' = r /\ ~ (mid < key))
  BY <1>1 DEF mid
<1>18. Types'
  BY <1>0, <1>1, <1>4, <1>5, <1>16, <1>17 DEF Types
<1>19. IState(od, N)'
  <2>1. Held(od, N)'
    BY <1>0, <1>2 DEF Held
  <2>2. CallOK(od, N)'
    <3>1. od[cur'] # None /\ Within(N, cur', key')
      BY <1>1, <1>11, <1>14, <1>15, <1>17
    <3>2. cur' \notin {0, brootKey'} => Len(od[cur'].keys) < 2 * T - 1
      BY <1>1, <1>11, <1>13, <1>17
    <3>3. cur' # 0
      BY <1>1, <1>6, <1>17
    <3> QED BY <1>1, <1>2, <1>11, <3>1, <3>2, <3>3 DEF CallOK
  <2>3. RootOK(od)'
    BY <1>1, <1>11, <1>12 DEF RootOK
  <2> QED BY <1>1, <1>10, <2>1, <2>2, <2>3 DEF IState
<1> QED BY <1>1, <1>2, <1>11, <1>18, <1>19 DEF Becomes

\* insertNFull() splits a full child and goes down to one half.
LEMMA InsertSplittingOK ==
  ASSUME Types, NEW nd, NEW L, IState(nd, L), InsertSplitting
  PROVE  /\ Becomes(KeysOf(nd)) /\ ~ Copying /\ ~ Copying'
         /\ op' = op /\ kw' = kw /\ res' = res
<1> DEFINE y == ChildFor(key, cur)
           g == findKey(key, cur)
           i == g + 1
           z == nextbid + 1
<1>0. PICK od : od = node'
  OBVIOUS
<1>1. /\ op = "insert" /\ cur # 0 /\ ~ isleaf(cur) /\ keynum(cur) < 2 * T - 1
      /\ keynum(y) = 2 * T - 1 /\ z <= MaxBid
      /\ od = SplitChild(node, cur, i, y, z)
      /\ nextbid' = z /\ brootKey' = brootKey /\ res' = res /\ failed' = failed
      /\ op' = op /\ kw' = kw /\ cur' = (IF od[cur].keys[i] < key THEN z ELSE y) /\ key' = key
  BY <1>0 DEF InsertSplitting, DescendTo
<1>2. ~ Copying /\ ~ Copying' /\ node = nd /\ key = kw /\ kw \in Keys /\ kw \notin KeysOf(nd)
  BY <1>1 DEF Copying, IState, Held, CallOK, Types
<1>3. AtCall(nd, L)
  BY <1>1, Calls
<1>4. IsTree(nd, brootKey, L) /\ TreeOK(nd, brootKey, L, nextbid) /\ RootOK(nd)
  BY DEF IState, TreeOK
<1>5. ~ HasKey(key, cur)
  <2>1. ~ Has(nd, cur, key)
    BY <1>2, <1>3, <1>4, KeyBounds DEF AtCall
  <2> QED BY <1>3, <2>1 DEF AtCall, Finds
<1>6. /\ y = nd[cur].kids[i] /\ g = i - 1 /\ i \in Nat /\ i \in 1 .. Len(nd[cur].keys) + 1
      /\ SepOf(nd, L, cur, g) < key /\ key < SepOf(nd, L, cur, i)
      /\ cur \in Bids /\ nd[cur] # None /\ key \in Int /\ L.h[cur] # 0
      /\ Len(nd[cur].keys) < 2 * T - 1 /\ Len(nd[y].keys) = 2 * T - 1
  BY <1>1, <1>2, <1>3, <1>5 DEF AtCall, Finds, ChildFor, keynum
<1>7. nextbid \in Nat /\ Bids \subseteq Nat /\ z \in Bids
  BY <1>1, BTreeAssumption DEF Types, Bids
<1>8. z > nextbid /\ (\A x \in Bids : x > z => x > nextbid) /\ z # 0
  BY <1>7
<1> HIDE DEF y, g, i, z
<1>9. Down(nd, brootKey, L, cur, y, key) /\ i \in 1 .. Len(nd[cur].kids)
  BY <1>4, <1>6, DownAt
<1>10. od = SplitChild(nd, cur, i, y, z)
  BY <1>1, <1>2
<1>11. Splits(nd, od, brootKey, L, cur, i, y, z)
  BY ONLY <1>4, <1>6, <1>7, <1>8, <1>9, <1>10, SplitStep
<1>12. PICK N : /\ TreeOK(od, brootKey, N, z)
                /\ N.lo[y] = L.lo[y] /\ N.hi[y] = od[cur].keys[i]
                /\ N.lo[z] = od[cur].keys[i] /\ N.hi[z] = L.hi[y]
  BY <1>11 DEF Splits
<1> DEFINE mid == od[cur].keys[i]
<1>13. /\ KeysOf(od) = KeysOf(nd) /\ mid \in KeysOf(nd) /\ mid \in Int
       /\ od[y] # None /\ od[z] # None /\ Len(od[y].keys) = T - 1 /\ Len(od[z].keys) = T - 1
       /\ Joins(od, nd, cur, i, y, z) /\ y \in Bids /\ y # brootKey /\ z # brootKey /\ od[cur] # None
  BY <1>11 DEF Splits
<1>14. key # mid /\ T \in Nat /\ T > 1 /\ L.lo[y] < key /\ key < L.hi[y]
  BY <1>2, <1>9, <1>13, BTreeAssumption DEF Down, Within
<1>15. N.lo[y] = L.lo[y] /\ N.hi[y] = mid /\ N.lo[z] = mid /\ N.hi[z] = L.hi[y]
  BY <1>12
<1>16. DOMAIN od = Bids
  BY <1>12 DEF TreeOK
<1>17. brootKey \in Bids /\ nd[brootKey] # None /\ Len(nd[brootKey].keys) # 0
  <2>1. brootKey \in Bids /\ nd[brootKey] # None
    BY <1>3 DEF AtCall
  <2> QED BY <1>1, <1>4, <2>1, KeysAreInts DEF RootOK
<1>18. od[brootKey] # None /\ Len(od[brootKey].keys) # 0
  <2>1. nd[cur] \in Node /\ Len(od[cur].keys) = Len(nd[cur].keys) + 1
    BY <1>13 DEF Joins
  <2>2. Len(nd[cur].keys) \in Nat
    BY <2>1, NodeFacts
  <2>3. Len(od[cur].keys) # 0
    BY <2>1, <2>2
  <2>4. CASE brootKey = cur
    BY <1>13, <2>3, <2>4
  <2>5. CASE brootKey # cur
    BY <1>13, <1>17, <2>5 DEF Joins
  <2> QED BY <2>4, <2>5
<1>19. cur' = (IF mid < key THEN z ELSE y)
  BY <1>1
<1> HIDE DEF mid
<1>20. (cur' = z /\ mid < key) \/ (cur' = y /\ ~ (mid < key))
  BY <1>19
<1>21. ~ (mid < key) => Within(N, y, key)
  <2> SUFFICES ASSUME ~ (mid < key) PROVE Within(N, y, key)
    OBVIOUS
  <2>2. key < mid
    BY ONLY <1>6, <1>13, <1>14, ~ (mid < key)
  <2> QED BY <1>14, <1>15, <2>2 DEF Within
<1>22. mid < key => Within(N, z, key)
  BY <1>14, <1>15 DEF Within
<1>23. Types'
  BY <1>0, <1>1, <1>7, <1>13, <1>16, <1>20 DEF Types
<1>24. IState(od, N)'
  <2>1. Held(od, N)'
    BY <1>0, <1>2 DEF Held
  <2>2. CallOK(od, N)'
    <3>1. od[cur'] # None /\ Within(N, cur', key')
      BY <1>1, <1>13, <1>20, <1>21, <1>22
    <3>2. Len(od[cur'].keys) < 2 * T - 1
      BY <1>13, <1>14, <1>20
    <3>3. cur' # 0
      BY <1>8, <1>13, <1>20, KeysAreInts
    <3> QED BY <1>1, <1>2, <1>13, <3>1, <3>2, <3>3 DEF CallOK
  <2>3. RootOK(od)'
    BY <1>1, <1>18 DEF RootOK
  <2> QED BY <1>1, <1>12, <2>1, <2>2, <2>3 DEF IState
<1> QED BY <1>1, <1>2, <1>13, <1>23, <1>24 DEF Becomes

\* The root alone, with one key, goes.
Emptied(nd, md, r, L, last, k) == TreeOK(md, r, L, last) /\ KeysOf(md) = {} /\ KeysOf(nd) \ {k} = {}

\* A tree of one key is empty without it.
LEMMA LastNode ==
  ASSUME NEW nd, NEW r \in Bids, NEW L, NEW last, TreeOK(nd, r, L, last), nd[r] # None, L.h[r] = 0,
         Len(nd[r].keys) = 1, NEW k, nd[r].keys[1] = k, NEW md, md = [nd EXCEPT ![r] = None]
  PROVE  Emptied(nd, md, r, L, last, k)
<1>1. IsTree(nd, r, L) /\ DOMAIN nd = Bids
  BY DEF TreeOK
<1>2. ASSUME NEW x \in Bids, x # r PROVE nd[x] = None
  <2>1. nd[x] # None => L.h[x] < 0 /\ L.h[x] \in Nat
    BY <1>1, <1>2, RootIsHighest
  <2> QED BY <2>1
<1>3. \A x \in Bids : md[x] = None
  BY <1>1, <1>2
<1>4. KeysOf(md) = {} /\ IsTree(md, r, L)
  BY <1>3, NoNodes
<1>5. TreeOK(md, r, L, last)
  BY <1>1, <1>3, <1>4 DEF TreeOK, IsFilled
<1>6. KeysOf(nd) \ {k} = {}
  BY <1>2 DEF KeysOf, Has
<1> QED BY <1>4, <1>5, <1>6 DEF Emptied

\* While the copy of a key moves down from node a, the key is in the tree still,
\* below a.
CopyBelow(nd, L, a, j) ==
  /\ a \in Bids /\ j \in Nat /\ Replaces(nd, node, a, j, key) /\ nd[a].keys[j] = kw
  /\ key \in KeysOf(nd) /\ key \in Keys /\ key # kw /\ \A k \in KeysOf(nd) : ~ Between(k, key, kw)
  /\ cur # a /\ cur # brootKey /\ L.h[cur] < L.h[a] /\ kw \in KeysOf(nd)
  /\ Has(nd, a, kw) /\ L.h[a] > L.h[cur]

\* What the invariant says of a call that carries a copy down.
LEMMA CopyAt ==
  ASSUME Types, NEW nd, NEW L, IState(nd, L), Copying, NEW a, NEW j,
         CopyOf(nd, node, L, a, j, kw, key, L.h[cur])
  PROVE  CopyBelow(nd, L, a, j)
<1>1. /\ a \in Bids /\ j \in Nat /\ Replaces(nd, node, a, j, key) /\ nd[a].keys[j] = kw
      /\ L.h[a] > L.h[cur] /\ key \in KeysOf(nd) /\ key # kw /\ key \in Keys
      /\ \A k \in KeysOf(nd) : ~ Between(k, key, kw)
  BY DEF CopyOf, Types
<1>2. AtCall(nd, L)
  BY Calls DEF Copying
<1>3. IsTree(nd, brootKey, L) /\ nd[a] # None /\ cur \in Bids /\ nd[cur] # None
  BY <1>1, <1>2 DEF AtCall, Replaces
<1>4. Has(nd, a, kw)
  BY <1>1, <1>3 DEF Has, Replaces
<1>5. kw \in KeysOf(nd)
  BY <1>1, <1>3, <1>4, KeyBounds
<1>6. L.h[a] \in Nat /\ L.h[cur] \in Nat
  BY <1>1, <1>3, TreeNode
<1>7. L.h[cur] < L.h[a] /\ ~ (L.h[cur] > L.h[cur])
  BY <1>1, <1>6
<1>8. cur # brootKey
  <2> SUFFICES ASSUME cur = brootKey PROVE FALSE
    OBVIOUS
  <2>1. a # brootKey
    BY <1>1, <1>7
  <2>2. L.h[a] < L.h[cur]
    BY <1>1, <1>3, <2>1, RootIsHighest
  <2> DEFINE u == L.h[a]  v == L.h[cur]
  <2>3. u \in Nat /\ v \in Nat /\ u < v /\ v < u
    BY <1>6, <1>7, <2>2
  <2> HIDE DEF u, v
  <2> QED BY ONLY <2>3
<1> QED BY <1>1, <1>4, <1>5, <1>7, <1>8 DEF CopyBelow

\* removeFromLeaf() takes the key out, with its copy or without.
LEMMA DeleteInLeafOK ==
  ASSUME Types, NEW nd, NEW L, IState(nd, L), DeleteInLeaf
  PROVE  /\ Becomes(KeysOf(nd) \ {kw}) /\ ~ Copying'
         /\ op = "remove" /\ op' = op /\ kw' = kw /\ res' = res
<1> DEFINE g == findKey(key, cur)
           i == g + 1
<1>0. PICK md : md = node'
  OBVIOUS
<1>1. /\ op = "remove" /\ cur # 0 /\ isleaf(cur)
      /\ \/ /\ HasKey(key, cur)
            /\ md = [node EXCEPT ![cur] = IF keynum(cur) = 1 THEN None
                                          ELSE [@ EXCEPT !.keys = RemoveAt(node[cur].keys, i)]]
         \/ ~ HasKey(key, cur) /\ md = node
      /\ brootKey' = brootKey /\ nextbid' = nextbid /\ res' = res /\ failed' = failed
      /\ op' = op /\ kw' = kw /\ cur' = 0 /\ key' = key
  BY <1>0 DEF DeleteInLeaf, Deleting, DescendTo
<1>2. ~ Copying'
  BY <1>1 DEF Copying
<1>3. AtCall(nd, L)
  BY <1>1, Calls
<1>4. IsTree(nd, brootKey, L) /\ TreeOK(nd, brootKey, L, nextbid) /\ DOMAIN node = Bids
  BY DEF IState, TreeOK, Types
<1>5. /\ cur \in Bids /\ nd[cur] # None /\ node[cur] = nd[cur] /\ L.h[cur] = 0 /\ Within(L, cur, key)
      /\ HasKey(key, cur) <=> Has(nd, cur, key)
      /\ g \in Nat /\ (HasKey(key, cur) => i \in 1 .. Len(nd[cur].keys) /\ nd[cur].keys[i] = key)
      /\ Len(nd[cur].keys) \in Nat /\ keynum(cur) = Len(nd[cur].keys)
      /\ (cur # brootKey => Len(nd[cur].keys) >= T)
      /\ brootKey \in Bids /\ T \in Nat /\ T > 1
  BY <1>1, <1>3, BTreeAssumption DEF AtCall, Finds, IState, CallOK, keynum
<1>51. i \in Nat
  BY <1>5
<1> HIDE DEF g, i
<1>6. HasKey(key, cur) /\ keynum(cur) # 1 => md = Without(node, cur, i)
  <2> SUFFICES ASSUME HasKey(key, cur), keynum(cur) # 1
               PROVE  md = Without(node, cur, i)
    OBVIOUS
  <2>1. md = [node EXCEPT ![cur] = IF keynum(cur) = 1 THEN None
                                   ELSE [@ EXCEPT !.keys = RemoveAt(node[cur].keys, i)]]
    BY <1>1
  <2> DEFINE e == [node[cur] EXCEPT !.keys = RemoveAt(node[cur].keys, i)]
  <2>2. md = [node EXCEPT ![cur] = IF keynum(cur) = 1 THEN None ELSE e]
    BY <2>1
  <2>3. Without(node, cur, i) = [node EXCEPT ![cur] = e]
    BY DEF Without
  <2> HIDE DEF e
  <2>4. (IF keynum(cur) = 1 THEN None ELSE e) = e
    OBVIOUS
  <2> QED BY <2>2, <2>3, <2>4
<1>7. (\E M : TreeOK(md, brootKey, M, nextbid)) /\ KeysOf(md) = KeysOf(nd) \ {kw}
  <2>1. CASE Copying
    <3>1. PICK a, j : CopyOf(nd, node, L, a, j, kw, key, L.h[cur])
      BY <2>1 DEF IState, Held
    <3>2. /\ a \in Bids /\ j \in Nat /\ Replaces(nd, node, a, j, key) /\ nd[a].keys[j] = kw
          /\ key \in KeysOf(nd) /\ key \in Keys /\ kw # key /\ \A k \in KeysOf(nd) : ~ Between(k, key, kw)
          /\ cur # a /\ cur # brootKey
      <4>1. CopyBelow(nd, L, a, j)
        BY <2>1, <3>1, CopyAt
      <4> QED BY <4>1 DEF CopyBelow
    <3>3. Has(nd, cur, key)
      BY <1>4, <1>5, <3>2, LeafHas
    <3>4. HasKey(key, cur) /\ i \in 1 .. Len(nd[cur].keys) /\ nd[cur].keys[i] = key
      BY <1>5, <3>3
    <3>50. Len(nd[cur].keys) >= T
      BY <1>5, <3>2
    <3>5. Len(nd[cur].keys) >= T /\ keynum(cur) # 1
      <4> DEFINE n == Len(nd[cur].keys)
      <4>1. n >= T /\ n \in Nat /\ T \in Nat /\ T > 1 /\ keynum(cur) = n
        BY <1>5, <3>50
      <4> HIDE DEF n
      <4>2. n # 1
        BY ONLY <4>1
      <4> QED BY <4>1, <4>2 DEF n
    <3>6. md = Without(node, cur, i)
      BY <1>6, <3>4, <3>5
    <3>7. Removed(nd, md, brootKey, nextbid, kw)
      BY ONLY <1>4, <1>5, <1>51, <3>2, <3>4, <3>5, <3>6, CopyRemoved
    <3> QED BY <3>7 DEF Removed
  <2>2. CASE ~ Copying /\ HasKey(key, cur) /\ keynum(cur) # 1
    <3>1. node = nd /\ key = kw
      BY <1>1, <2>2 DEF IState, Held, Copying
    <3>2. md = Without(nd, cur, i) /\ i \in 1 .. Len(nd[cur].keys) /\ nd[cur].keys[i] = kw
      BY <1>5, <1>6, <2>2, <3>1
    <3>3. Len(nd[cur].keys) >= T \/ (cur = brootKey /\ Len(nd[cur].keys) # 1)
      BY <1>5, <2>2
    <3>4. TreeOK(md, brootKey, L, nextbid) /\ KeysOf(md) = KeysOf(nd) \ {nd[cur].keys[i]}
      BY ONLY <1>4, <1>5, <1>51, <3>2, <3>3, LeafShrinks
    <3> QED BY <3>2, <3>4
  <2>3. CASE ~ Copying /\ HasKey(key, cur) /\ keynum(cur) = 1
    <3>1. node = nd /\ key = kw
      BY <1>1, <2>3 DEF IState, Held, Copying
    <3>2. cur = brootKey /\ Len(nd[cur].keys) = 1
      BY <1>5, <2>3
    <3>3. nd[cur].keys[1] = kw
      BY <1>5, <2>3, <3>1, <3>2
    <3>4. md = [nd EXCEPT ![cur] = None]
      BY <1>1, <2>3, <3>1
    <3>5. TreeOK(md, brootKey, L, nextbid) /\ KeysOf(md) = {} /\ KeysOf(nd) \ {kw} = {}
      <4>1. brootKey \in Bids /\ nd[brootKey] # None /\ L.h[brootKey] = 0 /\ Len(nd[brootKey].keys) = 1
            /\ nd[brootKey].keys[1] = kw /\ md = [nd EXCEPT ![brootKey] = None]
        BY <1>5, <3>2, <3>3, <3>4
      <4>2. Emptied(nd, md, brootKey, L, nextbid, kw)
        BY ONLY <1>4, <4>1, LastNode
      <4> QED BY <4>2 DEF Emptied
    <3> QED BY <3>5
  <2>4. CASE ~ Copying /\ ~ HasKey(key, cur)
    <3>1. node = nd /\ key = kw /\ md = node
      BY <1>1, <2>4 DEF IState, Held, Copying
    <3>2. kw \notin KeysOf(nd)
      BY <1>4, <1>5, <2>4, <3>1, LeafHas
    <3> QED BY <1>4, <3>1, <3>2
  <2> QED BY <2>1, <2>2, <2>3, <2>4
<1>8. PICK M : TreeOK(md, brootKey, M, nextbid)
  BY <1>7
<1>9. DOMAIN md = Bids
  BY <1>8 DEF TreeOK
<1>10. Types'
  BY <1>0, <1>1, <1>9 DEF Types
<1>11. IState(md, M)'
  <2>1. Held(md, M)'
    BY <1>0, <1>2 DEF Held
  <2>2. CallOK(md, M)'
    BY <1>1, <1>7 DEF CallOK
  <2>3. RootOK(md)'
    BY <1>1, <1>5 DEF RootOK
  <2> QED BY <1>1, <1>8, <2>1, <2>2, <2>3 DEF IState
<1> QED BY <1>1, <1>2, <1>7, <1>10, <1>11 DEF Becomes

\* A deletion goes on at the filled child c of cur; nt is what node becomes.
LEMMA FillsOK ==
  ASSUME Types, NEW nd, NEW L, IState(nd, L), op = "remove", cur # 0, NEW od, NEW nt, NEW c,
         Fills(nd, od, brootKey, L, nextbid, cur, c, key),
         ~ Copying => nt = od,
         \A a \in Bids : Copying /\ L.h[a] > L.h[cur] /\ (\A x \in Bids \ {a} : node[x] = nd[x])
                           => KeepsCopy(nd, node, od, nt, a),
         nt = node', DOMAIN nt = Bids,
         brootKey' = brootKey, nextbid' = nextbid, res' = res, failed' = failed,
         op' = op, kw' = kw, key' = key, cur' = c
  PROVE  Becomes(KeysOf(nd)) /\ (Copying' <=> Copying)
<1>1. PICK N : /\ TreeOK(od, brootKey, N, nextbid) /\ Within(N, c, key)
               /\ \A x \in Bids : N.h[x] = L.h[x]
  BY DEF Fills
<1>2. /\ KeysOf(od) = KeysOf(nd) /\ c \in Bids /\ c # brootKey /\ od[c] # None /\ Len(od[c].keys) >= T
      /\ L.h[cur] = L.h[c] + 1
  BY DEF Fills
<1>3. c # 0 /\ cur \in Bids
  BY <1>2, KeysAreInts DEF Types
<1>4. Copying' <=> Copying
  BY <1>3 DEF Copying
<1>5. Types'
  BY <1>2 DEF Types
<1>6. Held(od, N)'
  <2>1. CASE ~ Copying
    BY <1>4, <2>1 DEF Held
  <2>2. CASE Copying
    <3>1. PICK a, j : CopyOf(nd, node, L, a, j, kw, key, L.h[cur])
      BY <2>2 DEF IState, Held
    <3>2. CopyBelow(nd, L, a, j)
      BY <2>2, <3>1, CopyAt
    <3>3. /\ a \in Bids /\ j \in Nat /\ Replaces(nd, node, a, j, key) /\ nd[a].keys[j] = kw
          /\ key \in KeysOf(nd) /\ kw # key /\ \A k \in KeysOf(nd) : ~ Between(k, key, kw)
          /\ L.h[a] > L.h[cur] /\ \A x \in Bids \ {a} : node[x] = nd[x]
      BY <3>2 DEF CopyBelow, Replaces
    <3>4. KeepsCopy(nd, node, od, nt, a)
      BY <2>2, <3>3
    <3>5. Replaces(od, nt, a, j, key)
      BY <3>3, <3>4, CopyKept
    <3>6. od[a].keys[j] = kw
      BY <3>3, <3>4 DEF KeepsCopy
    <3>7. N.h[a] > N.h[c]
      <4>1. AtCall(nd, L)
        BY Calls
      <4>2. IsTree(nd, brootKey, L) /\ nd[a] # None /\ nd[cur] # None
        BY <3>3, <4>1 DEF AtCall, Replaces
      <4>3. L.h[a] \in Nat /\ L.h[cur] \in Nat
        BY <1>3, <3>3, <4>2, TreeNode
      <4>4. IsTree(od, brootKey, N)
        BY <1>1 DEF TreeOK
      <4>5. N.h[c] \in Nat
        BY <1>2, <4>4, TreeNode
      <4>6. N.h[a] = L.h[a] /\ N.h[c] = L.h[c]
        BY <1>1, <1>2, <3>3
      <4> DEFINE u == L.h[a]  v == L.h[cur]  w == L.h[c]
      <4>7. u \in Nat /\ v \in Nat /\ w \in Nat /\ u > v /\ v = w + 1
        BY <1>2, <3>3, <4>3, <4>5, <4>6
      <4> HIDE DEF u, v, w
      <4>8. u > w
        BY ONLY <4>7
      <4> QED BY <4>6, <4>8 DEF u, w
    <3>8. CopyOf(od, nt, N, a, j, kw, key, N.h[c])
      BY <1>2, <3>3, <3>5, <3>6, <3>7 DEF CopyOf
    <3> QED BY <1>4, <2>2, <3>8 DEF Held
  <2> QED BY <2>1, <2>2
<1>7. CallOK(od, N)'
  BY <1>1, <1>2, <1>3 DEF CallOK
<1>8. RootOK(od)'
  <2>1. IsTree(od, brootKey, N)
    BY <1>1 DEF TreeOK
  <2>2. od[brootKey] # None
    BY <1>2, <2>1, TreeNode
  <2> QED BY <1>2, <2>2 DEF RootOK
<1>9. IState(od, N)'
  BY <1>1, <1>6, <1>7, <1>8 DEF IState
<1> QED BY <1>2, <1>4, <1>5, <1>9 DEF Becomes

\* What deletion() finds at an inner node: the child at position i, and its
\* neighbours, as they are in nd.
LEMMA DeleteBelowOK ==
  ASSUME Types, NEW nd, NEW L, IState(nd, L), DeleteBelow
  PROVE  /\ Becomes(KeysOf(nd)) /\ (Copying' <=> Copying)
         /\ op = "remove" /\ op' = op /\ kw' = kw /\ res' = res
<1> DEFINE g == findKey(key, cur)
           i == g + 1
           n == keynum(cur)
           c == node[cur].kids[i]
           b == node[cur].kids[i - 1]
           d == node[cur].kids[i + 1]
           prevHas == i > 1 /\ CanGive(b)
           nextHas == i <= n /\ CanGive(d)
<1>0. PICK nt : nt = node'
  OBVIOUS
<1>1. /\ op = "remove" /\ cur # 0 /\ ~ isleaf(cur) /\ ~ HasKey(key, cur)
      /\ \/ CanGive(c) /\ nt = node /\ cur' = c
         \/ ~ CanGive(c) /\ prevHas /\ nt = BorrowFromPrev(node, cur, i) /\ cur' = c
         \/ ~ CanGive(c) /\ ~ prevHas /\ nextHas /\ nt = BorrowFromNext(node, cur, i) /\ cur' = c
         \/ ~ CanGive(c) /\ ~ prevHas /\ ~ nextHas /\ i <= n /\ nt = MergeAt(node, cur, i) /\ cur' = c
         \/ ~ CanGive(c) /\ ~ prevHas /\ ~ nextHas /\ i > n /\ nt = MergeAt(node, cur, i - 1) /\ cur' = b
      /\ brootKey' = brootKey /\ nextbid' = nextbid /\ res' = res /\ failed' = failed
      /\ op' = op /\ kw' = kw /\ key' = key
  BY <1>0 DEF DeleteBelow, Deleting, DescendTo
<1>2. AtCall(nd, L)
  BY <1>1, Calls
<1>3. /\ IsTree(nd, brootKey, L) /\ TreeOK(nd, brootKey, L, nextbid) /\ RootOK(nd)
      /\ DOMAIN node = Bids /\ DOMAIN nd = Bids
  BY DEF IState, TreeOK, Types
<1>4. /\ cur \in Bids /\ key \in Int /\ nd[cur] # None /\ node[cur] = nd[cur] /\ L.h[cur] # 0 /\ L.h[cur] \in Nat
      /\ g \in Nat /\ i \in Nat /\ g = i - 1 /\ i \in 1 .. Len(nd[cur].keys) + 1
      /\ SepOf(nd, L, cur, g) < key /\ key < SepOf(nd, L, cur, i)
      /\ Len(nd[cur].keys) \in Nat /\ n = Len(nd[cur].keys)
      /\ \A x \in Bids : L.h[x] <= L.h[cur] => node[x] = nd[x]
      /\ c = nd[cur].kids[i] /\ b = nd[cur].kids[i - 1] /\ d = nd[cur].kids[i + 1]
  BY <1>1, <1>2 DEF AtCall, Finds, keynum
<1> HIDE DEF g, i, n, c, b, d
<1>5. Down(nd, brootKey, L, cur, c, key) /\ i \in 1 .. Len(nd[cur].kids)
  BY <1>3, <1>4, DownAt
<1>6. /\ c \in Bids /\ nd[c] # None /\ c # brootKey /\ c # cur /\ Within(L, c, key)
      /\ L.h[c] \in Nat /\ L.h[cur] = L.h[c] + 1
  BY <1>5 DEF Down
<1>7. T \in Nat /\ T > 1 /\ (cur # brootKey => Len(nd[cur].keys) >= T) /\ n # 0
  <2>1. cur # brootKey => Len(nd[cur].keys) >= T
    BY <1>1 DEF IState, CallOK
  <2>2. CASE cur = brootKey
    BY <1>1, <1>3, <1>4, <2>2, BTreeAssumption DEF RootOK
  <2>3. CASE cur # brootKey
    BY <1>4, <2>1, <2>3, BTreeAssumption
  <2> QED BY <2>1, <2>2, <2>3, BTreeAssumption
\* A child x of cur is as in nd, and half full at least.
<1>8. ASSUME NEW x \in Bids, nd[x] # None, L.h[cur] = L.h[x] + 1, L.h[x] \in Nat, x # brootKey
      PROVE  /\ CanGive(x) <=> Len(nd[x].keys) >= T
             /\ ~ CanGive(x) => Len(nd[x].keys) = T - 1
  <2> DEFINE m == Len(nd[x].keys)
  <2>1. m \in Nat /\ m >= T - 1
    BY <1>3, <1>8, Filled
  <2>2. node[x] = nd[x]
    <3> DEFINE u == L.h[x]  v == L.h[cur]
    <3>1. u \in Nat /\ v = u + 1
      BY <1>8
    <3> HIDE DEF u, v
    <3>2. u <= v
      BY ONLY <3>1
    <3> QED BY <1>4, <3>2 DEF u, v
  <2>3. CanGive(x) <=> m >= T
    BY <2>2 DEF CanGive, keynum
  <2> HIDE DEF m
  <2>4. ~ (m >= T) => m = T - 1
    BY ONLY <1>7, <2>1
  <2> QED BY <2>3, <2>4 DEF m
<1>9. CanGive(c) <=> Len(nd[c].keys) >= T
  BY <1>6, <1>8
<1>10. ~ CanGive(c) => Len(nd[c].keys) = T - 1
  BY <1>6, <1>8
<1>11. ~ Copying => node = nd
  BY DEF IState, Held
\* Where the copied key was, nothing is read or written.
<1>12. ASSUME NEW x \in Bids, x = cur \/ (L.h[cur] = L.h[x] + 1 /\ L.h[x] \in Nat),
              NEW a \in Bids, L.h[a] > L.h[cur]
       PROVE  a # x
  <2> DEFINE u == L.h[x]  v == L.h[cur]
  <2>1. v \in Nat /\ (u = v \/ (v = u + 1 /\ u \in Nat))
    BY <1>4, <1>12
  <2> HIDE DEF u, v
  <2>2. ~ (u > v)
    BY ONLY <2>1
  <2> QED BY <1>12, <2>2 DEF u, v
<1> DEFINE Kept(od) ==
      \A a \in Bids : L.h[a] > L.h[cur] /\ (\A x \in Bids \ {a} : node[x] = nd[x])
                        => KeepsCopy(nd, node, od, nt, a)
    Goes(od, e) ==
      /\ Fills(nd, od, brootKey, L, nextbid, cur, e, key) /\ cur' = e
      /\ (~ Copying => nt = od) /\ DOMAIN nt = Bids /\ Kept(od)
<1> HIDE DEF Kept, Goes
<1>14. ASSUME CanGive(c) /\ nt = node /\ cur' = c
       PROVE  \E od, e : Goes(od, e)
  <2>1. Fills(nd, nd, brootKey, L, nextbid, cur, c, key)
    BY <1>3, <1>6, <1>9, <1>14 DEF Fills
  <2>2. Kept(nd)
    BY <1>3, <1>14 DEF KeepsCopy, Kept
  <2>3. (~ Copying => nt = nd) /\ DOMAIN nt = Bids /\ cur' = c
    BY <1>3, <1>11, <1>14
  <2>4. Goes(nd, c)
    BY <2>1, <2>2, <2>3 DEF Goes
  <2> QED BY <2>4
<1>15. ASSUME ~ CanGive(c) /\ prevHas /\ nt = BorrowFromPrev(node, cur, i) /\ cur' = c
       PROVE  \E od, e : Goes(od, e)
  <2> DEFINE od == BorrowFromPrev(nd, cur, i)
  <2>1. /\ g \in 1 .. Len(nd[cur].keys) /\ i = g + 1 /\ b = nd[cur].kids[g] /\ c = nd[cur].kids[g + 1]
        /\ c = nd[cur].kids[i] /\ b = nd[cur].kids[i - 1]
    BY <1>4, <1>15
  <2>2. Pair(nd, brootKey, L, cur, g, b, c)
    BY ONLY <1>3, <1>4, <2>1, PairAt
  <2>3. /\ b \in Bids /\ nd[b] # None /\ b # brootKey /\ L.h[b] \in Nat /\ L.h[cur] = L.h[b] + 1
        /\ cur # c /\ cur # b /\ c # b /\ L.h[c] = L.h[b]
    BY <2>2 DEF Pair
  <2>4. Len(nd[b].keys) >= T /\ Len(nd[c].keys) = T - 1
    BY <1>8, <1>10, <1>15, <2>3
  <2>5. od = BorrowFromPrev(nd, cur, i)
    OBVIOUS
  <2> HIDE DEF od
  <2>6. Fills(nd, od, brootKey, L, nextbid, cur, c, key)
    BY ONLY <1>3, <1>4, <1>6, <2>1, <2>4, <2>5, PrevFills
  <2>7. ASSUME NEW a \in Bids, L.h[a] > L.h[cur], \A x \in Bids \ {a} : node[x] = nd[x]
        PROVE  KeepsCopy(nd, node, od, nt, a)
    <3>1. a \notin {cur, c, b}
      BY <1>4, <1>6, <1>12, <2>3, <2>7
    <3>2. KeepsCopy(nd, node, BorrowFromPrev(nd, cur, i), BorrowFromPrev(node, cur, i), a)
      BY ONLY <1>3, <1>4, <1>6, <2>1, <2>3, <2>7, <3>1, BorrowPrevKeeps
    <3> QED BY <1>15, <2>5, <3>2
  <2>71. Kept(od)
    BY <2>7 DEF Kept
  <2>8. (~ Copying => nt = od) /\ DOMAIN nt = Bids
    BY <1>3, <1>11, <1>15, <2>5, Zenon DEF BorrowFromPrev
  <2>9. cur' = c
    BY <1>15
  <2>10. Goes(od, c)
    BY <2>6, <2>71, <2>8, <2>9 DEF Goes
  <2> QED BY <2>10
<1>16. ASSUME ~ CanGive(c) /\ nextHas /\ nt = BorrowFromNext(node, cur, i) /\ cur' = c
       PROVE  \E od, e : Goes(od, e)
  <2> DEFINE od == BorrowFromNext(nd, cur, i)
  <2>1. i \in 1 .. Len(nd[cur].keys) /\ c = nd[cur].kids[i] /\ d = nd[cur].kids[i + 1]
    BY <1>4, <1>16
  <2>2. Pair(nd, brootKey, L, cur, i, c, d)
    BY ONLY <1>3, <1>4, <2>1, PairAt
  <2>3. /\ d \in Bids /\ nd[d] # None /\ d # brootKey /\ L.h[d] \in Nat /\ L.h[cur] = L.h[d] + 1
        /\ cur # c /\ cur # d /\ c # d /\ L.h[c] = L.h[d]
    BY <2>2 DEF Pair
  <2>4. Len(nd[d].keys) >= T /\ Len(nd[c].keys) = T - 1
    BY <1>8, <1>10, <1>16, <2>3
  <2>5. od = BorrowFromNext(nd, cur, i)
    OBVIOUS
  <2> HIDE DEF od
  <2>6. Fills(nd, od, brootKey, L, nextbid, cur, c, key)
    BY ONLY <1>3, <1>4, <1>6, <2>1, <2>4, <2>5, NextFills
  <2>7. ASSUME NEW a \in Bids, L.h[a] > L.h[cur], \A x \in Bids \ {a} : node[x] = nd[x]
        PROVE  KeepsCopy(nd, node, od, nt, a)
    <3>1. a \notin {cur, c, d}
      BY <1>4, <1>6, <1>12, <2>3, <2>7
    <3>2. KeepsCopy(nd, node, BorrowFromNext(nd, cur, i), BorrowFromNext(node, cur, i), a)
      BY ONLY <1>3, <1>4, <1>6, <2>1, <2>3, <2>7, <3>1, BorrowNextKeeps
    <3> QED BY <1>16, <2>5, <3>2
  <2>71. Kept(od)
    BY <2>7 DEF Kept
  <2>8. (~ Copying => nt = od) /\ DOMAIN nt = Bids
    BY <1>3, <1>11, <1>16, <2>5, Zenon DEF BorrowFromNext
  <2>9. cur' = c
    BY <1>16
  <2>10. Goes(od, c)
    BY <2>6, <2>71, <2>8, <2>9 DEF Goes
  <2> QED BY <2>10
<1>17. ASSUME ~ CanGive(c) /\ ~ nextHas /\ i <= n /\ nt = MergeAt(node, cur, i) /\ cur' = c
       PROVE  \E od, e : Goes(od, e)
  <2> DEFINE od == MergeAt(nd, cur, i)
  <2>1. i \in 1 .. Len(nd[cur].keys) /\ c = nd[cur].kids[i] /\ d = nd[cur].kids[i + 1]
    BY <1>4, <1>17
  <2>2. Pair(nd, brootKey, L, cur, i, c, d)
    BY ONLY <1>3, <1>4, <2>1, PairAt
  <2>3. /\ d \in Bids /\ nd[d] # None /\ d # brootKey /\ L.h[d] \in Nat /\ L.h[cur] = L.h[d] + 1
        /\ cur # c /\ cur # d /\ c # d /\ L.h[c] = L.h[d]
    BY <2>2 DEF Pair
  <2>4. Len(nd[d].keys) = T - 1 /\ Len(nd[c].keys) = T - 1
    BY <1>8, <1>10, <1>17, <2>3
  <2>5. od = MergeAt(nd, cur, i)
    OBVIOUS
  <2> HIDE DEF od
  <2>6. Fills(nd, od, brootKey, L, nextbid, cur, c, key)
    BY ONLY <1>3, <1>4, <1>6, <1>7, <2>1, <2>4, <2>5, MergeFills
  <2>7. ASSUME NEW a \in Bids, L.h[a] > L.h[cur], \A x \in Bids \ {a} : node[x] = nd[x]
        PROVE  KeepsCopy(nd, node, od, nt, a)
    <3>1. a \notin {cur, c, d}
      BY <1>4, <1>6, <1>12, <2>3, <2>7
    <3>2. KeepsCopy(nd, node, MergeAt(nd, cur, i), MergeAt(node, cur, i), a)
      BY ONLY <1>3, <1>4, <1>6, <2>1, <2>3, <2>7, <3>1, MergeKeeps
    <3> QED BY <1>17, <2>5, <3>2
  <2>71. Kept(od)
    BY <2>7 DEF Kept
  <2>8. (~ Copying => nt = od) /\ DOMAIN nt = Bids
    BY <1>3, <1>11, <1>17, <2>5, Zenon DEF MergeAt
  <2>9. cur' = c
    BY <1>17
  <2>10. Goes(od, c)
    BY <2>6, <2>71, <2>8, <2>9 DEF Goes
  <2> QED BY <2>10
<1>18. ASSUME ~ CanGive(c) /\ ~ prevHas /\ i > n /\ nt = MergeAt(node, cur, i - 1) /\ cur' = b
       PROVE  \E od, e : Goes(od, e)
  <2> DEFINE od == MergeAt(nd, cur, g)
  <2>1. g \in 1 .. Len(nd[cur].keys) /\ b = nd[cur].kids[g] /\ c = nd[cur].kids[g + 1] /\ i > 1
    BY <1>4, <1>7, <1>18
  <2>2. Pair(nd, brootKey, L, cur, g, b, c)
    BY ONLY <1>3, <1>4, <2>1, PairAt
  <2>3. /\ b \in Bids /\ nd[b] # None /\ b # brootKey /\ L.h[b] \in Nat /\ L.h[cur] = L.h[b] + 1
        /\ cur # c /\ cur # b /\ c # b /\ b # c /\ L.h[c] = L.h[b]
    BY <2>2 DEF Pair
  <2>4. Len(nd[b].keys) = T - 1 /\ Len(nd[c].keys) = T - 1
    BY <1>8, <1>10, <1>18, <2>1, <2>3
  <2>5. od = MergeAt(nd, cur, g) /\ nt = MergeAt(node, cur, g)
    BY <1>4, <1>18
  <2> HIDE DEF od
  <2>6. Fills(nd, od, brootKey, L, nextbid, cur, b, key)
    BY ONLY <1>3, <1>4, <1>6, <1>7, <2>1, <2>4, <2>5, MergeFills
  <2>7. ASSUME NEW a \in Bids, L.h[a] > L.h[cur], \A x \in Bids \ {a} : node[x] = nd[x]
        PROVE  KeepsCopy(nd, node, od, nt, a)
    <3>1. a \notin {cur, b, c}
      BY <1>4, <1>6, <1>12, <2>3, <2>7
    <3>2. KeepsCopy(nd, node, MergeAt(nd, cur, g), MergeAt(node, cur, g), a)
      BY ONLY <1>3, <1>4, <1>6, <2>1, <2>3, <2>7, <3>1, MergeKeeps, Zenon
    <3> QED BY <2>5, <3>2
  <2>71. Kept(od)
    BY <2>7 DEF Kept
  <2>8. (~ Copying => nt = od) /\ DOMAIN nt = Bids
    BY <1>3, <1>11, <2>5, Zenon DEF MergeAt
  <2>9. cur' = b
    BY <1>18
  <2>10. Goes(od, b)
    BY <2>6, <2>71, <2>8, <2>9 DEF Goes
  <2> QED BY <2>10
<1>19. PICK od, e : Goes(od, e)
  BY <1>1, <1>14, <1>15, <1>16, <1>17, <1>18
<1>20. /\ Fills(nd, od, brootKey, L, nextbid, cur, e, key) /\ cur' = e
       /\ (~ Copying => nt = od) /\ DOMAIN nt = Bids
       /\ \A a \in Bids : Copying /\ L.h[a] > L.h[cur] /\ (\A x \in Bids \ {a} : node[x] = nd[x])
                            => KeepsCopy(nd, node, od, nt, a)
  BY <1>19 DEF Goes, Kept
<1>21. Becomes(KeysOf(nd)) /\ (Copying' <=> Copying)
  BY ONLY Types, IState(nd, L), <1>0, <1>1, <1>20, FillsOK
<1> QED BY <1>1, <1>21

Put(nd, x, i, v) == [nd EXCEPT ![x].keys[i] = v]

\* The key kw of cur is overwritten by v, the nearest key below its child c.
LEMMA CopiedOK ==
  ASSUME Types, NEW nd, NEW L, IState(nd, L), AtCall(nd, L), op = "remove", cur # 0, node = nd, key = kw,
         NEW i \in Nat, i \in 1 .. Len(nd[cur].keys), nd[cur].keys[i] = kw,
         NEW c \in Bids, nd[c] # None, c # brootKey, L.h[cur] > L.h[c], Len(nd[c].keys) >= T,
         NEW v, v \in KeysOf(nd), v # kw, Within(L, c, v), \A k \in KeysOf(nd) : ~ Between(k, v, kw),
         NEW nt, nt = Put(nd, cur, i, v), nt = node',
         brootKey' = brootKey, nextbid' = nextbid, res' = res, failed' = failed,
         op' = op, kw' = kw, key' = v, cur' = c
  PROVE  Becomes(KeysOf(nd))
<1>1. IsTree(nd, brootKey, L) /\ TreeOK(nd, brootKey, L, nextbid) /\ DOMAIN nd = Bids /\ RootOK(nd)
  BY DEF IState, TreeOK
<1>2. cur \in Bids /\ nd[cur] # None /\ v \in Keys /\ c # 0
  BY KeysAreInts DEF AtCall, KeysOf
<1>3. nd[cur] \in Node /\ nd[cur].keys \in Seq(Keys) /\ DOMAIN nd[cur].keys = 1 .. Len(nd[cur].keys)
  BY <1>1, <1>2, TreeNode
<1> DEFINE s == [nd[cur].keys EXCEPT ![i] = v]
<1>4. nt[cur] = [nd[cur] EXCEPT !.keys = s] /\ (\A x \in Bids \ {cur} : nt[x] = nd[x]) /\ DOMAIN nt = Bids
  BY <1>1, <1>2 DEF Put
<1>5. /\ s \in Seq(Keys) /\ Len(s) = Len(nd[cur].keys)
      /\ \A j \in 1 .. Len(nd[cur].keys) : s[j] = IF j = i THEN v ELSE nd[cur].keys[j]
  BY <1>2, <1>3
<1> HIDE DEF s
<1>6. nt[cur].keys = s /\ nt[cur].kids = nd[cur].kids /\ nt[cur] \in Node
  BY <1>3, <1>4, <1>5 DEF Node
<1>7. Replaces(nd, nt, cur, i, v)
  BY <1>2, <1>4, <1>5, <1>6 DEF Replaces
<1>8. CopyOf(nd, nt, L, cur, i, kw, v, L.h[c])
  BY <1>2, <1>7 DEF CopyOf
<1>9. Types'
  BY <1>2, <1>4 DEF Types
<1>10. IState(nd, L)'
  <2>1. Copying'
    BY <1>2 DEF Copying
  <2>2. Held(nd, L)'
    BY <1>8, <2>1 DEF Held
  <2>3. CallOK(nd, L)'
    BY <1>2 DEF CallOK
  <2>4. RootOK(nd)'
    <3>1. nd[brootKey] # None
      BY DEF AtCall
    <3> QED BY <3>1 DEF RootOK
  <2> QED BY <1>1, <2>2, <2>3, <2>4 DEF IState
<1> QED BY <1>9, <1>10 DEF Becomes

\* removeFromNonLeaf() copies a neighbour up, or merges the children around the
\* key.
LEMMA DeleteInNodeOK ==
  ASSUME Types, NEW nd, NEW L, IState(nd, L), DeleteInNode
  PROVE  /\ Becomes(KeysOf(nd)) /\ ~ Copying
         /\ op = "remove" /\ op' = op /\ kw' = kw /\ res' = res
<1> DEFINE g == findKey(key, cur)
           i == g + 1
           c == node[cur].kids[i]
           d == node[cur].kids[i + 1]
<1>0. PICK nt : nt = node'
  OBVIOUS
<1>1. /\ op = "remove" /\ cur # 0 /\ ~ isleaf(cur) /\ HasKey(key, cur)
      /\ \/ CanGive(c) /\ nt = [node EXCEPT ![cur].keys[i] = lastKey[c]] /\ cur' = c /\ key' = lastKey[c]
         \/ CanGive(d) /\ nt = [node EXCEPT ![cur].keys[i] = firstKey[d]] /\ cur' = d /\ key' = firstKey[d]
         \/ ~ CanGive(c) /\ ~ CanGive(d) /\ nt = MergeAt(node, cur, i) /\ cur' = c /\ key' = key
      /\ brootKey' = brootKey /\ nextbid' = nextbid /\ res' = res /\ failed' = failed
      /\ op' = op /\ kw' = kw
  BY <1>0 DEF DeleteInNode, Deleting, DescendTo
<1>2. AtCall(nd, L)
  BY <1>1, Calls
<1>3. /\ IsTree(nd, brootKey, L) /\ TreeOK(nd, brootKey, L, nextbid) /\ DOMAIN nd = Bids
      /\ LeavesHaveKeys(nd)
  BY <1>2, Filled DEF IState, TreeOK, AtCall
<1>4. /\ cur \in Bids /\ nd[cur] # None /\ node[cur] = nd[cur] /\ L.h[cur] # 0 /\ Has(nd, cur, key)
      /\ i \in 1 .. Len(nd[cur].keys) /\ nd[cur].keys[i] = key /\ i \in Nat
  BY <1>1, <1>2 DEF AtCall, Finds
<1> HIDE DEF g, i
\* A copy on its way down is not in an inner node below its first one.
<1>5. ~ Copying
  <2> SUFFICES ASSUME Copying PROVE FALSE
    OBVIOUS
  <2>1. PICK a, j : CopyOf(nd, node, L, a, j, kw, key, L.h[cur])
    BY DEF IState, Held
  <2>2. CopyBelow(nd, L, a, j)
    BY <2>1, CopyAt
  <2>3. /\ a \in Bids /\ Has(nd, a, kw) /\ L.h[cur] < L.h[a]
        /\ \A k \in KeysOf(nd) : ~ Between(k, key, kw)
    BY <2>2 DEF CopyBelow
  <2>4. \E k \in KeysOf(nd) : Between(k, kw, key)
    BY <1>3, <1>4, <2>3, InnerGap
  <2> QED BY <2>3, <2>4 DEF Between
<1>6. node = nd /\ key = kw
  BY <1>1, <1>5 DEF IState, Held, Copying
<1>7. c = nd[cur].kids[i] /\ d = nd[cur].kids[i + 1] /\ nd[cur].keys[i] = kw
  BY <1>4, <1>6
<1> HIDE DEF c, d
<1>8. Pair(nd, brootKey, L, cur, i, c, d)
  BY ONLY <1>3, <1>4, <1>7, PairAt
<1>9. /\ c \in Bids /\ d \in Bids /\ nd[c] # None /\ nd[d] # None /\ c # brootKey /\ d # brootKey
      /\ L.hi[c] = kw /\ L.lo[d] = kw /\ L.h[c] = L.h[d] /\ L.h[cur] = L.h[c] + 1 /\ L.h[c] \in Nat
      /\ kw \in Int
  BY <1>7, <1>8 DEF Pair
<1>10. L.h[cur] > L.h[c] /\ L.h[cur] > L.h[d]
  <2> DEFINE u == L.h[c]  v == L.h[cur]
  <2>1. u \in Nat /\ v = u + 1 /\ L.h[d] = u
    BY <1>9
  <2> HIDE DEF u, v
  <2>2. v > u
    BY ONLY <2>1
  <2> QED BY <2>1, <2>2 DEF u, v
<1>11. /\ CanGive(c) <=> Len(nd[c].keys) >= T
       /\ CanGive(d) <=> Len(nd[d].keys) >= T
  BY <1>6 DEF CanGive, keynum
<1>12. CASE CanGive(c) /\ nt = [node EXCEPT ![cur].keys[i] = lastKey[c]] /\ cur' = c /\ key' = lastKey[c]
  <2>1. PICK v : v = lastKey[c]
    OBVIOUS
  <2>2. /\ v \in KeysOf(nd) /\ v \in Int /\ Within(L, c, v)
        /\ \A k \in KeysOf(nd) : ~ (v < k /\ k < kw)
    BY <1>3, <1>6, <1>9, <2>1, LastKeyNear
  <2>3. v < kw
    BY <1>9, <2>2 DEF Within
  <2>4. v # kw /\ ~ (kw < v)
    BY <1>9, <2>2, <2>3
  <2>5. \A k \in KeysOf(nd) : ~ Between(k, v, kw)
    <3> SUFFICES ASSUME NEW k \in KeysOf(nd), kw < k, k < v PROVE FALSE
      BY <2>2 DEF Between
    <3>1. k \in Int
      BY KeysAreInts DEF KeysOf
    <3> QED BY ONLY <1>9, <2>2, <2>3, <3>1, kw < k, k < v
  <2>6. nt = Put(nd, cur, i, v) /\ cur' = c /\ key' = v /\ Len(nd[c].keys) >= T
    BY <1>6, <1>11, <1>12, <2>1 DEF Put
  <2>7. Becomes(KeysOf(nd))
    BY ONLY Types, IState(nd, L), <1>0, <1>1, <1>2, <1>4, <1>6, <1>7, <1>9, <1>10, <2>2, <2>4, <2>5, <2>6,
       CopiedOK
  <2> QED BY <1>1, <1>5, <2>7
<1>13. CASE CanGive(d) /\ nt = [node EXCEPT ![cur].keys[i] = firstKey[d]] /\ cur' = d /\ key' = firstKey[d]
  <2>1. PICK v : v = firstKey[d]
    OBVIOUS
  <2>2. /\ v \in KeysOf(nd) /\ v \in Int /\ Within(L, d, v)
        /\ \A k \in KeysOf(nd) : ~ (kw < k /\ k < v)
    BY <1>3, <1>6, <1>9, <2>1, FirstKeyNear
  <2>3. kw < v
    BY <1>9, <2>2 DEF Within
  <2>4. v # kw /\ ~ (v < kw)
    BY <1>9, <2>2, <2>3
  <2>5. \A k \in KeysOf(nd) : ~ Between(k, v, kw)
    <3> SUFFICES ASSUME NEW k \in KeysOf(nd), v < k, k < kw PROVE FALSE
      BY <2>2 DEF Between
    <3>1. k \in Int
      BY KeysAreInts DEF KeysOf
    <3> QED BY ONLY <1>9, <2>2, <2>3, <3>1, v < k, k < kw
  <2>6. nt = Put(nd, cur, i, v) /\ cur' = d /\ key' = v /\ Len(nd[d].keys) >= T
    BY <1>6, <1>11, <1>13, <2>1 DEF Put
  <2>7. Becomes(KeysOf(nd))
    BY ONLY Types, IState(nd, L), <1>0, <1>1, <1>2, <1>4, <1>6, <1>7, <1>9, <1>10, <2>2, <2>4, <2>5, <2>6,
       CopiedOK
  <2> QED BY <1>1, <1>5, <2>7
<1>14. CASE ~ CanGive(c) /\ ~ CanGive(d) /\ nt = MergeAt(node, cur, i) /\ cur' = c /\ key' = key
  <2>1. Len(nd[c].keys) = T - 1 /\ Len(nd[d].keys) = T - 1
    <3> DEFINE m == Len(nd[c].keys)  n == Len(nd[d].keys)
    <3>1. m \in Nat /\ m >= T - 1 /\ n \in Nat /\ n >= T - 1 /\ T \in Nat
      BY <1>3, <1>9, Filled
    <3>2. ~ (m >= T) /\ ~ (n >= T)
      BY <1>11, <1>14
    <3> HIDE DEF m, n
    <3>3. m = T - 1 /\ n = T - 1
      BY ONLY <3>1, <3>2
    <3> QED BY <3>3 DEF m, n
  <2>2. cur # brootKey => Len(nd[cur].keys) >= T
    BY <1>1 DEF IState, CallOK
  <2>3. key = nd[cur].keys[i] /\ key \in Int /\ nt = MergeAt(nd, cur, i)
    BY <1>4, <1>6, <1>9, <1>14
  <2>4. Fills(nd, nt, brootKey, L, nextbid, cur, c, key)
    BY ONLY <1>3, <1>4, <1>7, <2>1, <2>2, <2>3, MergeFills
  <2>5. DOMAIN nt = Bids
    BY <1>3, <2>3, Zenon DEF MergeAt
  <2>6. /\ ~ Copying => nt = nt
        /\ \A a \in Bids : Copying /\ L.h[a] > L.h[cur] /\ (\A x \in Bids \ {a} : node[x] = nd[x])
                             => KeepsCopy(nd, node, nt, nt, a)
    BY <1>5
  <2>7. key' = key /\ cur' = c
    BY <1>14
  <2>8. Becomes(KeysOf(nd)) /\ (Copying' <=> Copying)
    BY ONLY Types, IState(nd, L), <1>0, <1>1, <2>4, <2>5, <2>6, <2>7, FillsOK
  <2> QED BY <1>1, <1>5, <2>8
<1> QED BY <1>1, <1>12, <1>13, <1>14

\* removekw() ends: the key is gone, and a root without keys goes too.
LEMMA EndRemoveOK ==
  ASSUME Types, NEW nd, NEW L, IState(nd, L), EndRemove
  PROVE  /\ Becomes(KeysOf(nd)) /\ ~ Copying /\ ~ Copying'
         /\ op = "remove" /\ op' \in {"idle", op} /\ kw' = kw /\ res' = res /\ kw \notin KeysOf(nd)
<1>0. PICK nt : nt = node'
  OBVIOUS
<1>1. /\ op = "remove" /\ cur = 0 /\ nextbid' = nextbid /\ res' = res /\ kw' = kw /\ cur' = cur /\ key' = key
      /\ \/ /\ brootKey # 0 => node[brootKey] # None /\ keynum(brootKey) > 0
            /\ op' = "idle" /\ nt = node /\ brootKey' = brootKey /\ failed' = failed
         \/ /\ brootKey # 0 /\ node[brootKey] # None /\ keynum(brootKey) = 0
            /\ brootKey' = Head(node[brootKey].kids) /\ nt = [node EXCEPT ![brootKey] = None]
            /\ op' = "idle" /\ failed' = failed
         \/ /\ brootKey # 0 /\ node[brootKey] = None
            /\ brootKey' = 0 /\ failed' = TRUE /\ nt = node /\ op' = op
  BY <1>0 DEF EndRemove, Return, opVars, NoRoot
<1>2. ~ Copying /\ ~ Copying' /\ node = nd
  BY <1>1 DEF Copying, IState, Held
<1>3. /\ IsTree(nd, brootKey, L) /\ TreeOK(nd, brootKey, L, nextbid) /\ DOMAIN nd = Bids
      /\ kw \notin KeysOf(nd) /\ brootKey \in Bids \cup {0}
  BY <1>1 DEF IState, TreeOK, CallOK, Types
<1>4. CASE /\ brootKey # 0 => node[brootKey] # None /\ keynum(brootKey) > 0
           /\ op' = "idle" /\ nt = node /\ brootKey' = brootKey /\ failed' = failed
  <2>1. Types'
    BY <1>0, <1>1, <1>4 DEF Types
  <2>2. Held(nd, L)' /\ CallOK(nd, L)'
    BY <1>0, <1>1, <1>2, <1>4 DEF Held, CallOK
  <2>3. RootOK(nd)'
    <3> SUFFICES ASSUME brootKey # 0 PROVE nd[brootKey] # None /\ Len(nd[brootKey].keys) # 0
      BY <1>4 DEF RootOK
    <3> QED BY <1>2, <1>4 DEF keynum
  <2>4. IState(nd, L)'
    BY <1>1, <1>3, <1>4, <2>2, <2>3 DEF IState
  <2> QED BY <1>1, <1>2, <1>3, <1>4, <2>1, <2>4 DEF Becomes
<1>5. CASE /\ brootKey # 0 /\ node[brootKey] # None /\ keynum(brootKey) = 0
           /\ brootKey' = Head(node[brootKey].kids) /\ nt = [node EXCEPT ![brootKey] = None]
           /\ op' = "idle" /\ failed' = failed
  <2> DEFINE c == Head(nd[brootKey].kids)
  <2>1. brootKey \in Bids /\ nd[brootKey] # None /\ Len(nd[brootKey].keys) = 0
        /\ brootKey' = c /\ nt = [nd EXCEPT ![brootKey] = None]
    BY <1>2, <1>3, <1>5 DEF keynum
  <2>2. c = Head(nd[brootKey].kids)
    OBVIOUS
  <2> HIDE DEF c
  <2>3. /\ TreeOK(nt, c, L, nextbid) /\ KeysOf(nt) = KeysOf(nd)
        /\ c \in Bids /\ nt[c] # None /\ c # brootKey /\ Len(nt[c].keys) # 0
    <3>1. Collapsed(nd, nt, brootKey, c, L, nextbid)
      BY ONLY <1>3, <2>1, <2>2, Collapses
    <3> QED BY <3>1 DEF Collapsed
  <2>4. DOMAIN nt = Bids
    BY <2>3 DEF TreeOK
  <2>5. Types'
    BY <1>0, <1>1, <1>5, <2>1, <2>3, <2>4 DEF Types
  <2>6. Held(nt, L)' /\ CallOK(nt, L)' /\ RootOK(nt)'
    BY <1>0, <1>1, <1>2, <1>5, <2>1, <2>3 DEF Held, CallOK, RootOK
  <2>7. IState(nt, L)'
    BY <1>1, <2>1, <2>3, <2>6 DEF IState
  <2> QED BY <1>1, <1>2, <1>3, <1>5, <2>3, <2>5, <2>7 DEF Becomes
<1>6. CASE /\ brootKey # 0 /\ node[brootKey] = None
           /\ brootKey' = 0 /\ failed' = TRUE /\ nt = node /\ op' = op
  <2>1. Types'
    BY <1>0, <1>1, <1>6 DEF Types
  <2>2. \A x \in Bids : nd[x] = None
    BY <1>2, <1>3, <1>6, TreeNode
  <2>3. TreeOK(nd, 0, L, nextbid)
    BY <1>3, <2>2, NoNodes DEF TreeOK, IsFilled
  <2>4. Held(nd, L)' /\ CallOK(nd, L)' /\ RootOK(nd)'
    BY <1>0, <1>1, <1>2, <1>3, <1>6 DEF Held, CallOK, RootOK
  <2>5. IState(nd, L)'
    BY <1>1, <1>6, <2>3, <2>4 DEF IState
  <2> QED BY <1>1, <1>2, <1>3, <1>6, <2>1, <2>5 DEF Becomes
<1> QED BY <1>1, <1>4, <1>5, <1>6

\* What each action leads to is the invariant.
LEMMA BecomesInv == ASSUME NEW K, Becomes(K) PROVE IInv'
BY DEF Becomes, IInv

\* The invariant is inductive.
LEMMA StepOK == IInv /\ [Next]_vars => IInv'
<1> SUFFICES ASSUME IInv, [Next]_vars PROVE IInv'
  OBVIOUS
<1>1. Types
  BY DEF IInv
<1>2. PICK nd, L : IState(nd, L)
  BY DEF IInv
<1>3. ASSUME NEW kind \in {"insert", "search", "remove"}, NEW k \in Keys, Begin(kind, k) PROVE IInv'
  <2>1. Becomes(KeysOf(nd))
    BY <1>1, <1>2, <1>3, BeginOK
  <2> QED BY <2>1, BecomesInv
<1>4. CASE Throw
  <2>1. Becomes(KeysOf(nd))
    BY <1>1, <1>2, <1>4, ThrowOK
  <2> QED BY <2>1, BecomesInv
<1>5. CASE Search
  <2>1. Becomes(KeysOf(nd))
    BY <1>1, <1>2, <1>5, SearchOK
  <2> QED BY <2>1, BecomesInv
<1>6. CASE InsertFirst
  <2>1. Becomes(KeysOf(nd) \cup {kw})
    BY <1>1, <1>2, <1>6, InsertFirstOK
  <2> QED BY <2>1, BecomesInv
<1>7. CASE SplitRoot
  <2>1. Becomes(KeysOf(nd))
    BY <1>1, <1>2, <1>7, SplitRootOK
  <2> QED BY <2>1, BecomesInv
<1>8. CASE InsertIntoLeaf
  <2>1. Becomes(KeysOf(nd) \cup {kw})
    BY <1>1, <1>2, <1>8, InsertIntoLeafOK
  <2> QED BY <2>1, BecomesInv
<1>9. CASE InsertSplitting
  <2>1. Becomes(KeysOf(nd))
    BY <1>1, <1>2, <1>9, InsertSplittingOK
  <2> QED BY <2>1, BecomesInv
<1>10. CASE InsertDescending
  <2>1. Becomes(KeysOf(nd))
    BY <1>1, <1>2, <1>10, InsertDescendingOK
  <2> QED BY <2>1, BecomesInv
<1>11. CASE DeleteInLeaf
  <2>1. Becomes(KeysOf(nd) \ {kw})
    BY <1>1, <1>2, <1>11, DeleteInLeafOK
  <2> QED BY <2>1, BecomesInv
<1>12. CASE DeleteInNode
  <2>1. Becomes(KeysOf(nd))
    BY <1>1, <1>2, <1>12, DeleteInNodeOK
  <2> QED BY <2>1, BecomesInv
<1>13. CASE DeleteBelow
  <2>1. Becomes(KeysOf(nd))
    BY <1>1, <1>2, <1>13, DeleteBelowOK
  <2> QED BY <2>1, BecomesInv
<1>14. CASE EndRemove
  <2>1. Becomes(KeysOf(nd))
    BY <1>1, <1>2, <1>14, EndRemoveOK
  <2> QED BY <2>1, BecomesInv
<1>15. CASE UNCHANGED vars
  <2>1. /\ node' = node /\ brootKey' = brootKey /\ nextbid' = nextbid /\ res' = res /\ failed' = failed
        /\ op' = op /\ kw' = kw /\ cur' = cur /\ key' = key
    BY <1>15 DEF vars, opVars
  <2>2. Types'
    BY <1>1, <2>1 DEF Types
  <2>3. Copying' <=> Copying
    BY <2>1 DEF Copying
  <2>4. IState(nd, L)'
    BY <1>2, <2>1, <2>3 DEF IState, Held, CallOK, RootOK
  <2> QED BY <2>2, <2>4 DEF IInv
<1> QED
  BY <1>3, <1>4, <1>5, <1>6, <1>7, <1>8, <1>9, <1>10, <1>11, <1>12, <1>13, <1>14, <1>15 DEF Next, Step

\* In every call of every operation the nodes make a balanced search tree, in
\* which at most the key being removed stands, overwritten by its neighbour,
\* above that neighbour's leaf; and the call is at a node on the way to its key.
THEOREM Invariant == Spec => []IInv
<1> QED BY InitOK, StepOK, PTL DEF Spec

(***************************************************************************)
(* What follows from it.                                                   *)
(***************************************************************************)
LEMMA TypeFrom == IInv => TypeOK
<1> SUFFICES ASSUME IInv PROVE TypeOK
  OBVIOUS
<1>1. PICK nd, L : IState(nd, L)
  BY DEF IInv
<1>2. Types /\ View(nd)
  BY <1>1, Views DEF IInv
<1>3. \A x \in Bids : node[x] # None => node[x].keys \in Seq(Keys) /\ node[x].kids \in Seq(Bids)
  BY <1>2, NodeFacts DEF View
<1> QED BY <1>2, <1>3 DEF TypeOK, Types

\* In the tree nd every node is below the root, and node has the children of nd.
LEMMA LeaksFrom == IInv => NoNodeLeaks
<1> SUFFICES ASSUME IInv PROVE NoNodeLeaks
  OBVIOUS
<1>1. PICK nd, L : IState(nd, L)
  BY DEF IInv
<1>2. View(nd)
  BY <1>1, Views DEF IInv
<1> QED BY <1>2 DEF View, NoNodeLeaks

\* A call is at a node with the room it needs.
LEMMA RoomFrom == IInv => CallHasRoom
<1> SUFFICES ASSUME IInv PROVE CallHasRoom
  OBVIOUS
<1>1. PICK nd, L : IState(nd, L)
  BY DEF IInv
<1>2. ASSUME cur \notin {0, brootKey}, op \in {"insert", "remove"}
      PROVE  keynum(cur) = Len(nd[cur].keys)
  <2>1. AtCall(nd, L)
    BY <1>1, <1>2, Calls DEF IInv
  <2> QED BY <2>1 DEF AtCall, keynum
<1>3. /\ op = "insert" /\ cur \notin {0, brootKey} => Len(nd[cur].keys) < 2 * T - 1
      /\ op = "remove" /\ cur \notin {0, brootKey} => Len(nd[cur].keys) >= T
  BY <1>1 DEF IState, CallOK
<1> QED BY <1>2, <1>3 DEF CallHasRoom

\* The heights of the nodes are those of the labels.
LEMMA BalancedFrom == IInv => Balanced
<1> SUFFICES ASSUME IInv PROVE Balanced
  OBVIOUS
<1>1. PICK nd, L : IState(nd, L)
  BY DEF IInv
<1>2. View(nd) /\ IsTree(nd, brootKey, L) /\ TreeOK(nd, brootKey, L, nextbid) /\ Types
  BY <1>1, Views DEF IInv, IState, TreeOK
<1>3. Alike(nd) /\ Reachable = {x \in Bids : node[x] # None}
  BY <1>2 DEF View
<1>4. SUFFICES ASSUME NEW x \in Bids, node[x] # None
               PROVE  /\ \A c \in Kids(x) : height[x] = height[c] + 1
                      /\ keynum(x) <= 2 * T - 1
                      /\ x # brootKey => keynum(x) >= T - 1
                      /\ isleaf(x) \/ Len(node[x].kids) = keynum(x) + 1
  BY <1>3 DEF Balanced
<1>5. nd[x] # None /\ node[x].kids = nd[x].kids
  BY <1>3, <1>4 DEF Alike
<1>6. Len(node[x].keys) = Len(nd[x].keys)
  <2>1. CASE ~ Copying
    BY <1>1, <2>1 DEF IState, Held
  <2>2. CASE Copying
    <3>1. PICK a, j : CopyOf(nd, node, L, a, j, kw, key, L.h[cur])
      BY <1>1, <2>2 DEF IState, Held
    <3> QED BY <3>1 DEF CopyOf, Replaces
  <2> QED BY <2>1, <2>2
<1>7. /\ nd[x] \in Node /\ IsShaped(nd, L, x) /\ Len(nd[x].keys) \in Nat
      /\ nd[x].kids \in Seq(Bids) /\ DOMAIN nd[x].kids = 1 .. Len(nd[x].kids)
  BY <1>2, <1>5, TreeNode
<1>8. ASSUME NEW c \in Kids(x) PROVE height[x] = height[c] + 1
  <2>1. PICK j \in 1 .. Len(nd[x].kids) : nd[x].kids[j] = c
    BY <1>5, <1>7 DEF Kids, Range
  <2>2. c \in Bids /\ nd[c] # None /\ L.h[x] = L.h[c] + 1
    BY <1>2, <1>5, <2>1, TreeChild
  <2>3. node[c] # None
    BY <1>3, <2>2 DEF Alike
  <2>4. height[x] = L.h[x] /\ height[c] = L.h[c]
    BY <1>2, <1>3, <1>4, <2>2, <2>3, HeightIs
  <2> QED BY <2>2, <2>4
<1>9. keynum(x) <= 2 * T - 1 /\ (x # brootKey => keynum(x) >= T - 1)
  BY <1>2, <1>5, <1>6, Filled DEF keynum
<1>10. isleaf(x) \/ Len(node[x].kids) = keynum(x) + 1
  <2>1. Len(nd[x].kids) = 0 => nd[x].kids = <<>>
    BY <1>7, EmptySeq
  <2> QED BY <1>5, <1>6, <1>7, <2>1 DEF IsShaped, isleaf, keynum
<1> QED BY <1>8, <1>9, <1>10

\* The key of node that stands for the key k of nd.
Shown(k) == IF Copying /\ k = kw THEN key ELSE k

ShownAt(nd, y) ==
  /\ node[y] # None /\ Len(node[y].keys) = Len(nd[y].keys)
  /\ \A j \in 1 .. Len(nd[y].keys) : node[y].keys[j] = Shown(nd[y].keys[j])

\* The keys of node are those of nd as they are shown.
LEMMA ShownIs ==
  ASSUME Types, NEW nd, NEW L, IState(nd, L), NEW y \in Bids, nd[y] # None
  PROVE  ShownAt(nd, y)
<1>1. IsTree(nd, brootKey, L)
  BY DEF IState, TreeOK
<1>2. CASE ~ Copying
  BY <1>2 DEF IState, Held, Shown, ShownAt
<1>3. CASE Copying
  <2>1. PICK a, j : CopyOf(nd, node, L, a, j, kw, key, L.h[cur])
    BY <1>3 DEF IState, Held
  <2>2. /\ a \in Bids /\ nd[a].keys[j] = kw /\ nd[a] # None /\ node[a] \in Node
        /\ j \in 1 .. Len(nd[a].keys) /\ Len(node[a].keys) = Len(nd[a].keys)
        /\ \A l \in 1 .. Len(nd[a].keys) : node[a].keys[l] = IF l = j THEN key ELSE nd[a].keys[l]
        /\ \A x \in Bids \ {a} : node[x] = nd[x]
    BY <2>1 DEF CopyOf, Replaces
  <2>3. Has(nd, a, kw)
    BY <2>2 DEF Has
  <2>4. CASE y = a
    <3>1. \A l \in 1 .. Len(nd[a].keys) : nd[a].keys[l] = kw => l = j
      BY <1>1, <2>2, KeyPlace
    <3>2. node[a] # None
      BY <2>2, NodeFacts
    <3> QED BY <1>3, <2>2, <2>4, <3>1, <3>2 DEF Shown, ShownAt
  <2>5. CASE y # a
    <3>1. \A l \in 1 .. Len(nd[y].keys) : nd[y].keys[l] # kw
      <4> SUFFICES ASSUME NEW l \in 1 .. Len(nd[y].keys), nd[y].keys[l] = kw PROVE FALSE
        OBVIOUS
      <4>1. Has(nd, y, kw)
        BY DEF Has
      <4> QED BY <1>1, <2>2, <2>3, <2>5, <4>1, KeyOnce
    <3> QED BY <2>2, <2>5, <3>1 DEF Shown, ShownAt
  <2> QED BY <2>4, <2>5
<1> QED BY <1>2, <1>3

\* The copy of a key is in no node with the place it was copied to.
LEMMA CopyApart ==
  ASSUME Types, NEW nd, NEW L, IState(nd, L), Copying, NEW y \in Bids, Has(nd, y, kw), Has(nd, y, key)
  PROVE  FALSE
<1>1. PICK a, j : CopyOf(nd, node, L, a, j, kw, key, L.h[cur])
  BY DEF IState, Held
<1>2. CopyBelow(nd, L, a, j)
  BY <1>1, CopyAt
<1>3. AtCall(nd, L)
  BY Calls DEF Copying
<1>4. /\ IsTree(nd, brootKey, L) /\ cur \in Bids /\ nd[cur] # None /\ Within(L, cur, key) /\ L.h[cur] \in Nat
      /\ a \in Bids /\ cur # a /\ L.h[cur] < L.h[a] /\ Has(nd, a, kw)
  BY <1>2, <1>3 DEF AtCall, CopyBelow
<1>5. y = a
  BY <1>4, KeyOnce
<1>6. L.h[a] < L.h[cur]
  BY <1>4, <1>5, KeyHome
<1>7. L.h[a] \in Nat
  BY <1>4, TreeNode DEF Has
<1> DEFINE u == L.h[a]  v == L.h[cur]
<1>8. u \in Nat /\ v \in Nat /\ u < v /\ v < u
  BY <1>4, <1>6, <1>7
<1> HIDE DEF u, v
<1> QED BY ONLY <1>8

\* Below(k, h) of SearchTree.
Precedes(k, h) == k < h \/ (k = h /\ k = key /\ op = "remove")

\* Keys shown for others are in their order, but the copy may be equal to the key
\* it was copied from.
LEMMA ShownOrder ==
  ASSUME Types, NEW nd, NEW L, IState(nd, L), NEW k \in KeysOf(nd), NEW h \in KeysOf(nd), k < h
  PROVE  Precedes(Shown(k), Shown(h))
<1>1. CASE ~ Copying
  BY <1>1 DEF Shown, Precedes
<1>2. CASE Copying
  <2>1. PICK a, j : CopyOf(nd, node, L, a, j, kw, key, L.h[cur])
    BY <1>2 DEF IState, Held
  <2>2. /\ key # kw /\ ~ Between(k, key, kw) /\ ~ Between(h, key, kw) /\ op = "remove"
        /\ k \in Int /\ h \in Int /\ kw \in Int /\ key \in Int
    BY <1>2, <2>1, KeysAreInts DEF CopyOf, Copying, KeysOf, Types
  <2>3. CASE k = kw
    <3>1. Shown(k) = key /\ Shown(h) = h
      BY <1>2, <2>2, <2>3 DEF Shown
    <3>2. key < h \/ key = h
      BY <2>2, <2>3 DEF Between
    <3> QED BY <2>2, <3>1, <3>2 DEF Precedes
  <2>4. CASE h = kw
    <3>1. Shown(h) = key /\ Shown(k) = k
      BY <1>2, <2>2, <2>4 DEF Shown
    <3>2. k < key \/ k = key
      BY <2>2, <2>4 DEF Between
    <3> QED BY <2>2, <3>1, <3>2 DEF Precedes
  <2>5. CASE k # kw /\ h # kw
    BY <2>5 DEF Shown, Precedes
  <2> QED BY <2>3, <2>4, <2>5
<1> QED BY <1>1, <1>2

\* The keys below a child, shown, are between the keys around it, shown.
LEMMA SearchTreeFrom == IInv => SearchTree
<1> SUFFICES ASSUME IInv PROVE SearchTree
  OBVIOUS
<1>1. PICK nd, L : IState(nd, L)
  BY DEF IInv
<1>2. View(nd) /\ IsTree(nd, brootKey, L) /\ Types
  BY <1>1, Views DEF IInv, IState, TreeOK
<1>3. Alike(nd) /\ Reachable = {x \in Bids : node[x] # None} /\ \A x \in Bids : node[x] # None => node[x] \in Node
  BY <1>2 DEF View
<1>4. SUFFICES ASSUME NEW x \in Bids, node[x] # None
      PROVE  /\ \A i \in 1 .. keynum(x) - 1 : node[x].keys[i] < node[x].keys[i + 1]
             /\ \A i \in DOMAIN node[x].kids : \A k \in keysUnder(node[x].kids[i]) :
                  /\ i > 1 => Precedes(node[x].keys[i - 1], k)
                  /\ i <= keynum(x) => Precedes(k, node[x].keys[i])
  BY <1>3 DEF SearchTree, Precedes
<1>5. nd[x] # None /\ node[x].kids = nd[x].kids
  BY <1>3, <1>4 DEF Alike
<1> DEFINE n == Len(nd[x].keys)
<1>6. /\ nd[x].keys \in Seq(Keys) /\ n \in Nat /\ DOMAIN nd[x].kids = 1 .. Len(nd[x].kids)
      /\ IsShaped(nd, L, x)
  BY <1>2, <1>5, TreeNode
<1>7. keynum(x) = n /\ \A j \in 1 .. n : node[x].keys[j] = Shown(nd[x].keys[j])
  BY <1>1, <1>2, <1>5, ShownIs DEF ShownAt, keynum
<1>8. \A j \in 1 .. n : Has(nd, x, nd[x].keys[j]) /\ nd[x].keys[j] \in KeysOf(nd)
  <2> SUFFICES ASSUME NEW j \in 1 .. n
               PROVE  Has(nd, x, nd[x].keys[j]) /\ nd[x].keys[j] \in KeysOf(nd)
    OBVIOUS
  <2>1. Has(nd, x, nd[x].keys[j])
    BY <1>5 DEF Has
  <2> QED BY <1>2, <2>1, KeyBounds
<1>9. \A i, j \in 1 .. n : i < j => nd[x].keys[i] < nd[x].keys[j]
  BY <1>2, <1>5, KeyPlace
<1>10. ASSUME NEW i \in 1 .. keynum(x) - 1 PROVE node[x].keys[i] < node[x].keys[i + 1]
  <2> DEFINE k == nd[x].keys[i]  h == nd[x].keys[i + 1]
  <2>1. i \in 1 .. n /\ i + 1 \in 1 .. n /\ i < i + 1
    BY <1>6, <1>7
  <2>2. k < h /\ k \in KeysOf(nd) /\ h \in KeysOf(nd) /\ Has(nd, x, k) /\ Has(nd, x, h)
    BY <1>8, <1>9, <2>1
  <2>3. node[x].keys[i] = Shown(k) /\ node[x].keys[i + 1] = Shown(h)
    BY <1>7, <2>1
  <2> HIDE DEF k, h
  <2>4. Precedes(Shown(k), Shown(h))
    BY <1>1, <1>2, <2>2, ShownOrder
  <2>5. k \in Int /\ h \in Int /\ key \in Int
    BY <1>2, <2>2, KeysAreInts DEF KeysOf, Types
  <2>6. Shown(k) # Shown(h)
    <3> SUFFICES ASSUME Shown(k) = Shown(h) PROVE FALSE
      OBVIOUS
    <3>1. k # h
      BY <2>2, <2>5
    <3>2. Copying /\ ((k = kw /\ h = key) \/ (h = kw /\ k = key))
      BY <3>1 DEF Shown
    <3> QED BY <1>1, <1>2, <2>2, <3>2, CopyApart
  <2> QED BY <2>3, <2>4, <2>6 DEF Precedes
<1>11. ASSUME NEW i \in DOMAIN node[x].kids, NEW k \in keysUnder(node[x].kids[i])
       PROVE  /\ i > 1 => Precedes(node[x].keys[i - 1], k)
              /\ i <= keynum(x) => Precedes(k, node[x].keys[i])
  <2> DEFINE c == nd[x].kids[i]
  <2>1. i \in 1 .. Len(nd[x].kids) /\ c = node[x].kids[i] /\ i \in 1 .. n + 1 /\ n + 1 \in Nat
    BY <1>5, <1>6, <1>11 DEF IsShaped
  <2>2. /\ c \in Bids /\ nd[c] # None /\ L.lo[c] = SepOf(nd, L, x, i - 1) /\ L.hi[c] = SepOf(nd, L, x, i)
    BY <1>2, <1>5, <2>1, TreeChild
  <2>3. \A j \in 1 .. n : SepOf(nd, L, x, j) = nd[x].keys[j]
    BY <1>2, <1>5, Order
  <2> HIDE DEF c
  <2>4. nodesUnder[c] = Below(nd, L, c)
    BY <1>2, <1>3, <2>2, NodesUnderIs
  <2>5. PICK y \in Below(nd, L, c) : k \in KeysIn(y)
    BY <1>11, <2>1, <2>4 DEF keysUnder
  <2>6. y \in Bids /\ nd[y] # None /\ L.lo[c] <= L.lo[y] /\ L.hi[y] <= L.hi[c]
    BY <2>2, <2>5 DEF Below
  <2>7. Has(node, y, k)
    BY <1>3, <2>5, <2>6, KeysInAre
  <2>8. PICK l \in 1 .. Len(nd[y].keys) : k = Shown(nd[y].keys[l])
    BY <1>1, <1>2, <2>6, <2>7, ShownIs DEF Has, ShownAt
  <2>9. PICK e : e = nd[y].keys[l]
    OBVIOUS
  <2>10. Has(nd, y, e) /\ k = Shown(e)
    BY <2>6, <2>8, <2>9 DEF Has
  <2>11. Within(L, y, e) /\ e \in KeysOf(nd) /\ e \in Int
    BY <1>2, <2>6, <2>10, KeyBounds
  <2>12. L.lo[c] < e /\ e < L.hi[c]
    <3>1. L.lo[c] \in Int /\ L.hi[c] \in Int /\ L.lo[y] \in Int /\ L.hi[y] \in Int
      BY <1>2, <2>2, <2>6, TreeNode
    <3>2. L.lo[y] < e /\ e < L.hi[y]
      BY <2>11 DEF Within
    <3> DEFINE p == L.lo[c]  q == L.hi[c]  r == L.lo[y]  s == L.hi[y]
    <3>3. p \in Int /\ q \in Int /\ r \in Int /\ s \in Int /\ r < e /\ e < s /\ p <= r /\ s <= q
      BY <2>6, <3>1, <3>2
    <3> HIDE DEF p, q, r, s
    <3>4. p < e /\ e < q
      BY ONLY <2>11, <3>3
    <3> QED BY <3>4 DEF p, q
  <2>13. ASSUME i > 1 PROVE Precedes(node[x].keys[i - 1], k)
    <3>1. i - 1 \in 1 .. n
      BY <2>1, <2>13
    <3>2. nd[x].keys[i - 1] < e /\ nd[x].keys[i - 1] \in KeysOf(nd) /\ node[x].keys[i - 1] = Shown(nd[x].keys[i - 1])
      BY <1>7, <1>8, <2>2, <2>3, <2>12, <3>1
    <3>3. Precedes(Shown(nd[x].keys[i - 1]), Shown(e))
      BY <1>1, <1>2, <2>11, <3>2, ShownOrder
    <3> QED BY <2>10, <3>2, <3>3
  <2>14. ASSUME i <= keynum(x) PROVE Precedes(k, node[x].keys[i])
    <3>1. i \in 1 .. n
      BY <1>7, <2>1, <2>14
    <3>2. e < nd[x].keys[i] /\ nd[x].keys[i] \in KeysOf(nd) /\ node[x].keys[i] = Shown(nd[x].keys[i])
      BY <1>7, <1>8, <2>2, <2>3, <2>12, <3>1
    <3>3. Precedes(Shown(e), Shown(nd[x].keys[i]))
      BY <1>1, <1>2, <2>11, <3>2, ShownOrder
    <3> QED BY <2>10, <3>2, <3>3
  <2> QED BY <2>13, <2>14
<1> QED BY <1>10, <1>11

(***************************************************************************)
(* The tree as a set of keys.                                              *)
(***************************************************************************)
KeysetOK == Types => \A nd, L : IState(nd, L) => keyset = KeysOf(nd) \ (IF Copying THEN {kw} ELSE {})

\* keyset is the keys of nd, without the one overwritten.
LEMMA KeysetNow == KeysetOK
<1> SUFFICES ASSUME Types, NEW nd, NEW L, IState(nd, L)
             PROVE  keyset = KeysOf(nd) \ (IF Copying THEN {kw} ELSE {})
  BY DEF KeysetOK
<1>1. View(nd)
  BY Views
<1> QED BY <1>1 DEF View

\* And after the step.
LEMMA KeysetNext == KeysetOK'
BY KeysetNow, PTL

\* keyset after a step, by the keys of the tree it leads to.
LEMMA KeysetBecomes ==
  ASSUME NEW K, Becomes(K)
  PROVE  keyset' = K \ (IF Copying' THEN {kw'} ELSE {})
BY KeysetNext DEF Becomes, KeysetOK

\* The tree setup made is a set of keys.
LEMMA MapInit == Init => Map!Init
<1> SUFFICES ASSUME Init PROVE Map!Init
  OBVIOUS
<1>1. PICK t \in InitTrees : node = NodesOf(t) /\ brootKey = RootOf(t) /\ nextbid = Len(t.nodes)
  BY DEF Init
<1>2. t.nodes \in Seq(Node) /\ Len(t.nodes) <= MaxBid /\ MaxBid \in Nat
  BY BTreeAssumption
<1>3. Len(t.nodes) \in Nat /\ DOMAIN t.nodes = 1 .. Len(t.nodes) /\ DOMAIN t.nodes \subseteq Bids
  BY <1>2 DEF Bids
<1> DEFINE nd == NodesOf(t)
<1>4. /\ \A x \in DOMAIN t.nodes : nd[x] = t.nodes[x] /\ nd[x] \in Node /\ nd[x] # None
      /\ \A x \in Bids : nd[x] # None => x \in DOMAIN t.nodes
  BY <1>2, <1>3, NodeFacts DEF NodesOf
<1>5. PICK md, L : IState(md, L)
  BY InitOK DEF IInv
<1>6. Types /\ ~ Copying
  BY InitOK DEF IInv, Init, Copying
<1>7. keyset = KeysOf(nd)
  <2>1. md = nd
    BY <1>1, <1>5, <1>6 DEF IState, Held
  <2> QED BY <1>5, <1>6, <2>1, KeysetNow DEF KeysetOK
<1> DEFINE K == UNION {Range(t.nodes[x].keys) : x \in DOMAIN t.nodes}
<1>8. KeysOf(nd) = K
  <2> HIDE DEF nd
  <2>1. ASSUME NEW k \in KeysOf(nd) PROVE k \in K
    <3>1. PICK x \in Bids : Has(nd, x, k)
      BY DEF KeysOf
    <3>2. PICK j \in 1 .. Len(nd[x].keys) : nd[x].keys[j] = k
      BY <3>1 DEF Has
    <3>3. x \in DOMAIN t.nodes /\ nd[x] = t.nodes[x] /\ nd[x] \in Node
      BY <1>4, <3>1 DEF Has
    <3>4. j \in DOMAIN nd[x].keys
      BY <3>3, NodeFacts
    <3> QED BY <3>2, <3>3, <3>4 DEF Range
  <2>2. ASSUME NEW x \in DOMAIN t.nodes, NEW k \in Range(t.nodes[x].keys) PROVE k \in KeysOf(nd)
    <3>1. nd[x] = t.nodes[x] /\ nd[x] \in Node /\ nd[x] # None /\ x \in Bids
      BY <1>3, <1>4
    <3>2. PICK j \in DOMAIN nd[x].keys : nd[x].keys[j] = k
      BY <3>1 DEF Range
    <3>3. j \in 1 .. Len(nd[x].keys) /\ k \in Keys
      BY <3>1, <3>2, NodeFacts
    <3> QED BY <3>1, <3>2, <3>3 DEF KeysOf, Has
  <2> QED BY <2>1, <2>2
<1>9. keyset \in {UNION {Range(u.nodes[x].keys) : x \in DOMAIN u.nodes} : u \in InitTrees}
  BY <1>7, <1>8
<1> QED BY <1>9 DEF Map!Init, Init

\* Every step is one of KeyMap or leaves the set of keys alone.
LEMMA MapStep == IInv /\ [Next]_vars => [Map!Next]_<<keyset, op, kw, res>>
<1> SUFFICES ASSUME IInv, [Next]_vars PROVE Map!Next \/ UNCHANGED <<keyset, op, kw, res>>
  OBVIOUS
<1>1. Types
  BY DEF IInv
<1>2. PICK nd, L : IState(nd, L)
  BY DEF IInv
<1>3. keyset = KeysOf(nd) \ (IF Copying THEN {kw} ELSE {})
  BY <1>1, <1>2, KeysetNow DEF KeysetOK
<1>4. ASSUME NEW kind \in {"insert", "search", "remove"}, NEW k \in Keys, Begin(kind, k) PROVE Map!Begin
  <2>1. Becomes(KeysOf(nd)) /\ ~ Copying /\ ~ Copying'
    BY <1>1, <1>2, <1>4, BeginOK
  <2>2. keyset' = keyset
    BY <1>3, <2>1, KeysetBecomes
  <2> QED BY <1>4, <2>2 DEF Begin, Map!Begin
<1>5. CASE Throw
  <2>1. Becomes(KeysOf(nd)) /\ ~ Copying /\ ~ Copying'
    BY <1>1, <1>2, <1>5, ThrowOK
  <2>2. keyset' = keyset
    BY <1>3, <2>1, KeysetBecomes
  <2> QED BY <1>5, <2>2 DEF Throw, opVars
<1>6. CASE Search
  <2>1. /\ Becomes(KeysOf(nd)) /\ ~ Copying /\ ~ Copying'
        /\ op' = "idle" => res' = (kw \in KeysOf(nd))
        /\ op' # "idle" => op' = op /\ res' = res
        /\ kw' = kw
    BY <1>1, <1>2, <1>6, SearchOK
  <2>2. keyset' = keyset /\ keyset = KeysOf(nd)
    BY <1>3, <2>1, KeysetBecomes
  <2>3. op = "search"
    BY <1>6 DEF Search
  <2> QED BY <2>1, <2>2, <2>3 DEF Map!Next, Map!EndSearch
<1>7. CASE InsertFirst \/ InsertIntoLeaf
  <2>1. /\ Becomes(KeysOf(nd) \cup {kw}) /\ ~ Copying /\ ~ Copying'
        /\ op' = "idle" /\ kw' = kw /\ res' = res
    BY <1>1, <1>2, <1>7, InsertFirstOK, InsertIntoLeafOK
  <2>2. keyset' = keyset \cup {kw}
    BY <1>3, <2>1, KeysetBecomes
  <2>3. op = "insert"
    BY <1>7 DEF InsertFirst, InsertIntoLeaf
  <2> QED BY <2>1, <2>2, <2>3 DEF Map!Next, Map!EndInsert
<1>8. CASE SplitRoot \/ InsertSplitting \/ InsertDescending
  <2>1. /\ Becomes(KeysOf(nd)) /\ ~ Copying /\ ~ Copying'
        /\ op' = op /\ kw' = kw /\ res' = res
    BY <1>1, <1>2, <1>8, SplitRootOK, InsertSplittingOK, InsertDescendingOK
  <2>2. keyset' = keyset
    BY <1>3, <2>1, KeysetBecomes
  <2> QED BY <2>1, <2>2
<1>9. ASSUME op = "remove", op' = op, kw' = kw, res' = res, keyset' = keyset \/ keyset' = keyset \ {kw}
      PROVE  Map!Next \/ UNCHANGED <<keyset, op, kw, res>>
  <2>1. CASE kw \in keyset /\ keyset' = keyset \ {kw}
    BY <1>9, <2>1 DEF Map!Next, Map!Remove
  <2>2. CASE ~ (kw \in keyset /\ keyset' = keyset \ {kw})
    <3>1. keyset' = keyset
      BY <1>9, <2>2
    <3> QED BY <1>9, <3>1
  <2> QED BY <2>1, <2>2
<1>10. CASE DeleteInLeaf
  <2>1. /\ Becomes(KeysOf(nd) \ {kw}) /\ ~ Copying'
        /\ op = "remove" /\ op' = op /\ kw' = kw /\ res' = res
    BY <1>1, <1>2, <1>10, DeleteInLeafOK
  <2>2. keyset' = keyset \ {kw}
    BY <1>3, <2>1, KeysetBecomes
  <2> QED BY <1>9, <2>1, <2>2
<1>11. CASE DeleteInNode \/ DeleteBelow
  <2>1. /\ Becomes(KeysOf(nd)) /\ (Copying => Copying')
        /\ op = "remove" /\ op' = op /\ kw' = kw /\ res' = res
    BY <1>1, <1>2, <1>11, DeleteInNodeOK, DeleteBelowOK
  <2>2. keyset' = keyset \/ keyset' = keyset \ {kw}
    BY <1>3, <2>1, KeysetBecomes
  <2> QED BY <1>9, <2>1, <2>2
<1>12. CASE EndRemove
  <2>1. /\ Becomes(KeysOf(nd)) /\ ~ Copying /\ ~ Copying'
        /\ op = "remove" /\ op' \in {"idle", op} /\ kw' = kw /\ res' = res /\ kw \notin KeysOf(nd)
    BY <1>1, <1>2, <1>12, EndRemoveOK
  <2>2. keyset' = keyset /\ kw \notin keyset
    BY <1>3, <2>1, KeysetBecomes
  <2> QED BY <2>1, <2>2 DEF Map!Next, Map!EndRemove
<1>13. CASE UNCHANGED vars
  <2>1. UNCHANGED <<node, brootKey, op, kw, res>>
    BY <1>13 DEF vars, opVars
  <2>2. keyset' = keyset
    <3>1. nodesUnder' = nodesUnder
      BY <2>1 DEF nodesUnder, Kids
    <3> QED BY <2>1, <3>1 DEF keyset, Reachable, KeysIn
  <2> QED BY <2>1, <2>2
<1> QED
  BY <1>4, <1>5, <1>6, <1>7, <1>8, <1>10, <1>11, <1>12, <1>13 DEF Next, Step, Map!Next

\* An operation of the B-tree has the effect of its operation on a set of keys,
\* in one of its calls: insertkw adds the key, searchkw finds it exactly when it
\* is there, removekw takes it out, and no split, borrowing or merging changes
\* the set.
THEOREM BehavesAsKeyMap == Spec => KeyMapSpec
<1> QED BY MapInit, MapStep, Invariant, PTL DEF Spec, KeyMapSpec, Map!Spec, Map!mapVars

(***************************************************************************)
(* The nodes as a tree in memory.                                          *)
(***************************************************************************)
KidsIn(nd, x) == IF nd[x] = None THEN {} ELSE Range(nd[x].kids)

\* The children of c and s in nd are those of c in jd.
JoinKids(nd, jd, p, c, s) ==
  /\ p # c /\ p # s /\ c # s
  /\ nd[p] # None /\ nd[c] # None /\ nd[s] # None /\ jd[p] # None /\ jd[c] # None /\ jd[s] = None
  /\ KidsIn(nd, p) = KidsIn(jd, p) \cup {s} /\ c \in KidsIn(nd, p) /\ c \in KidsIn(jd, p)
  /\ KidsIn(jd, c) = KidsIn(nd, c) \cup KidsIn(nd, s)
  /\ \A x \in Bids \ {p, c, s} : jd[x] = nd[x]

\* The children of a node, by position.
LEMMA RangeOf ==
  ASSUME NEW n \in Node
  PROVE  \A x : x \in Range(n.kids) <=> \E j \in 1 .. Len(n.kids) : n.kids[j] = x
<1>1. DOMAIN n.kids = 1 .. Len(n.kids)
  BY NodeFacts
<1> QED BY <1>1 DEF Range

\* The children of two nodes joined are those of both.
LEMMA JoinedKids ==
  ASSUME NEW nd, NEW jd, NEW p \in Bids, NEW c \in Bids, NEW s \in Bids, NEW i \in Nat,
         Joins(nd, jd, p, i, c, s)
  PROVE  JoinKids(nd, jd, p, c, s)
<1> DEFINE n == Len(nd[c].keys)
           m == Len(nd[s].keys)
           k == Len(jd[p].keys)
<1>1. /\ p # c /\ p # s /\ c # s /\ i \in 1 .. k + 1
      /\ nd[p] \in Node /\ nd[c] \in Node /\ nd[s] \in Node
      /\ jd[p] \in Node /\ jd[c] \in Node /\ jd[s] = None
      /\ Len(nd[p].kids) = k + 2 /\ Len(jd[p].kids) = k + 1
      /\ \A j \in 1 .. k + 1 : jd[p].kids[j] = nd[p].kids[IF j <= i THEN j ELSE j + 1]
      /\ nd[p].kids[i] = c /\ nd[p].kids[i + 1] = s
      /\ \/ Len(jd[c].kids) = 0 /\ Len(nd[c].kids) = 0 /\ Len(nd[s].kids) = 0
         \/ Len(jd[c].kids) = n + m + 2 /\ Len(nd[c].kids) = n + 1 /\ Len(nd[s].kids) = m + 1
      /\ \A j \in 1 .. Len(nd[c].kids) : jd[c].kids[j] = nd[c].kids[j]
      /\ \A j \in 1 .. Len(nd[s].kids) : jd[c].kids[j + n + 1] = nd[s].kids[j]
      /\ \A x \in Bids \ {p, c, s} : jd[x] = nd[x]
  BY DEF Joins
<1>2. n \in Nat /\ m \in Nat /\ k \in Nat
  BY <1>1, NodeFacts
<1>3. nd[p] # None /\ nd[c] # None /\ nd[s] # None /\ jd[p] # None /\ jd[c] # None
  BY <1>1, NodeFacts
<1> HIDE DEF n, m, k
<1>4. /\ \A x : x \in KidsIn(nd, p) <=> \E j \in 1 .. k + 2 : nd[p].kids[j] = x
      /\ \A x : x \in KidsIn(jd, p) <=> \E j \in 1 .. k + 1 : jd[p].kids[j] = x
      /\ \A x : x \in KidsIn(nd, c) <=> \E j \in 1 .. Len(nd[c].kids) : nd[c].kids[j] = x
      /\ \A x : x \in KidsIn(nd, s) <=> \E j \in 1 .. Len(nd[s].kids) : nd[s].kids[j] = x
      /\ \A x : x \in KidsIn(jd, c) <=> \E j \in 1 .. Len(jd[c].kids) : jd[c].kids[j] = x
  <2>1. \A x : x \in KidsIn(nd, p) <=> \E j \in 1 .. k + 2 : nd[p].kids[j] = x
    <3>1. \A x : x \in Range(nd[p].kids) <=> \E j \in 1 .. Len(nd[p].kids) : nd[p].kids[j] = x
      BY ONLY <1>1, RangeOf
    <3>2. KidsIn(nd, p) = Range(nd[p].kids)
      BY ONLY <1>3 DEF KidsIn
    <3>3. Len(nd[p].kids) = k + 2
      BY <1>1
    <3> QED BY ONLY <3>1, <3>2, <3>3
  <2>2. \A x : x \in KidsIn(jd, p) <=> \E j \in 1 .. k + 1 : jd[p].kids[j] = x
    <3>1. \A x : x \in Range(jd[p].kids) <=> \E j \in 1 .. Len(jd[p].kids) : jd[p].kids[j] = x
      BY ONLY <1>1, RangeOf
    <3>2. KidsIn(jd, p) = Range(jd[p].kids)
      BY ONLY <1>3 DEF KidsIn
    <3>3. Len(jd[p].kids) = k + 1
      BY <1>1
    <3> QED BY ONLY <3>1, <3>2, <3>3
  <2>3. \A x : x \in KidsIn(nd, c) <=> \E j \in 1 .. Len(nd[c].kids) : nd[c].kids[j] = x
    <3>1. \A x : x \in Range(nd[c].kids) <=> \E j \in 1 .. Len(nd[c].kids) : nd[c].kids[j] = x
      BY ONLY <1>1, RangeOf
    <3>2. KidsIn(nd, c) = Range(nd[c].kids)
      BY ONLY <1>3 DEF KidsIn
    <3> QED BY ONLY <3>1, <3>2
  <2>4. \A x : x \in KidsIn(nd, s) <=> \E j \in 1 .. Len(nd[s].kids) : nd[s].kids[j] = x
    <3>1. \A x : x \in Range(nd[s].kids) <=> \E j \in 1 .. Len(nd[s].kids) : nd[s].kids[j] = x
      BY ONLY <1>1, RangeOf
    <3>2. KidsIn(nd, s) = Range(nd[s].kids)
      BY ONLY <1>3 DEF KidsIn
    <3> QED BY ONLY <3>1, <3>2
  <2>5. \A x : x \in KidsIn(jd, c) <=> \E j \in 1 .. Len(jd[c].kids) : jd[c].kids[j] = x
    <3>1. \A x : x \in Range(jd[c].kids) <=> \E j \in 1 .. Len(jd[c].kids) : jd[c].kids[j] = x
      BY ONLY <1>1, RangeOf
    <3>2. KidsIn(jd, c) = Range(jd[c].kids)
      BY ONLY <1>3 DEF KidsIn
    <3> QED BY ONLY <3>1, <3>2
  <2> QED BY <2>1, <2>2, <2>3, <2>4, <2>5
<1>5. \A x : x \in KidsIn(jd, p) => x \in KidsIn(nd, p)
  <2> SUFFICES ASSUME NEW j \in 1 .. k + 1 PROVE jd[p].kids[j] \in KidsIn(nd, p)
    BY <1>4
  <2>1. (IF j <= i THEN j ELSE j + 1) \in 1 .. k + 2
    BY <1>2
  <2> QED BY <1>1, <1>4, <2>1
<1>6. \A x : x \in KidsIn(nd, p) => x \in KidsIn(jd, p) \/ x = s
  <2> SUFFICES ASSUME NEW j \in 1 .. k + 2, j # i + 1 PROVE nd[p].kids[j] \in KidsIn(jd, p)
    BY <1>1, <1>4
  <2>1. CASE j <= i
    <3>1. j \in 1 .. k + 1
      BY <1>1, <1>2, <2>1
    <3>2. jd[p].kids[j] = nd[p].kids[j]
      BY <1>1, <2>1, <3>1
    <3> QED BY <1>4, <3>1, <3>2
  <2>2. CASE j > i
    <3>1. j - 1 \in 1 .. k + 1 /\ ~ (j - 1 <= i) /\ (j - 1) + 1 = j
      BY <1>1, <1>2, <2>2
    <3>2. jd[p].kids[j - 1] = nd[p].kids[j]
      BY <1>1, <3>1
    <3> QED BY <1>4, <3>1, <3>2
  <2> QED BY <2>1, <2>2, <1>1, <1>2
<1>7. s \in KidsIn(nd, p) /\ c \in KidsIn(nd, p) /\ c \in KidsIn(jd, p)
  <2>1. i \in 1 .. k + 2 /\ i + 1 \in 1 .. k + 2 /\ i \in 1 .. k + 1 /\ i <= i
    BY <1>1, <1>2
  <2>2. jd[p].kids[i] = nd[p].kids[i]
    BY <1>1, <2>1
  <2> QED BY <1>1, <1>4, <2>1, <2>2
<1>8. KidsIn(nd, p) = KidsIn(jd, p) \cup {s}
  BY <1>5, <1>6, <1>7
<1>9. \A x : x \in KidsIn(nd, c) => x \in KidsIn(jd, c)
  <2> SUFFICES ASSUME NEW j \in 1 .. Len(nd[c].kids) PROVE nd[c].kids[j] \in KidsIn(jd, c)
    BY <1>4
  <2>1. j \in 1 .. Len(jd[c].kids)
    BY <1>1, <1>2
  <2> QED BY <1>1, <1>4, <2>1
<1>10. \A x : x \in KidsIn(nd, s) => x \in KidsIn(jd, c)
  <2> SUFFICES ASSUME NEW j \in 1 .. Len(nd[s].kids) PROVE nd[s].kids[j] \in KidsIn(jd, c)
    BY <1>4
  <2>1. j + n + 1 \in 1 .. Len(jd[c].kids)
    BY <1>1, <1>2
  <2> QED BY <1>1, <1>4, <2>1, SMTT(40)
<1>11. \A x : x \in KidsIn(jd, c) => x \in KidsIn(nd, c) \/ x \in KidsIn(nd, s)
  <2> SUFFICES ASSUME NEW j \in 1 .. Len(jd[c].kids)
               PROVE  jd[c].kids[j] \in KidsIn(nd, c) \/ jd[c].kids[j] \in KidsIn(nd, s)
    BY <1>4
  <2>1. Len(jd[c].kids) = n + m + 2 /\ Len(nd[c].kids) = n + 1 /\ Len(nd[s].kids) = m + 1
    BY <1>1
  <2>2. CASE j <= n + 1
    <3>1. j \in 1 .. Len(nd[c].kids)
      BY <1>2, <2>1, <2>2
    <3> QED BY <1>1, <1>4, <3>1
  <2>3. CASE j > n + 1
    <3>1. j - n - 1 \in 1 .. Len(nd[s].kids) /\ (j - n - 1) + n + 1 = j
      BY <1>2, <2>1, <2>3
    <3>2. jd[c].kids[(j - n - 1) + n + 1] = nd[s].kids[j - n - 1]
      BY <1>1, <3>1
    <3> QED BY <1>4, <3>1, <3>2
  <2> QED BY <2>2, <2>3, <1>2, <2>1
<1>12. KidsIn(jd, c) = KidsIn(nd, c) \cup KidsIn(nd, s)
  BY <1>9, <1>10, <1>11
<1> QED BY <1>1, <1>3, <1>7, <1>8, <1>12 DEF JoinKids

\* One of two children takes a child of the other.
Receives(nd, od, c) == KidsIn(nd, c) \subseteq KidsIn(od, c)

\* With a key from the previous child comes a child.
LEMMA PrevReceives ==
  ASSUME NEW nd, NEW od, NEW jd, NEW p \in Bids, NEW c \in Bids, NEW s \in Bids, NEW i \in Nat,
         Joins(nd, jd, p, i, s, c), Joins(od, jd, p, i, s, c), KeyGiven(nd, od, c, s)
  PROVE  Receives(nd, od, c)
<1> DEFINE n == Len(nd[s].keys)
           m == Len(nd[c].keys)
<1>1. /\ nd[c] \in Node /\ nd[s] \in Node
      /\ \/ Len(jd[s].kids) = 0 /\ Len(nd[s].kids) = 0 /\ Len(nd[c].kids) = 0
         \/ Len(jd[s].kids) = n + m + 2 /\ Len(nd[s].kids) = n + 1 /\ Len(nd[c].kids) = m + 1
      /\ \A j \in 1 .. Len(nd[c].kids) : jd[s].kids[j + n + 1] = nd[c].kids[j]
  BY DEF Joins
<1>2. n \in Nat /\ m \in Nat
  BY <1>1, NodeFacts
<1>3. /\ od[c] \in Node /\ Len(od[s].keys) = n - 1 /\ Len(od[c].keys) = m + 1
      /\ \/ Len(jd[s].kids) = 0 /\ Len(od[s].kids) = 0 /\ Len(od[c].kids) = 0
         \/ Len(jd[s].kids) = Len(od[s].keys) + Len(od[c].keys) + 2 /\ Len(od[c].kids) = Len(od[c].keys) + 1
      /\ \A j \in 1 .. Len(od[c].kids) : jd[s].kids[j + Len(od[s].keys) + 1] = od[c].kids[j]
  BY DEF Joins, KeyGiven
<1> HIDE DEF n, m
<1>4. nd[c] # None /\ od[c] # None
  BY <1>1, <1>3, NodeFacts
<1>5. /\ \A x : x \in KidsIn(nd, c) <=> \E j \in 1 .. Len(nd[c].kids) : nd[c].kids[j] = x
      /\ \A x : x \in KidsIn(od, c) <=> \E j \in 1 .. Len(od[c].kids) : od[c].kids[j] = x
  BY <1>1, <1>3, <1>4, RangeOf DEF KidsIn
<1> SUFFICES ASSUME NEW j \in 1 .. Len(nd[c].kids) PROVE nd[c].kids[j] \in KidsIn(od, c)
  BY <1>5 DEF Receives
<1>6. Len(nd[c].kids) = m + 1 /\ Len(od[c].kids) = m + 2
  BY <1>1, <1>2, <1>3
<1>7. j + 1 \in 1 .. Len(od[c].kids) /\ (j + 1) + Len(od[s].keys) + 1 = j + n + 1
  BY <1>2, <1>3, <1>6
<1>8. jd[s].kids[(j + 1) + Len(od[s].keys) + 1] = od[c].kids[j + 1]
  BY <1>3, <1>7
<1> QED BY <1>1, <1>5, <1>7, <1>8

\* With a key from the next child comes a child.
LEMMA NextReceives ==
  ASSUME NEW nd, NEW od, NEW jd, NEW p \in Bids, NEW c \in Bids, NEW s \in Bids, NEW i \in Nat,
         Joins(nd, jd, p, i, c, s), Joins(od, jd, p, i, c, s), KeyGiven(nd, od, c, s)
  PROVE  Receives(nd, od, c)
<1> DEFINE n == Len(nd[c].keys)
<1>0. \/ Len(jd[c].kids) = 0 /\ Len(nd[c].kids) = 0 /\ Len(nd[s].kids) = 0
      \/ Len(jd[c].kids) = n + Len(nd[s].keys) + 2 /\ Len(nd[c].kids) = n + 1 /\ Len(nd[s].kids) = Len(nd[s].keys) + 1
  BY DEF Joins
<1>10. nd[c] \in Node /\ nd[s] \in Node /\ \A j \in 1 .. Len(nd[c].kids) : jd[c].kids[j] = nd[c].kids[j]
  BY DEF Joins
<1>11. n \in Nat /\ Len(nd[s].keys) \in Nat
  BY <1>10, NodeFacts
<1>1. /\ nd[c] \in Node /\ nd[s] \in Node
      /\ (Len(nd[c].kids) = 0 \/ Len(nd[c].kids) = n + 1)
      /\ (Len(jd[c].kids) = 0 => Len(nd[c].kids) = 0)
      /\ \A j \in 1 .. Len(nd[c].kids) : jd[c].kids[j] = nd[c].kids[j]
  <2> DEFINE m == Len(nd[s].keys)
  <2>1. m \in Nat
    BY <1>11
  <2>2. \/ Len(jd[c].kids) = 0 /\ Len(nd[c].kids) = 0
        \/ Len(jd[c].kids) = n + m + 2 /\ Len(nd[c].kids) = n + 1
    BY <1>0
  <2> HIDE DEF n, m
  <2>3. (Len(nd[c].kids) = 0 \/ Len(nd[c].kids) = n + 1) /\ (Len(jd[c].kids) = 0 => Len(nd[c].kids) = 0)
    BY ONLY <1>11, <2>1, <2>2
  <2> QED BY <1>10, <2>3
<1>2. n \in Nat
  BY <1>1, NodeFacts
<1>3. /\ od[c] \in Node /\ Len(od[c].keys) = n + 1
      /\ (Len(jd[c].kids) = 0 \/ Len(od[c].kids) = Len(od[c].keys) + 1)
      /\ \A j \in 1 .. Len(od[c].kids) : jd[c].kids[j] = od[c].kids[j]
  BY DEF Joins, KeyGiven
<1> HIDE DEF n
<1>4. nd[c] # None /\ od[c] # None
  BY <1>1, <1>3, NodeFacts
<1>5. /\ \A x : x \in KidsIn(nd, c) <=> \E j \in 1 .. Len(nd[c].kids) : nd[c].kids[j] = x
      /\ \A x : x \in KidsIn(od, c) <=> \E j \in 1 .. Len(od[c].kids) : od[c].kids[j] = x
  BY <1>1, <1>3, <1>4, RangeOf DEF KidsIn
<1> SUFFICES ASSUME NEW j \in 1 .. Len(nd[c].kids) PROVE nd[c].kids[j] \in KidsIn(od, c)
  BY <1>5 DEF Receives
<1>6. Len(nd[c].kids) = n + 1 /\ Len(od[c].kids) = n + 2
  BY <1>1, <1>2, <1>3
<1>7. j \in 1 .. Len(od[c].kids)
  BY <1>2, <1>6
<1> QED BY <1>1, <1>3, <1>5, <1>7

\* What the children of the nodes say of the state.
KidsOK ==
  /\ Reachable = {x \in Bids : node[x] # None}
  /\ \A x \in Bids : node[x] # None => brootKey \in Bids /\ node[brootKey] # None
  /\ \A x, y \in Bids : x # y => KidsIn(node, x) \cap KidsIn(node, y) = {}
  /\ \A x \in Bids : \A c \in KidsIn(node, x) : c \in Bids /\ node[c] # None

\* What the invariant says of children.
LEMMA KidsFrom == IInv => KidsOK
<1> SUFFICES ASSUME IInv PROVE KidsOK
  OBVIOUS
<1>1. PICK nd, L : IState(nd, L)
  BY DEF IInv
<1>2. View(nd) /\ IsTree(nd, brootKey, L)
  BY <1>1, Views DEF IInv, IState, TreeOK
<1>3. Alike(nd) /\ Reachable = {x \in Bids : node[x] # None}
  BY <1>2 DEF View
<1>4. \A x \in Bids : node[x] # None => brootKey \in Bids /\ node[brootKey] # None
  BY <1>2, <1>3, TreeNode DEF Alike
<1>5. \A x \in Bids : KidsIn(node, x) = KidsIn(nd, x)
  BY <1>3 DEF Alike, KidsIn
<1>6. \A x \in Bids : \A c \in KidsIn(nd, x) : c \in Bids /\ node[c] # None /\ L.parent[c] = x
  <2> SUFFICES ASSUME NEW x \in Bids, NEW c \in KidsIn(nd, x)
               PROVE  c \in Bids /\ node[c] # None /\ L.parent[c] = x
    OBVIOUS
  <2>1. nd[x] # None /\ c \in Range(nd[x].kids)
    BY DEF KidsIn
  <2>2. nd[x] \in Node
    BY <1>2, <2>1, TreeNode
  <2>3. PICK j \in 1 .. Len(nd[x].kids) : nd[x].kids[j] = c
    BY <2>1, <2>2, RangeOf
  <2>4. c \in Bids /\ nd[c] # None /\ L.parent[c] = x
    BY <1>2, <2>1, <2>3, TreeChild
  <2> QED BY <1>3, <2>4 DEF Alike
<1>7. \A x, y \in Bids : x # y => KidsIn(node, x) \cap KidsIn(node, y) = {}
  BY <1>5, <1>6
<1> QED BY <1>3, <1>4, <1>5, <1>6, <1>7 DEF KidsOK

\* And after the step.
LEMMA KidsNext == IInv' => KidsOK'
BY KidsFrom, PTL

RootIn(nd, r) == IF \A x \in Bids : nd[x] = None THEN None ELSE r
VerIn(nd) == [x \in Bids |-> IF nd[x] = None THEN None ELSE 0]
KidsOf(nd) == [x \in Bids |-> KidsIn(nd, x)]

\* The refinement mapping, in terms of the nodes.
LEMMA TreeView ==
  ASSUME KidsOK, KidsOK'
  PROVE  /\ (IF Reachable = {} THEN None ELSE brootKey) = RootIn(node, brootKey)
         /\ [x \in Bids |-> IF node[x] = None THEN None ELSE 0] = VerIn(node)
         /\ [x \in Bids |-> Kids(x)] = KidsOf(node)
         /\ (IF Reachable = {} THEN None ELSE brootKey)' = RootIn(node', brootKey')
         /\ [x \in Bids |-> IF node[x] = None THEN None ELSE 0]' = VerIn(node')
         /\ [x \in Bids |-> Kids(x)]' = KidsOf(node')
<1>1. Reachable = {x \in Bids : node[x] # None} /\ Reachable' = {x \in Bids : node'[x] # None}
  BY DEF KidsOK
<1>2. (Reachable = {} <=> \A x \in Bids : node[x] = None) /\ (Reachable' = {} <=> \A x \in Bids : node'[x] = None)
  BY <1>1
<1>3. (\A x : Kids(x) = KidsIn(node, x)) /\ (\A x : Kids(x)' = KidsIn(node', x))
  BY DEF Kids, KidsIn
<1> QED BY <1>2, <1>3 DEF RootIn, VerIn, KidsOf

\* What the children say, of the nodes in two states.
Family(nd, r) ==
  /\ \A x \in Bids : nd[x] # None => r \in Bids /\ nd[r] # None
  /\ \A x, y \in Bids : x # y => KidsIn(nd, x) \cap KidsIn(nd, y) = {}
  /\ \A x \in Bids : \A c \in KidsIn(nd, x) : c \in Bids /\ nd[c] # None

\* The abstract tree is a tree before and after the step.
LEMMA Families == ASSUME KidsOK, KidsOK' PROVE Family(node, brootKey) /\ Family(node', brootKey')
BY DEF KidsOK, Family

\* Versions are not told apart.
LEMMA Touched ==
  ASSUME NEW nd, NEW S, \A x \in S : nd[x] # None
  PROVE  [x \in Bids |-> IF x \in S THEN (VerIn(nd)[x] + 1) % 1 ELSE VerIn(nd)[x]] = VerIn(nd)
<1>1. (0 + 1) % 1 = 0
  OBVIOUS
<1>2. \A x \in Bids : (IF x \in S THEN (VerIn(nd)[x] + 1) % 1 ELSE VerIn(nd)[x]) = VerIn(nd)[x]
  <2> SUFFICES ASSUME NEW x \in Bids, x \in S PROVE (VerIn(nd)[x] + 1) % 1 = VerIn(nd)[x]
    OBVIOUS
  <2>1. VerIn(nd)[x] = 0
    BY DEF VerIn
  <2> QED BY <1>1, <2>1
<1> QED BY <1>2 DEF VerIn

\* None is not a root.
LEMMA NoneIsNoRoot == None \notin Bids /\ None # 0
BY BTreeAssumption

\* The abstract tree has the nodes that are present.
LEMMA PresentIs ==
  ASSUME NEW nd, NEW x \in Bids
  PROVE  VerIn(nd)[x] # None <=> nd[x] # None
BY NoneIsNoRoot DEF VerIn

\* A step that leaves the nodes and their children alone.
LEMMA StutterRefines ==
  ASSUME KidsOK, KidsOK', \A x \in Bids : (node'[x] = None <=> node[x] = None) /\ KidsIn(node', x) = KidsIn(node, x),
         brootKey' = brootKey \/ \A x \in Bids : node[x] = None
  PROVE  UNCHANGED Tree!treeVars
<1>1. VerIn(node') = VerIn(node) /\ KidsOf(node') = KidsOf(node)
  BY DEF VerIn, KidsOf
<1>2. RootIn(node', brootKey') = RootIn(node, brootKey)
  BY DEF RootIn
<1> QED BY <1>1, <1>2, TreeView DEF Tree!treeVars

\* A merge of two nodes is one of the abstract tree.
LEMMA MergeRefines ==
  ASSUME KidsOK, KidsOK', brootKey' = brootKey, NEW p \in Bids, NEW c \in Bids, NEW s \in Bids,
         JoinKids(node, node', p, c, s)
  PROVE  Tree!Next
<1> DEFINE nd == node
           V == VerIn(node)
           K == KidsOf(node)
<1>0. PICK nt : nt = node'
  OBVIOUS
<1>1. /\ p # c /\ p # s /\ c # s
      /\ nd[p] # None /\ nd[c] # None /\ nd[s] # None /\ nt[p] # None /\ nt[c] # None /\ nt[s] = None
      /\ KidsIn(nd, p) = KidsIn(nt, p) \cup {s} /\ c \in KidsIn(nd, p)
      /\ KidsIn(nt, c) = KidsIn(nd, c) \cup KidsIn(nd, s)
      /\ \A x \in Bids \ {p, c, s} : nt[x] = nd[x]
  BY <1>0 DEF JoinKids
<1>2. Family(nd, brootKey) /\ Family(nt, brootKey)
  BY <1>0, Families
<1>3. s \notin KidsIn(nt, p) /\ KidsIn(nt, s) = {}
  BY <1>1, <1>2 DEF Family, KidsIn
<1>4. RootIn(nt, brootKey) = brootKey /\ RootIn(nd, brootKey) = brootKey
  BY <1>1 DEF RootIn
<1>5. [x \in Bids |-> IF x \in {p, c} THEN (V[x] + 1) % 1 ELSE V[x]] = V
  <2>1. \A x \in {p, c} : nd[x] # None
    BY <1>1
  <2> QED BY <2>1, Touched
<1>6. VerIn(nt) = [V EXCEPT ![s] = None]
  <2>1. \A x \in Bids : nt[x] = None <=> nd[x] = None \/ x = s
    BY <1>1
  <2> QED BY <2>1 DEF VerIn
<1>7. KidsOf(nt) = [K EXCEPT ![p] = @ \ {s}, ![c] = @ \cup K[s], ![s] = {}]
  <2>1. /\ \A x \in Bids : K[x] = KidsIn(nd, x) /\ KidsOf(nt)[x] = KidsIn(nt, x)
        /\ K = [x \in Bids |-> K[x]] /\ KidsOf(nt) = [x \in Bids |-> KidsOf(nt)[x]]
    BY DEF KidsOf
  <2>2. KidsIn(nt, p) = KidsIn(nd, p) \ {s}
    BY <1>1, <1>3
  <2>3. \A x \in Bids \ {p, c, s} : KidsIn(nt, x) = KidsIn(nd, x)
    BY <1>1 DEF KidsIn
  <2> DEFINE M == [K EXCEPT ![p] = @ \ {s}, ![c] = @ \cup K[s], ![s] = {}]
  <2>4. M = [x \in Bids |-> M[x]] /\ \A x \in Bids : M[x] = IF x = p THEN K[p] \ {s} ELSE IF x = c THEN K[c] \cup K[s]
                                  ELSE IF x = s THEN {} ELSE K[x]
    <3> HIDE DEF K
    <3> QED BY <1>1, <2>1
  <2> HIDE DEF K, M
  <2>5. \A x \in Bids : M[x] = KidsOf(nt)[x]
    <3> SUFFICES ASSUME NEW x \in Bids PROVE M[x] = KidsOf(nt)[x]
      OBVIOUS
    <3>1. KidsOf(nt)[x] = KidsIn(nt, x) /\ K[x] = KidsIn(nd, x) /\ K[c] = KidsIn(nd, c) /\ K[s] = KidsIn(nd, s)
      BY <2>1
    <3>2. CASE x = p
      BY <1>1, <2>2, <2>4, <3>1, <3>2
    <3>3. CASE x = c
      BY <1>1, <2>4, <3>1, <3>3
    <3>4. CASE x = s
      BY <1>1, <1>3, <2>4, <3>1, <3>4
    <3>5. CASE x \notin {p, c, s}
      BY <2>3, <2>4, <3>1, <3>5
    <3> QED BY <3>2, <3>3, <3>4, <3>5
  <2>6. M = KidsOf(nt)
    BY <2>1, <2>4, <2>5
  <2> QED BY <2>6 DEF M
<1>8. c \in K[p] /\ s \in K[p]
  BY <1>1 DEF KidsOf
<1> HIDE DEF V, K
<1>9. V = VerIn(node) /\ K = KidsOf(node)
  BY DEF V, K
<1>10. Tree!Merge(p, c, s)
  <2>1. Tree!Touch({p, c}) = V
    BY <1>5, <1>9, TreeView DEF Tree!Touch
  <2>2. VerIn(node') = [Tree!Touch({p, c}) EXCEPT ![s] = None]
    BY <1>0, <1>6, <2>1
  <2>3. KidsOf(node') = [K EXCEPT ![p] = @ \ {s}, ![c] = @ \cup K[s], ![s] = {}]
    BY <1>0, <1>7
  <2>4. RootIn(node', brootKey') = RootIn(node, brootKey)
    BY <1>0, <1>4
  <2> QED BY <1>1, <1>8, <1>9, <2>2, <2>3, <2>4, TreeView DEF Tree!Merge
<1> QED BY <1>8, <1>9, <1>10, TreeView DEF Tree!Next

\* The children of the abstract tree, as a function.
LEMMA KidsAre ==
  ASSUME NEW nt, NEW M, M = [x \in Bids |-> M[x]], \A x \in Bids : M[x] = KidsIn(nt, x)
  PROVE  KidsOf(nt) = M
BY DEF KidsOf

\* The child c of p gets some of the children of its sibling s.
LEMMA BorrowRefines ==
  ASSUME KidsOK, KidsOK', brootKey' = brootKey, NEW p \in Bids, NEW c \in Bids, NEW s \in Bids,
         NEW jd, Receives(node, node', c),
         \/ JoinKids(node, jd, p, c, s) /\ JoinKids(node', jd, p, c, s)
         \/ JoinKids(node, jd, p, s, c) /\ JoinKids(node', jd, p, s, c)
  PROVE  Tree!Next
<1> DEFINE nd == node
           V == VerIn(node)
           K == KidsOf(node)
<1>0. PICK nt : nt = node'
  OBVIOUS
<1> DEFINE C == KidsIn(nt, c) \ KidsIn(nd, c)
<1>1. /\ p # c /\ p # s /\ c # s
      /\ nd[p] # None /\ nd[c] # None /\ nd[s] # None /\ nt[p] # None /\ nt[c] # None /\ nt[s] # None
      /\ KidsIn(nt, p) = KidsIn(nd, p) /\ c \in KidsIn(nd, p) /\ s \in KidsIn(nd, p)
      /\ KidsIn(nt, c) \cup KidsIn(nt, s) = KidsIn(nd, c) \cup KidsIn(nd, s)
      /\ \A x \in Bids \ {p, c, s} : nt[x] = nd[x]
      /\ KidsIn(nd, c) \subseteq KidsIn(nt, c)
  <2>1. /\ Receives(nd, nt, c)
        /\ \/ JoinKids(nd, jd, p, c, s) /\ JoinKids(nt, jd, p, c, s)
           \/ JoinKids(nd, jd, p, s, c) /\ JoinKids(nt, jd, p, s, c)
    BY <1>0
  <2>2. CASE JoinKids(nd, jd, p, c, s) /\ JoinKids(nt, jd, p, c, s)
    BY <2>1, <2>2 DEF JoinKids, Receives
  <2>3. CASE JoinKids(nd, jd, p, s, c) /\ JoinKids(nt, jd, p, s, c)
    BY <2>1, <2>3 DEF JoinKids, Receives
  <2> QED BY <2>1, <2>2, <2>3
<1>2. Family(nd, brootKey) /\ Family(nt, brootKey)
  BY <1>0, Families
<1>3. KidsIn(nd, c) \cap KidsIn(nd, s) = {} /\ KidsIn(nt, c) \cap KidsIn(nt, s) = {}
  BY <1>1, <1>2 DEF Family
<1>4. /\ C \subseteq KidsIn(nd, s)
      /\ KidsIn(nt, s) = KidsIn(nd, s) \ C /\ KidsIn(nt, c) = KidsIn(nd, c) \cup C
  BY <1>1, <1>3
<1> HIDE DEF C
<1>5. RootIn(nt, brootKey) = brootKey /\ RootIn(nd, brootKey) = brootKey
  BY <1>1 DEF RootIn
<1>6. [x \in Bids |-> IF x \in {p, s, c} THEN (V[x] + 1) % 1 ELSE V[x]] = V
  <2>1. \A x \in {p, s, c} : nd[x] # None
    BY <1>1
  <2> QED BY <2>1, Touched
<1>7. VerIn(nt) = V
  <2>1. \A x \in Bids : nt[x] = None <=> nd[x] = None
    BY <1>1
  <2> QED BY <2>1 DEF VerIn
<1>8. KidsOf(nt) = [K EXCEPT ![s] = @ \ C, ![c] = @ \cup C]
  <2>1. (\A x \in Bids : K[x] = KidsIn(nd, x)) /\ K = [x \in Bids |-> K[x]]
    BY DEF KidsOf
  <2>2. \A x \in Bids \ {p, c, s} : KidsIn(nt, x) = KidsIn(nd, x)
    BY <1>1 DEF KidsIn
  <2> DEFINE M == [K EXCEPT ![s] = @ \ C, ![c] = @ \cup C]
  <2>3. M = [x \in Bids |-> M[x]] /\ \A x \in Bids : M[x] = IF x = s THEN K[s] \ C ELSE IF x = c THEN K[c] \cup C ELSE K[x]
    <3> HIDE DEF K
    <3> QED BY <1>1, <2>1
  <2> HIDE DEF K, M
  <2>4. \A x \in Bids : M[x] = KidsIn(nt, x)
    <3> SUFFICES ASSUME NEW x \in Bids PROVE M[x] = KidsIn(nt, x)
      OBVIOUS
    <3>1. K[x] = KidsIn(nd, x) /\ K[c] = KidsIn(nd, c) /\ K[s] = KidsIn(nd, s)
      BY <2>1
    <3>2. CASE x \in {s, c}
      BY <1>1, <1>4, <2>3, <3>1, <3>2
    <3>3. CASE x = p
      BY <1>1, <2>3, <3>1, <3>3
    <3>4. CASE x \notin {p, c, s}
      BY <2>2, <2>3, <3>1, <3>4
    <3> QED BY <3>2, <3>3, <3>4
  <2>5. M = KidsOf(nt)
    BY <2>3, <2>4, KidsAre
  <2> QED BY <2>5 DEF M
<1>9. c \in K[p] /\ s \in K[p] /\ C \subseteq K[s]
  BY <1>1, <1>4 DEF KidsOf
<1> HIDE DEF V, K
<1>10. V = VerIn(node) /\ K = KidsOf(node)
  BY DEF V, K
<1>11. Tree!Borrow(p, s, c, C)
  <2>1. Tree!Touch({p, s, c}) = V
    BY <1>6, <1>10, TreeView DEF Tree!Touch
  <2>2. VerIn(node') = Tree!Touch({p, s, c})
    BY <1>0, <1>7, <2>1
  <2>3. KidsOf(node') = [K EXCEPT ![s] = @ \ C, ![c] = @ \cup C]
    BY <1>0, <1>8
  <2>4. RootIn(node', brootKey') = RootIn(node, brootKey)
    BY <1>0, <1>5
  <2> QED BY <1>1, <1>9, <1>10, <2>2, <2>3, <2>4, TreeView DEF Tree!Borrow
<1>12. C \in SUBSET K[s]
  BY <1>9
<1>13. \E a, b \in K[p] : Tree!Merge(p, a, b) \/ \E D \in SUBSET K[a] : Tree!Borrow(p, a, b, D)
  BY <1>9, <1>11, <1>12 DEF Tree!Borrow
<1> QED BY <1>10, <1>13, TreeView DEF Tree!Next

\* The child y of p gives some of its children to the new node z.
LEMMA SplitRefines ==
  ASSUME KidsOK, KidsOK', brootKey' = brootKey, NEW p \in Bids, NEW y \in Bids, NEW z \in Bids,
         JoinKids(node', node, p, y, z)
  PROVE  Tree!Next
<1> DEFINE nd == node
           V == VerIn(node)
           K == KidsOf(node)
<1>0. PICK nt : nt = node'
  OBVIOUS
<1> DEFINE C == KidsIn(nt, z)
<1>1. /\ p # y /\ p # z /\ y # z
      /\ nt[p] # None /\ nt[y] # None /\ nt[z] # None /\ nd[p] # None /\ nd[y] # None /\ nd[z] = None
      /\ KidsIn(nt, p) = KidsIn(nd, p) \cup {z} /\ y \in KidsIn(nd, p)
      /\ KidsIn(nd, y) = KidsIn(nt, y) \cup KidsIn(nt, z)
      /\ \A x \in Bids \ {p, y, z} : nd[x] = nt[x]
  BY <1>0 DEF JoinKids
<1>2. Family(nd, brootKey) /\ Family(nt, brootKey)
  BY <1>0, Families
<1>3. KidsIn(nt, y) \cap KidsIn(nt, z) = {}
  BY <1>1, <1>2 DEF Family
<1>4. C \subseteq KidsIn(nd, y) /\ KidsIn(nt, y) = KidsIn(nd, y) \ C /\ KidsIn(nt, z) = C
  BY <1>1, <1>3
<1> HIDE DEF C
<1>5. RootIn(nt, brootKey) = brootKey /\ RootIn(nd, brootKey) = brootKey /\ brootKey \in Bids
  BY <1>1, <1>2 DEF RootIn, Family
<1>6. [x \in Bids |-> IF x \in {p, y} THEN (V[x] + 1) % 1 ELSE V[x]] = V
  <2>1. \A x \in {p, y} : nd[x] # None
    BY <1>1
  <2> QED BY <2>1, Touched
<1>7. VerIn(nt) = [V EXCEPT ![z] = 0]
  <2>1. \A x \in Bids : nt[x] = None <=> nd[x] = None /\ x # z
    BY <1>1
  <2> QED BY <2>1 DEF VerIn
<1>8. KidsOf(nt) = [K EXCEPT ![p] = @ \cup {z}, ![y] = @ \ C, ![z] = C]
  <2>1. (\A x \in Bids : K[x] = KidsIn(nd, x)) /\ K = [x \in Bids |-> K[x]]
    BY DEF KidsOf
  <2>2. \A x \in Bids \ {p, y, z} : KidsIn(nt, x) = KidsIn(nd, x)
    BY <1>1 DEF KidsIn
  <2> DEFINE M == [K EXCEPT ![p] = @ \cup {z}, ![y] = @ \ C, ![z] = C]
  <2>3. M = [x \in Bids |-> M[x]] /\ \A x \in Bids : M[x] = IF x = p THEN K[p] \cup {z} ELSE IF x = y THEN K[y] \ C
                                                           ELSE IF x = z THEN C ELSE K[x]
    <3> HIDE DEF K
    <3> QED BY <1>1, <2>1
  <2> HIDE DEF K, M
  <2>4. \A x \in Bids : M[x] = KidsIn(nt, x)
    <3> SUFFICES ASSUME NEW x \in Bids PROVE M[x] = KidsIn(nt, x)
      OBVIOUS
    <3>1. K[x] = KidsIn(nd, x) /\ K[p] = KidsIn(nd, p) /\ K[y] = KidsIn(nd, y)
      BY <2>1
    <3>2. CASE x \in {y, z}
      BY <1>1, <1>4, <2>3, <3>1, <3>2
    <3>3. CASE x = p
      BY <1>1, <2>3, <3>1, <3>3
    <3>4. CASE x \notin {p, y, z}
      BY <2>2, <2>3, <3>1, <3>4
    <3> QED BY <3>2, <3>3, <3>4
  <2>5. M = KidsOf(nt)
    BY <2>3, <2>4, KidsAre
  <2> QED BY <2>5 DEF M
<1>9. y \in K[p] /\ C \in SUBSET K[y] /\ C \subseteq K[y]
  BY <1>1, <1>4 DEF KidsOf
<1> HIDE DEF V, K
<1>10. V = VerIn(node) /\ K = KidsOf(node)
  BY DEF V, K
<1>11. V[z] = None
  BY <1>1, PresentIs DEF V
<1>12. ~ Tree!Present(z)
  BY <1>10, <1>11, TreeView DEF Tree!Present
<1>13. Tree!Split(p, y, C, z)
  <2>1. Tree!Touch({p, y}) = V
    BY <1>6, <1>10, TreeView DEF Tree!Touch
  <2>2. VerIn(node') = [Tree!Touch({p, y}) EXCEPT ![z] = 0]
    BY <1>0, <1>7, <2>1
  <2>3. KidsOf(node') = [K EXCEPT ![p] = @ \cup {z}, ![y] = @ \ C, ![z] = C]
    BY <1>0, <1>8
  <2>4. RootIn(node', brootKey') = RootIn(node, brootKey)
    BY <1>0, <1>5
  <2> QED BY <1>9, <1>10, <1>12, <2>2, <2>3, <2>4, TreeView DEF Tree!Split
<1>14. RootIn(node, brootKey) # None
  BY <1>5, NoneIsNoRoot
<1> QED BY <1>9, <1>10, <1>12, <1>13, <1>14, TreeView DEF Tree!Next

\* The full root r is split under the new root s; md is the tree in between.
LEMMA SplitRootRefines ==
  ASSUME KidsOK, KidsOK', NEW r \in Bids, r = brootKey, NEW s \in Bids, NEW z \in Bids, brootKey' = s,
         node[r] # None, NEW md, \A x \in Bids \ {s} : md[x] = node[x], KidsIn(md, s) = {r}, node[s] = None,
         JoinKids(node', md, s, r, z)
  PROVE  Tree!Next
<1> DEFINE nd == node
           V == VerIn(node)
           K == KidsOf(node)
<1>0. PICK nt : nt = node'
  OBVIOUS
<1> DEFINE C == KidsIn(nt, z)
<1>1. /\ s # r /\ s # z /\ r # z
      /\ nt[s] # None /\ nt[r] # None /\ nt[z] # None /\ md[z] = None
      /\ KidsIn(nt, s) = {r, z}
      /\ KidsIn(md, r) = KidsIn(nt, r) \cup KidsIn(nt, z)
      /\ \A x \in Bids \ {s, r, z} : md[x] = nt[x]
  BY <1>0 DEF JoinKids
<1>2. /\ nd[r] # None /\ nd[s] = None /\ nd[z] = None
      /\ KidsIn(nd, r) = KidsIn(nt, r) \cup KidsIn(nt, z)
      /\ \A x \in Bids \ {s, r, z} : nd[x] = nt[x]
  BY <1>1 DEF KidsIn
<1>3. Family(nt, s)
  BY <1>0, Families
<1>4. KidsIn(nt, r) \cap KidsIn(nt, z) = {}
  BY <1>1, <1>3 DEF Family
<1>5. C \subseteq KidsIn(nd, r) /\ KidsIn(nt, r) = KidsIn(nd, r) \ C /\ KidsIn(nt, z) = C
  BY <1>2, <1>4
<1> HIDE DEF C
<1>6. RootIn(nt, s) = s /\ RootIn(nd, r) = r
  BY <1>1, <1>2 DEF RootIn
<1>7. [x \in Bids |-> IF x \in {r} THEN (V[x] + 1) % 1 ELSE V[x]] = V
  <2>1. \A x \in {r} : nd[x] # None
    BY <1>2
  <2> QED BY <2>1, Touched
<1>8. VerIn(nt) = [V EXCEPT ![z] = 0, ![s] = 0]
  <2>1. \A x \in Bids : nt[x] = None <=> nd[x] = None /\ x # z /\ x # s
    BY <1>1, <1>2
  <2> QED BY <2>1 DEF VerIn
<1>9. KidsOf(nt) = [K EXCEPT ![r] = @ \ C, ![z] = C, ![s] = {r, z}]
  <2>1. (\A x \in Bids : K[x] = KidsIn(nd, x)) /\ K = [x \in Bids |-> K[x]]
    BY DEF KidsOf
  <2>2. \A x \in Bids \ {s, r, z} : KidsIn(nt, x) = KidsIn(nd, x)
    BY <1>2 DEF KidsIn
  <2> DEFINE M == [K EXCEPT ![r] = @ \ C, ![z] = C, ![s] = {r, z}]
  <2>3. M = [x \in Bids |-> M[x]] /\ \A x \in Bids : M[x] = IF x = r THEN K[r] \ C ELSE IF x = z THEN C
                                                           ELSE IF x = s THEN {r, z} ELSE K[x]
    <3> HIDE DEF K
    <3> QED BY <1>1, <2>1
  <2> HIDE DEF K, M
  <2>4. \A x \in Bids : M[x] = KidsIn(nt, x)
    <3> SUFFICES ASSUME NEW x \in Bids PROVE M[x] = KidsIn(nt, x)
      OBVIOUS
    <3>1. K[x] = KidsIn(nd, x) /\ K[r] = KidsIn(nd, r)
      BY <2>1
    <3>2. CASE x \in {r, z}
      BY <1>1, <1>5, <2>3, <3>1, <3>2
    <3>3. CASE x = s
      BY <1>1, <2>3, <3>1, <3>3
    <3>4. CASE x \notin {s, r, z}
      BY <2>2, <2>3, <3>1, <3>4
    <3> QED BY <3>2, <3>3, <3>4
  <2>5. M = KidsOf(nt)
    BY <2>3, <2>4, KidsAre
  <2> QED BY <2>5 DEF M
<1>10. C \in SUBSET K[r] /\ C \subseteq K[r]
  BY <1>5 DEF KidsOf
<1> HIDE DEF V, K
<1>11. V = VerIn(node) /\ K = KidsOf(node)
  BY DEF V, K
<1>12. V[z] = None /\ V[s] = None
  BY <1>2, PresentIs DEF V
<1>13. ~ Tree!Present(z) /\ ~ Tree!Present(s)
  BY <1>11, <1>12, TreeView DEF Tree!Present
<1>14. r = RootIn(node, brootKey) /\ s = RootIn(node', brootKey')
  BY <1>0, <1>6
<1>15. Tree!SplitRoot(C, z, s)
  <2>1. Tree!Touch({r}) = V
    BY <1>7, <1>11, TreeView DEF Tree!Touch
  <2>2. VerIn(node') = [Tree!Touch({r}) EXCEPT ![z] = 0, ![s] = 0]
    BY <1>0, <1>8, <2>1
  <2>3. KidsOf(node') = [K EXCEPT ![r] = @ \ C, ![z] = C, ![s] = {r, z}]
    BY <1>0, <1>9
  <2> QED BY <1>1, <1>10, <1>11, <1>13, <1>14, <2>2, <2>3, TreeView, Zenon DEF Tree!SplitRoot
<1>16. RootIn(node, brootKey) # None
  BY <1>14, NoneIsNoRoot, Zenon
<1> QED BY <1>10, <1>11, <1>13, <1>14, <1>15, <1>16, TreeView, Zenon DEF Tree!Next

\* The first node.
LEMMA PlantRefines ==
  ASSUME KidsOK, KidsOK', \A x \in Bids : node[x] = None, NEW s \in Bids, brootKey' = s,
         node'[s] # None, KidsIn(node', s) = {}, \A x \in Bids \ {s} : node'[x] = node[x]
  PROVE  Tree!Next
<1>0. PICK nt : nt = node'
  OBVIOUS
<1>1. RootIn(node, brootKey) = None /\ RootIn(nt, s) = s
  BY <1>0 DEF RootIn
<1>2. VerIn(nt) = [VerIn(node) EXCEPT ![s] = 0]
  BY <1>0 DEF VerIn
<1>3. KidsOf(nt) = KidsOf(node)
  <2>1. \A x \in Bids : KidsIn(nt, x) = KidsIn(node, x)
    BY <1>0 DEF KidsIn
  <2> QED BY <2>1 DEF KidsOf
<1>4. ~ Tree!Present(s)
  <2>1. VerIn(node)[s] = None
    BY PresentIs
  <2> QED BY <2>1, TreeView DEF Tree!Present
<1>5. Tree!Plant(s)
  BY <1>0, <1>1, <1>2, <1>3, <1>4, TreeView DEF Tree!Plant
<1> QED BY <1>5 DEF Tree!Next

\* The last one.
LEMMA ClearRefines ==
  ASSUME KidsOK, KidsOK', NEW r \in Bids, r = brootKey, brootKey' = brootKey, node[r] # None, KidsIn(node, r) = {},
         node' = [node EXCEPT ![r] = None], DOMAIN node = Bids
  PROVE  Tree!Next
<1>0. PICK nt : nt = node'
  OBVIOUS
<1>1. nt[r] = None /\ \A x \in Bids \ {r} : nt[x] = node[x]
  BY <1>0
<1>2. Family(nt, r)
  BY <1>0, Families
<1>3. \A x \in Bids : nt[x] = None
  BY <1>1, <1>2 DEF Family
<1>4. RootIn(node, brootKey) = r /\ RootIn(nt, r) = None
  BY <1>3 DEF RootIn
<1>5. VerIn(nt) = [VerIn(node) EXCEPT ![r] = None]
  BY <1>1 DEF VerIn
<1>6. KidsOf(nt) = KidsOf(node) /\ KidsOf(node)[r] = {}
  <2>1. \A x \in Bids : KidsIn(nt, x) = KidsIn(node, x)
    BY <1>1 DEF KidsIn
  <2> QED BY <2>1 DEF KidsOf
<1>7. r # None
  BY NoneIsNoRoot
<1>8. Tree!Clear
  BY <1>0, <1>4, <1>5, <1>6, <1>7, TreeView DEF Tree!Clear
<1> QED BY <1>8 DEF Tree!Next

\* The root left with its one child c.
LEMMA CollapseRefines ==
  ASSUME KidsOK, KidsOK', NEW r \in Bids, r = brootKey, node[r] # None, NEW c \in Bids, brootKey' = c,
         c # r, node[c] # None, KidsIn(node, r) = {c}, node' = [node EXCEPT ![r] = None], DOMAIN node = Bids
  PROVE  Tree!Next
<1>0. PICK nt : nt = node'
  OBVIOUS
<1>1. nt[r] = None /\ \A x \in Bids \ {r} : nt[x] = node[x]
  BY <1>0
<1>2. RootIn(node, brootKey) = r /\ RootIn(nt, c) = c
  BY <1>1 DEF RootIn
<1>3. VerIn(nt) = [VerIn(node) EXCEPT ![r] = None]
  BY <1>1 DEF VerIn
<1>4. KidsOf(nt) = [KidsOf(node) EXCEPT ![r] = {}] /\ KidsOf(node)[r] = {c}
  <2>1. \A x \in Bids : KidsIn(nt, x) = IF x = r THEN {} ELSE KidsIn(node, x)
    BY <1>1 DEF KidsIn
  <2> QED BY <2>1 DEF KidsOf
<1>5. r # None
  BY NoneIsNoRoot
<1>6. Tree!CollapseRoot
  <2>1. RootIn(node, brootKey) # None
    BY <1>2, <1>5
  <2>2. \E a \in KidsOf(node)[r] : /\ KidsOf(node)[r] = {a}
                                   /\ VerIn(node') = [VerIn(node) EXCEPT ![r] = None]
                                   /\ KidsOf(node') = [KidsOf(node) EXCEPT ![r] = {}]
                                   /\ RootIn(node', brootKey') = a
    BY <1>0, <1>2, <1>3, <1>4
  <2> QED BY <1>2, <2>1, <2>2, TreeView DEF Tree!CollapseRoot
<1> QED BY <1>6 DEF Tree!Next

TreeStep == Tree!Next \/ UNCHANGED Tree!treeVars

\* A key of a node is written: its children stay.
LEMMA WriteRefines ==
  ASSUME KidsOK, KidsOK', DOMAIN node = Bids, NEW x \in Bids, node[x] \in Node, NEW ks \in Seq(Keys),
         node' = [node EXCEPT ![x] = [keys |-> ks, kids |-> node[x].kids]], brootKey' = brootKey
  PROVE  TreeStep
<1>0. PICK nt : nt = node'
  OBVIOUS
<1>1. nt[x] = [keys |-> ks, kids |-> node[x].kids] /\ \A y \in Bids \ {x} : nt[y] = node[y]
  BY <1>0
<1>2. nt[x] \in Node /\ nt[x].kids = node[x].kids
  BY <1>1, NodeFacts DEF Node
<1>3. nt[x] # None /\ node[x] # None
  BY <1>2, NodeFacts
<1>4. \A y \in Bids : (nt[y] = None <=> node[y] = None) /\ KidsIn(nt, y) = KidsIn(node, y)
  BY <1>1, <1>2, <1>3 DEF KidsIn
<1> QED BY <1>0, <1>4, StutterRefines DEF TreeStep

\* A walk goes on.
LEMMA WalkRefines ==
  ASSUME KidsOK, KidsOK', node' = node, brootKey' = brootKey \/ \A x \in Bids : node[x] = None
  PROVE  TreeStep
<1>1. \A x \in Bids : (node'[x] = None <=> node[x] = None) /\ KidsIn(node', x) = KidsIn(node, x)
  BY DEF KidsIn
<1> QED BY <1>1, StutterRefines DEF TreeStep

\* The children of cur at positions i and i + 1, as they are in node.
Pairs(i, c, s) ==
  /\ Joins(node, MergeAt(node, cur, i), cur, i, c, s) /\ JoinKids(node, MergeAt(node, cur, i), cur, c, s)
  /\ cur \in Bids /\ c \in Bids /\ s \in Bids /\ i \in Nat /\ DOMAIN node = Bids

\* Children of cur at i and i + 1 are side by side in node too.
LEMMA PairHere ==
  ASSUME NEW nd, NEW L, AtCall(nd, L), L.h[cur] # 0, DOMAIN node = Bids,
         NEW i \in 1 .. Len(nd[cur].keys), NEW c, NEW s, c = nd[cur].kids[i], s = nd[cur].kids[i + 1]
  PROVE  Pairs(i, c, s)
<1>1. /\ IsTree(nd, brootKey, L) /\ cur \in Bids /\ nd[cur] # None /\ node[cur] = nd[cur] /\ L.h[cur] \in Nat
      /\ \A x \in Bids : L.h[x] <= L.h[cur] => node[x] = nd[x]
  BY DEF AtCall
<1>2. Pair(nd, brootKey, L, cur, i, c, s)
  BY ONLY <1>1, L.h[cur] # 0, i \in 1 .. Len(nd[cur].keys), c = nd[cur].kids[i], s = nd[cur].kids[i + 1], PairAt
<1>3. /\ c \in Bids /\ s \in Bids /\ nd[cur] \in Node /\ nd[c] \in Node /\ nd[s] \in Node
      /\ cur # c /\ cur # s /\ c # s /\ i \in Nat /\ Len(nd[cur].kids) = Len(nd[cur].keys) + 1
      /\ \/ Len(nd[c].kids) = 0 /\ Len(nd[s].kids) = 0
         \/ Len(nd[c].kids) = Len(nd[c].keys) + 1 /\ Len(nd[s].kids) = Len(nd[s].keys) + 1
      /\ L.h[c] = L.h[s] /\ L.h[cur] = L.h[c] + 1 /\ L.h[c] \in Nat
  BY <1>2 DEF Pair
<1>4. node[c] = nd[c] /\ node[s] = nd[s]
  <2> DEFINE u == L.h[c]  v == L.h[cur]
  <2>1. v = u + 1 /\ u \in Nat /\ L.h[s] = u
    BY <1>3
  <2> HIDE DEF u, v
  <2>2. u <= v
    BY ONLY <2>1
  <2> QED BY <1>1, <1>3, <2>1, <2>2 DEF u, v
<1>5. /\ node[cur] \in Node /\ node[c] \in Node /\ node[s] \in Node
      /\ i \in 1 .. Len(node[cur].keys) /\ node[cur].kids[i] = c /\ node[cur].kids[i + 1] = s
      /\ Len(node[cur].kids) = Len(node[cur].keys) + 1
      /\ \/ Len(node[c].kids) = 0 /\ Len(node[s].kids) = 0
         \/ Len(node[c].kids) = Len(node[c].keys) + 1 /\ Len(node[s].kids) = Len(node[s].keys) + 1
  BY <1>1, <1>3, <1>4
<1>6. Joins(node, MergeAt(node, cur, i), cur, i, c, s)
  BY ONLY <1>1, <1>3, <1>5, DOMAIN node = Bids, MergeJoins
<1>7. JoinKids(node, MergeAt(node, cur, i), cur, c, s)
  BY ONLY <1>1, <1>3, <1>6, JoinedKids
<1> QED BY <1>1, <1>3, <1>6, <1>7 DEF Pairs

\* merge() is a step of the abstract tree.
LEMMA DeleteMerges ==
  ASSUME KidsOK, KidsOK', brootKey' = brootKey, NEW i, NEW c, NEW s, Pairs(i, c, s),
         node' = MergeAt(node, cur, i)
  PROVE  TreeStep
<1>1. cur \in Bids /\ c \in Bids /\ s \in Bids /\ JoinKids(node, node', cur, c, s)
  BY DEF Pairs
<1> QED BY <1>1, MergeRefines DEF TreeStep

\* A node with a key to spare has a key.
LEMMA GivesAKey ==
  ASSUME NEW i, NEW c, NEW s, Pairs(i, c, s)
  PROVE  /\ CanGive(c) => Len(node[c].keys) > 0
         /\ CanGive(s) => Len(node[s].keys) > 0
<1>1. node[c] \in Node /\ node[s] \in Node
  BY DEF Pairs, Joins
<1> DEFINE n == Len(node[c].keys)  m == Len(node[s].keys)
<1>2. n \in Nat /\ m \in Nat /\ T \in Nat /\ T > 1
  BY <1>1, NodeFacts, BTreeAssumption
<1>3. (CanGive(c) <=> n >= T) /\ (CanGive(s) <=> m >= T)
  BY DEF CanGive, keynum
<1> HIDE DEF n, m
<1>4. (n >= T => n > 0) /\ (m >= T => m > 0)
  BY ONLY <1>2
<1> QED BY <1>3, <1>4 DEF n, m

\* borrowFromPrev() is a step of the abstract tree.
LEMMA PrevBorrows ==
  ASSUME KidsOK, KidsOK', brootKey' = brootKey, NEW i \in Nat, NEW g, g = i - 1, NEW c, NEW s, Pairs(g, s, c),
         node[cur].kids[i] = c, CanGive(s), node' = BorrowFromPrev(node, cur, i)
  PROVE  TreeStep
<1> DEFINE jd == MergeAt(node, cur, g)
<1>0. PICK nt : nt = node'
  OBVIOUS
<1>1. /\ cur \in Bids /\ c \in Bids /\ s \in Bids /\ g \in Nat /\ DOMAIN node = Bids
      /\ Joins(node, jd, cur, g, s, c) /\ JoinKids(node, jd, cur, s, c)
      /\ Len(node[s].keys) > 0 /\ nt = BorrowFromPrev(node, cur, i)
  BY <1>0, GivesAKey DEF Pairs
<1> HIDE DEF jd
<1>2. Joins(nt, jd, cur, g, s, c) /\ KeyGiven(node, nt, c, s)
  BY ONLY <1>1, i \in Nat, g = i - 1, node[cur].kids[i] = c, BorrowPrevOf
<1>3. JoinKids(nt, jd, cur, s, c) /\ Receives(node, nt, c)
  BY ONLY <1>1, <1>2, JoinedKids, PrevReceives
<1>4. JoinKids(node', jd, cur, s, c) /\ Receives(node, node', c)
  BY <1>0, <1>3
<1> QED BY <1>1, <1>4, BorrowRefines DEF TreeStep

\* borrowFromNext() is a step of the abstract tree.
LEMMA NextBorrows ==
  ASSUME KidsOK, KidsOK', brootKey' = brootKey, NEW i, NEW c, NEW s, Pairs(i, c, s),
         CanGive(s), node' = BorrowFromNext(node, cur, i)
  PROVE  TreeStep
<1> DEFINE jd == MergeAt(node, cur, i)
<1>0. PICK nt : nt = node'
  OBVIOUS
<1>1. /\ cur \in Bids /\ c \in Bids /\ s \in Bids /\ i \in Nat /\ DOMAIN node = Bids
      /\ Joins(node, jd, cur, i, c, s) /\ JoinKids(node, jd, cur, c, s)
      /\ Len(node[s].keys) > 0 /\ nt = BorrowFromNext(node, cur, i)
  BY <1>0, GivesAKey DEF Pairs
<1> HIDE DEF jd
<1>2. Joins(nt, jd, cur, i, c, s) /\ KeyGiven(node, nt, c, s)
  BY ONLY <1>1, BorrowNextJoins
<1>3. JoinKids(nt, jd, cur, c, s) /\ Receives(node, nt, c)
  BY ONLY <1>1, <1>2, JoinedKids, NextReceives
<1>4. JoinKids(node', jd, cur, c, s) /\ Receives(node, node', c)
  BY <1>0, <1>3
<1> QED BY <1>1, <1>4, BorrowRefines DEF TreeStep

\* The first insertion plants a root.
LEMMA InsertFirstTree ==
  ASSUME KidsOK, KidsOK', Types, NEW nd, NEW L, IState(nd, L), InsertFirst
  PROVE  TreeStep
<1> DEFINE s == nextbid + 1
<1>1. /\ op = "insert" /\ cur = 0 /\ s <= MaxBid /\ brootKey' = s
      /\ node' = [node EXCEPT ![s] = [keys |-> <<key>>, kids |-> <<>>]]
  BY DEF InsertFirst
<1>2. s \in Bids /\ DOMAIN node = Bids /\ key \in Keys
  BY <1>1, BTreeAssumption DEF Types, Bids
<1>3. brootKey = 0
  BY <1>1 DEF IState, CallOK
<1> HIDE DEF s
<1>4. \A x \in Bids : node[x] = None
  BY <1>3, KeysAreInts DEF KidsOK
<1>5. node'[s] = [keys |-> <<key>>, kids |-> <<>>] /\ \A x \in Bids \ {s} : node'[x] = node[x]
  BY <1>1, <1>2
<1>6. node'[s] \in Node
  BY <1>2, <1>5 DEF Node
<1>7. node'[s] # None /\ KidsIn(node', s) = {}
  BY <1>5, <1>6, NodeFacts DEF KidsIn, Range
<1> QED BY <1>1, <1>2, <1>4, <1>5, <1>7, PlantRefines DEF TreeStep

\* A full root's split is one of the abstract tree.
LEMMA SplitRootTree ==
  ASSUME KidsOK, KidsOK', Types, NEW nd, NEW L, IState(nd, L), SplitRoot
  PROVE  TreeStep
<1> DEFINE r == brootKey
           s == nextbid + 1
           z == nextbid + 2
<1>0. PICK od : od = node'
  OBVIOUS
<1>00. PICK md : md = [node EXCEPT ![s] = [keys |-> <<>>, kids |-> <<r>>]]
  OBVIOUS
<1>1. /\ op = "insert" /\ cur = r /\ cur # 0 /\ keynum(cur) = 2 * T - 1 /\ z <= MaxBid
      /\ od = SplitChild(md, s, 1, r, z) /\ brootKey' = s
  BY <1>0, <1>00 DEF SplitRoot
<1>2. node = nd
  BY <1>1 DEF Copying, IState, Held
<1>3. AtCall(nd, L)
  BY <1>1, Calls
<1>4. TreeOK(nd, r, L, nextbid) /\ r \in Bids /\ nd[r] # None /\ Len(nd[r].keys) = 2 * T - 1
  BY <1>1, <1>2, <1>3 DEF IState, AtCall, keynum
<1>5. nextbid \in Nat /\ Bids \subseteq Nat /\ s \in Bids /\ z \in Bids
  BY <1>1, BTreeAssumption DEF Types, Bids
<1>6. s > nextbid /\ z > s /\ (\A x \in Bids : (x > s => x > nextbid) /\ (x > z => x > s))
  BY <1>5
<1> HIDE DEF s, z
<1>7. md = [nd EXCEPT ![s] = [keys |-> <<>>, kids |-> <<r>>]] /\ od = SplitChild(md, s, 1, r, z)
  BY <1>00, <1>1, <1>2
<1>8. RootSplit(nd, md, od, r, s, z)
  BY ONLY <1>4, <1>5, <1>6, <1>7, RootSplits
<1>9. nd[s] = None /\ Joins(od, md, s, 1, r, z)
  BY <1>8 DEF RootSplit, Splits
<1>10. 1 \in Nat
  OBVIOUS
<1>11. JoinKids(od, md, s, r, z)
  BY ONLY <1>4, <1>5, <1>9, <1>10, JoinedKids
<1>12. (\A x \in Bids \ {s} : md[x] = nd[x]) /\ md[s] = [keys |-> <<>>, kids |-> <<r>>]
  BY <1>3, <1>5, <1>7 DEF AtCall
<1>13. KidsIn(md, s) = {r}
  <2>1. md[s] # None
    BY <1>11 DEF JoinKids
  <2> QED BY <1>12, <2>1 DEF KidsIn, Range
<1>14. /\ node[r] # None /\ node[s] = None /\ JoinKids(node', md, s, r, z)
       /\ \A x \in Bids \ {s} : md[x] = node[x]
  BY <1>0, <1>2, <1>4, <1>9, <1>11, <1>12
<1> QED BY <1>1, <1>4, <1>5, <1>13, <1>14, SplitRootRefines DEF TreeStep

\* An insertion into a leaf leaves the children alone.
LEMMA InsertIntoLeafTree ==
  ASSUME KidsOK, KidsOK', Types, NEW nd, NEW L, IState(nd, L), InsertIntoLeaf
  PROVE  TreeStep
<1> DEFINE i == findKey(key, cur) + 1
           ks == InsertAt(node[cur].keys, i, key)
<1>1. /\ op = "insert" /\ cur # 0 /\ brootKey' = brootKey
      /\ node' = [node EXCEPT ![cur].keys = ks]
  BY DEF InsertIntoLeaf
<1>2. AtCall(nd, L)
  BY <1>1, Calls
<1>3. cur \in Bids /\ node[cur] \in Node /\ i \in 1 .. Len(node[cur].keys) + 1 /\ DOMAIN node = Bids /\ key \in Keys
  BY <1>2, TreeNode DEF AtCall, Finds, Types
<1>4. ks \in Seq(Keys)
  BY <1>3, NodeFacts, InsertAtIs
<1> HIDE DEF ks
<1> DEFINE m == [keys |-> ks, kids |-> node[cur].kids]
<1>5. [node[cur] EXCEPT !.keys = ks] = m
  BY <1>3, NodeFacts
<1>6. node' = [node EXCEPT ![cur] = m]
  BY <1>1, <1>5
<1> QED BY <1>1, <1>3, <1>4, <1>6, WriteRefines

\* A full child's split is one of the abstract tree.
LEMMA InsertSplittingTree ==
  ASSUME KidsOK, KidsOK', Types, NEW nd, NEW L, IState(nd, L), InsertSplitting
  PROVE  TreeStep
<1> DEFINE y == ChildFor(key, cur)
           g == findKey(key, cur)
           i == g + 1
           z == nextbid + 1
<1>0. PICK od : od = node'
  OBVIOUS
<1>1. /\ op = "insert" /\ cur # 0 /\ ~ isleaf(cur) /\ keynum(cur) < 2 * T - 1
      /\ keynum(y) = 2 * T - 1 /\ z <= MaxBid
      /\ od = SplitChild(node, cur, i, y, z) /\ brootKey' = brootKey
  BY <1>0 DEF InsertSplitting
<1>2. node = nd /\ key = kw /\ kw \notin KeysOf(nd)
  BY <1>1 DEF Copying, IState, Held, CallOK
<1>3. AtCall(nd, L)
  BY <1>1, Calls
<1>4. IsTree(nd, brootKey, L) /\ TreeOK(nd, brootKey, L, nextbid)
  BY DEF IState, TreeOK
<1>5. ~ HasKey(key, cur)
  <2>1. ~ Has(nd, cur, key)
    BY <1>2, <1>3, <1>4, KeyBounds DEF AtCall
  <2> QED BY <1>3, <2>1 DEF AtCall, Finds
<1>6. /\ y = nd[cur].kids[i] /\ g = i - 1 /\ i \in Nat /\ i \in 1 .. Len(nd[cur].keys) + 1
      /\ SepOf(nd, L, cur, g) < key /\ key < SepOf(nd, L, cur, i)
      /\ cur \in Bids /\ nd[cur] # None /\ key \in Int /\ L.h[cur] # 0
      /\ Len(nd[cur].keys) < 2 * T - 1 /\ Len(nd[y].keys) = 2 * T - 1
  BY <1>1, <1>2, <1>3, <1>5 DEF AtCall, Finds, ChildFor, keynum
<1>7. nextbid \in Nat /\ Bids \subseteq Nat /\ z \in Bids
  BY <1>1, BTreeAssumption DEF Types, Bids
<1>8. z > nextbid /\ (\A x \in Bids : x > z => x > nextbid)
  BY <1>7
<1> HIDE DEF y, g, i, z
<1>9. Down(nd, brootKey, L, cur, y, key) /\ i \in 1 .. Len(nd[cur].kids)
  BY <1>4, <1>6, DownAt
<1>10. od = SplitChild(nd, cur, i, y, z)
  BY <1>1, <1>2
<1>11. Splits(nd, od, brootKey, L, cur, i, y, z)
  BY ONLY <1>4, <1>6, <1>7, <1>8, <1>9, <1>10, SplitStep
<1>12. Joins(od, nd, cur, i, y, z) /\ y \in Bids
  BY <1>11 DEF Splits
<1>13. JoinKids(od, nd, cur, y, z)
  BY ONLY <1>6, <1>7, <1>12, JoinedKids
<1>14. JoinKids(node', node, cur, y, z)
  BY <1>0, <1>2, <1>13
<1> QED BY <1>1, <1>6, <1>7, <1>12, <1>14, SplitRefines DEF TreeStep

\* A removal from a leaf leaves the children alone.
LEMMA DeleteInLeafTree ==
  ASSUME KidsOK, KidsOK', Types, NEW nd, NEW L, IState(nd, L), DeleteInLeaf
  PROVE  TreeStep
<1> DEFINE i == findKey(key, cur) + 1
           ks == RemoveAt(node[cur].keys, i)
<1>1. /\ op = "remove" /\ cur # 0 /\ isleaf(cur) /\ brootKey' = brootKey
      /\ \/ /\ HasKey(key, cur)
            /\ node' = [node EXCEPT ![cur] = IF keynum(cur) = 1 THEN None ELSE [@ EXCEPT !.keys = ks]]
         \/ node' = node
  BY DEF DeleteInLeaf, Deleting
<1>2. AtCall(nd, L)
  BY <1>1, Calls
<1>3. /\ cur \in Bids /\ node[cur] \in Node /\ node[cur] # None /\ DOMAIN node = Bids
      /\ HasKey(key, cur) => i \in 1 .. Len(node[cur].keys)
      /\ cur # brootKey => keynum(cur) >= T
  BY <1>1, <1>2, TreeNode DEF AtCall, Finds, Types, IState, CallOK, keynum
<1>4. CASE node' = node
  BY <1>1, <1>4, WalkRefines
<1>5. CASE HasKey(key, cur) /\ node' = [node EXCEPT ![cur] = IF keynum(cur) = 1 THEN None ELSE [@ EXCEPT !.keys = ks]]
  <2>1. ks \in Seq(Keys)
    BY <1>3, <1>5, NodeFacts, RemoveAtIs
  <2> HIDE DEF ks
  <2>2. CASE keynum(cur) # 1
    <3> DEFINE m == [keys |-> ks, kids |-> node[cur].kids]
    <3>1. [node[cur] EXCEPT !.keys = ks] = m
      BY <1>3, NodeFacts
    <3>2. node' = [node EXCEPT ![cur] = m]
      BY <1>5, <2>2, <3>1
    <3> QED BY <1>1, <1>3, <2>1, <3>2, WriteRefines
  <2>3. CASE keynum(cur) = 1
    <3>1. node' = [node EXCEPT ![cur] = None]
      BY <1>5, <2>3
    <3>2. cur = brootKey
      BY <1>3, <2>3, BTreeAssumption
    <3>3. KidsIn(node, cur) = {}
      BY <1>1 DEF isleaf, KidsIn, Range
    <3> QED BY <1>1, <1>3, <3>1, <3>2, <3>3, ClearRefines DEF TreeStep
  <2> QED BY <2>2, <2>3
<1> QED BY <1>1, <1>4, <1>5

\* removeFromNonLeaf() leaves the children alone or merges two of them.
LEMMA DeleteInNodeTree ==
  ASSUME KidsOK, KidsOK', Types, Types', NEW nd, NEW L, IState(nd, L), DeleteInNode
  PROVE  TreeStep
<1> DEFINE i == findKey(key, cur) + 1
           c == node[cur].kids[i]
           d == node[cur].kids[i + 1]
           ks == [node[cur].keys EXCEPT ![i] = key']
<1>1. /\ op = "remove" /\ cur # 0 /\ ~ isleaf(cur) /\ HasKey(key, cur) /\ brootKey' = brootKey
      /\ \/ node' = [node EXCEPT ![cur].keys[i] = key']
         \/ node' = MergeAt(node, cur, i)
  BY DEF DeleteInNode, Deleting, DescendTo
<1>2. AtCall(nd, L)
  BY <1>1, Calls
<1>3. /\ cur \in Bids /\ node[cur] = nd[cur] /\ L.h[cur] # 0 /\ i \in 1 .. Len(nd[cur].keys)
      /\ DOMAIN node = Bids /\ key' \in Keys /\ node[cur] \in Node
  BY <1>1, <1>2, TreeNode DEF AtCall, Finds, Types
<1>4. CASE node' = MergeAt(node, cur, i)
  <2>1. c = nd[cur].kids[i] /\ d = nd[cur].kids[i + 1]
    BY <1>3
  <2> HIDE DEF c, d
  <2>2. Pairs(i, c, d)
    BY <1>2, <1>3, <2>1, PairHere
  <2> QED BY <1>1, <1>4, <2>2, DeleteMerges
<1>5. CASE node' = [node EXCEPT ![cur].keys[i] = key']
  <2>1. ks \in Seq(Keys)
    BY <1>3, NodeFacts
  <2> DEFINE m == [keys |-> ks, kids |-> node[cur].kids]
  <2>2. node' = [node EXCEPT ![cur] = [node[cur] EXCEPT !.keys = ks]]
    BY <1>5
  <2> HIDE DEF ks
  <2>3. [node[cur] EXCEPT !.keys = ks] = m
    BY <1>3, NodeFacts
  <2>4. node' = [node EXCEPT ![cur] = m]
    BY <2>2, <2>3
  <2> QED BY <1>1, <1>3, <2>1, <2>4, WriteRefines
<1> QED BY <1>1, <1>4, <1>5

\* fill() borrows, merges or leaves the children alone.
LEMMA DeleteBelowTree ==
  ASSUME KidsOK, KidsOK', Types, NEW nd, NEW L, IState(nd, L), DeleteBelow
  PROVE  TreeStep
<1> DEFINE g == findKey(key, cur)
           i == g + 1
           n == keynum(cur)
           c == node[cur].kids[i]
           b == node[cur].kids[i - 1]
           d == node[cur].kids[i + 1]
<1>1. /\ op = "remove" /\ cur # 0 /\ ~ isleaf(cur) /\ brootKey' = brootKey
      /\ \/ node' = node
         \/ i > 1 /\ CanGive(b) /\ node' = BorrowFromPrev(node, cur, i)
         \/ i <= n /\ CanGive(d) /\ node' = BorrowFromNext(node, cur, i)
         \/ i <= n /\ node' = MergeAt(node, cur, i)
         \/ i > n /\ node' = MergeAt(node, cur, i - 1)
  BY DEF DeleteBelow, Deleting
<1>2. AtCall(nd, L)
  BY <1>1, Calls
<1>3. /\ cur \in Bids /\ node[cur] = nd[cur] /\ L.h[cur] # 0 /\ DOMAIN node = Bids
      /\ g \in Nat /\ i \in Nat /\ g = i - 1 /\ i \in 1 .. Len(nd[cur].keys) + 1
      /\ Len(nd[cur].keys) \in Nat /\ n = Len(nd[cur].keys)
      /\ c = nd[cur].kids[i] /\ b = nd[cur].kids[i - 1] /\ d = nd[cur].kids[i + 1] /\ c = node[cur].kids[i]
  BY <1>1, <1>2 DEF AtCall, Finds, keynum, Types
<1> HIDE DEF g, i, n, c, b, d
<1>4. CASE node' = node
  BY <1>1, <1>4, WalkRefines
<1>5. ASSUME i > 1
      PROVE  g \in 1 .. Len(nd[cur].keys) /\ b = nd[cur].kids[g] /\ c = nd[cur].kids[g + 1]
  BY <1>3, <1>5
<1>6. ASSUME i > 1 PROVE Pairs(g, b, c)
  BY <1>2, <1>3, <1>5, <1>6, PairHere
<1>7. ASSUME i <= n PROVE Pairs(i, c, d)
  <2>1. i \in 1 .. Len(nd[cur].keys)
    BY <1>3, <1>7
  <2> QED BY <1>2, <1>3, <2>1, PairHere
<1>8. CASE i > 1 /\ CanGive(b) /\ node' = BorrowFromPrev(node, cur, i)
  BY <1>1, <1>3, <1>6, <1>8, PrevBorrows
<1>9. CASE i <= n /\ CanGive(d) /\ node' = BorrowFromNext(node, cur, i)
  BY <1>1, <1>7, <1>9, NextBorrows
<1>10. CASE i <= n /\ node' = MergeAt(node, cur, i)
  BY <1>1, <1>7, <1>10, DeleteMerges
<1>11. CASE i > n /\ node' = MergeAt(node, cur, i - 1)
  <2>1. n # 0
    <3>1. nd[cur] # None /\ brootKey # 0 /\ T \in Nat /\ T > 1
      BY <1>2, KeysAreInts, BTreeAssumption DEF AtCall
    <3>2. CASE cur = brootKey
      BY <1>1, <1>3, <3>1, <3>2 DEF IState, RootOK
    <3>3. CASE cur # brootKey
      <4>1. Len(nd[cur].keys) >= T
        BY <1>1, <3>3 DEF IState, CallOK
      <4> QED BY <1>3, <3>1, <4>1
    <3> QED BY <3>2, <3>3
  <2>2. i > 1 /\ node' = MergeAt(node, cur, g)
    BY <1>3, <1>11, <2>1
  <2> QED BY <1>1, <1>6, <2>2, DeleteMerges
<1> QED BY <1>1, <1>4, <1>8, <1>9, <1>10, <1>11

\* The end of removekw() collapses the root, clears it or leaves it.
LEMMA EndRemoveTree ==
  ASSUME KidsOK, KidsOK', Types, NEW nd, NEW L, IState(nd, L), EndRemove
  PROVE  TreeStep
<1>1. /\ op = "remove" /\ cur = 0
      /\ \/ node' = node /\ brootKey' = brootKey
         \/ /\ brootKey # 0 /\ node[brootKey] # None /\ keynum(brootKey) = 0
            /\ brootKey' = Head(node[brootKey].kids) /\ node' = [node EXCEPT ![brootKey] = None]
         \/ brootKey # 0 /\ node[brootKey] = None /\ node' = node
  BY DEF EndRemove
<1>2. node = nd /\ DOMAIN node = Bids /\ brootKey \in Bids \cup {0} /\ TreeOK(nd, brootKey, L, nextbid)
  BY <1>1 DEF Copying, IState, Held, Types
<1>3. CASE node' = node /\ brootKey' = brootKey
  BY <1>3, WalkRefines
<1>4. CASE brootKey # 0 /\ node[brootKey] = None /\ node' = node
  <2>1. \A x \in Bids : node[x] = None
    BY <1>4 DEF KidsOK
  <2> QED BY <1>4, <2>1, WalkRefines
<1>5. CASE /\ brootKey # 0 /\ node[brootKey] # None /\ keynum(brootKey) = 0
           /\ brootKey' = Head(node[brootKey].kids) /\ node' = [node EXCEPT ![brootKey] = None]
  <2> DEFINE c == Head(nd[brootKey].kids)
  <2>0. PICK od : od = [nd EXCEPT ![brootKey] = None]
    OBVIOUS
  <2>1. brootKey \in Bids /\ nd[brootKey] # None /\ Len(nd[brootKey].keys) = 0 /\ brootKey' = c /\ node' = od
    BY <1>2, <1>5, <2>0 DEF keynum
  <2>2. c = Head(nd[brootKey].kids)
    OBVIOUS
  <2> HIDE DEF c
  <2>3. Collapsed(nd, od, brootKey, c, L, nextbid)
    BY ONLY <1>2, <2>0, <2>1, <2>2, Collapses
  <2>4. /\ c \in Bids /\ od[c] # None /\ c # brootKey
        /\ Len(nd[brootKey].kids) = 1 /\ nd[brootKey].kids[1] = c /\ nd[brootKey] \in Node
    BY <2>3 DEF Collapsed
  <2>5. nd[c] # None
    BY <1>2, <2>0, <2>4
  <2>6. KidsIn(nd, brootKey) = {c}
    <3>0. \A x : x \in Range(nd[brootKey].kids) <=> \E j \in 1 .. Len(nd[brootKey].kids) : nd[brootKey].kids[j] = x
      BY ONLY <2>4, RangeOf
    <3>1. \A x : x \in Range(nd[brootKey].kids) <=> x = c
      BY ONLY <2>4, <3>0
    <3> QED BY <2>1, <3>1 DEF KidsIn
  <2> QED BY <1>2, <2>0, <2>1, <2>4, <2>5, <2>6, CollapseRefines DEF TreeStep
<1> QED BY <1>1, <1>3, <1>4, <1>5

\* The tree setup made is an abstract tree.
LEMMA TreeInit == Init => Tree!Init
<1> SUFFICES ASSUME Init PROVE Tree!Init
  OBVIOUS
<1>1. PICK t \in InitTrees : node = NodesOf(t) /\ brootKey = RootOf(t)
  BY DEF Init
<1>2. t.nodes \in Seq(Node) /\ Len(t.nodes) <= MaxBid /\ MaxBid \in Nat
  BY BTreeAssumption
<1>3. Len(t.nodes) \in Nat /\ DOMAIN t.nodes = 1 .. Len(t.nodes) /\ DOMAIN t.nodes \subseteq Bids
  BY <1>2 DEF Bids
<1>4. \A x \in Bids : /\ x \in DOMAIN t.nodes => node[x] = t.nodes[x] /\ node[x] # None
                      /\ x \notin DOMAIN t.nodes => node[x] = None
  BY <1>1, <1>2, <1>3, NodeFacts DEF NodesOf
<1> DEFINE f == [x \in DOMAIN t.nodes |-> Range(t.nodes[x].kids)]
<1>5. f \in {[x \in DOMAIN u.nodes |-> Range(u.nodes[x].kids)] : u \in InitTrees}
  OBVIOUS
<1>6. DOMAIN f = DOMAIN t.nodes /\ \A x \in DOMAIN f : f[x] = Range(t.nodes[x].kids)
  OBVIOUS
<1> HIDE DEF f
<1>7. (IF Reachable = {} THEN None ELSE brootKey) = IF 1 \in DOMAIN f THEN 1 ELSE None
  <2>1. Reachable = {x \in Bids : node[x] # None}
    BY InitOK, KidsFrom DEF KidsOK
  <2>2. CASE 1 \in DOMAIN f
    <3>1. t.nodes # <<>> /\ 1 \in Bids
      BY <1>3, <1>6, <2>2, EmptySeq
    <3>2. brootKey = 1
      BY <1>1, <3>1 DEF RootOf
    <3>3. node[1] # None
      BY <1>4, <1>6, <2>2, <3>1
    <3> QED BY <2>1, <2>2, <3>1, <3>2, <3>3
  <2>3. CASE 1 \notin DOMAIN f
    <3>1. Len(t.nodes) = 0
      BY <1>3, <1>6, <2>3
    <3>2. \A x \in Bids : x \notin DOMAIN t.nodes
      BY <1>3, <3>1
    <3> QED BY <1>4, <2>1, <2>3, <3>2
  <2> QED BY <2>2, <2>3
<1>8. \A x \in Bids : Kids(x) = IF x \in DOMAIN f THEN f[x] ELSE {}
  BY <1>4, <1>6 DEF Kids
<1>9. \A x \in Bids : (IF node[x] = None THEN None ELSE 0) = IF x \in DOMAIN f THEN 0 ELSE None
  BY <1>4, <1>6
<1> QED BY <1>5, <1>7, <1>8, <1>9 DEF Tree!Init

\* Every step is one of the abstract tree or leaves it alone.
LEMMA NextTree == IInv /\ IInv' /\ [Next]_vars => TreeStep
<1> SUFFICES ASSUME IInv, IInv', [Next]_vars PROVE TreeStep
  OBVIOUS
<1>1. KidsOK /\ KidsOK'
  BY KidsFrom, KidsNext
<1>2. Types /\ Types'
  BY DEF IInv
<1>3. PICK nd, L : IState(nd, L)
  BY DEF IInv
<1>4. CASE UNCHANGED <<node, brootKey>>
  BY <1>1, <1>4, WalkRefines
<1>5. ASSUME Throw \/ Search \/ InsertDescending \/ \E kind \in {"insert", "search", "remove"}, k \in Keys : Begin(kind, k)
      PROVE  UNCHANGED <<node, brootKey>>
  BY <1>5 DEF Throw, Search, InsertDescending, Begin
<1>6. CASE InsertFirst
  BY <1>1, <1>2, <1>3, <1>6, InsertFirstTree
<1>7. CASE SplitRoot
  BY <1>1, <1>2, <1>3, <1>7, SplitRootTree
<1>8. CASE InsertIntoLeaf
  BY <1>1, <1>2, <1>3, <1>8, InsertIntoLeafTree
<1>9. CASE InsertSplitting
  BY <1>1, <1>2, <1>3, <1>9, InsertSplittingTree
<1>10. CASE DeleteInLeaf
  BY <1>1, <1>2, <1>3, <1>10, DeleteInLeafTree
<1>11. CASE DeleteInNode
  BY <1>1, <1>2, <1>3, <1>11, DeleteInNodeTree
<1>12. CASE DeleteBelow
  BY <1>1, <1>2, <1>3, <1>12, DeleteBelowTree
<1>13. CASE EndRemove
  BY <1>1, <1>2, <1>3, <1>13, EndRemoveTree
<1>14. CASE UNCHANGED vars
  BY <1>4, <1>14 DEF vars
<1> QED BY <1>4, <1>5, <1>6, <1>7, <1>8, <1>9, <1>10, <1>11, <1>12, <1>13, <1>14 DEF Next, Step

\* Every step of the B-tree is one operation on a tree of nodes in memory: a root
\* is planted or cleared, a node or the root is split, a key and a child are
\* borrowed, two nodes are merged, the root collapses, or no node's children
\* change. insertkw(), searchkw() and removekw() ask no more of BRAM than that.
THEOREM BehavesAsNodeTree == Spec => NodeTreeSpec
<1>1. IInv /\ IInv' /\ [Next]_vars => [Tree!Next]_Tree!treeVars
  BY NextTree DEF TreeStep
<1> QED BY <1>1, TreeInit, Invariant, PTL DEF Spec, NodeTreeSpec, Tree!Spec

-----------------------------------------------------------------------------
(***************************************************************************)
(* What holds in every reachable state.                                    *)
(***************************************************************************)

\* The variables of the B-tree keep their types: a node holds keys and the bids
\* of nodes, and the bids handed out stay within the bound.
THEOREM TypeCorrect == Spec => []TypeOK
<1> QED BY Invariant, TypeFrom, PTL

\* Splitting, borrowing, merging and the root's changes keep every leaf at one
\* depth and every node but the root at least half full and never too full.
THEOREM StaysBalanced == Spec => []Balanced
<1> QED BY Invariant, BalancedFrom, PTL

\* Every key stays between the keys around its child, so that searchkw() meets
\* it; only the neighbour that removeFromNonLeaf() copied up is there twice,
\* until deletion() has removed it from its leaf.
THEOREM StaysSearchTree == Spec => []SearchTree
<1> QED BY Invariant, SearchTreeFrom, PTL

\* insertNFull() is never called of a full node, nor deletion() of a node but
\* the root that has no key to spare.
THEOREM CallsHaveRoom == Spec => []CallHasRoom
<1> QED BY Invariant, RoomFrom, PTL

\* merge() and removekw() give a node's bid up exactly when nothing in the tree
\* leads to it any more.
THEOREM NoNodesLeak == Spec => []NoNodeLeaks
<1> QED BY Invariant, LeaksFrom, PTL
=============================================================================

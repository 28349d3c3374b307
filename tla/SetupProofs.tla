---------------------------- MODULE SetupProofs -----------------------------
(***************************************************************************)
(* Proofs about the geometry of the bucket tree, BRAM's setupInsert and    *)
(* the making of a B-tree, for every bucket tree, bucket size, group size, *)
(* draw of leaves and T.                                                   *)
(*                                                                         *)
(* Geometry: the bucket at level e on the path to a leaf is the leaf's     *)
(* heap index halved depth - e times, so the buckets of a path are one at  *)
(* each level, and two paths share exactly those above where they part.    *)
(*                                                                         *)
(* Setup: the invariant says of every bucket done which nodes it holds,    *)
(* and of every node whether it is in a bucket of its path or still to be  *)
(* placed; a node is lost only to a bucket that two groups reach.          *)
(*                                                                         *)
(* B-tree: every identifier createBTreeNode() hands out has a label, the   *)
(* height of its node and the number before the first key under it.  The   *)
(* calls to make and the nodes made are those of the labels: a call splits *)
(* the D * W - 1 keys after s into D - 1 that stay and D times W - 1 that  *)
(* go to the children.                                                     *)
(***************************************************************************)
EXTENDS MCSetups, SequenceTheorems, FiniteSetTheorems, WellFoundedInduction, TLAPS

Less == {q \in Nat \X Nat : q[1] < q[2]}

LEMMA LeastNatural ==
  ASSUME NEW S, S \subseteq Nat, S # {}
  PROVE  \E n \in S : \A m \in S : n <= m
<1>1. IsWellFoundedOn(Less, Nat)
  BY NatLessThanWellFounded DEF OpToRel, Less
<1>2. PICK n \in S : \A m \in S : ~ (<<m, n>> \in Less)
  BY <1>1, WFMin
<1>3. \A m, l \in Nat : m < l => <<m, l>> \in Less
  BY DEF Less
<1>4. ASSUME NEW m \in S PROVE n <= m
  <2>1. ~ (m < n) /\ m \in Nat /\ n \in Nat
    BY <1>2, <1>3
  <2> QED BY <2>1
<1> QED BY <1>4

(***************************************************************************)
(* The geometry of the bucket tree.                                        *)
(***************************************************************************)
\* The powers of two up to the number of buckets are positive.
LEMMA PowersPositive ==
  ASSUME Tall!PathTreeAssumption
  PROVE  /\ PathDepth \in Nat
         /\ \A n \in 0 .. PathDepth + 1 : 2^n \in Nat \ {0}
         /\ \A n \in 0 .. PathDepth : 2^(n + 1) = 2 * 2^n
         /\ 2^0 = 1
<1>0. PathDepth \in Nat /\ \A n \in 0 .. PathDepth : 2^(n + 1) = 2 * 2^n
  BY DEF Tall!PathTreeAssumption
<1>1. 2^0 = 1
  BY SMT
<1> DEFINE Bad == {n \in 0 .. PathDepth + 1 : ~ (2^n \in Nat \ {0})}
<1>2. ASSUME Bad # {} PROVE FALSE
  <2>1. PICK n \in Bad : \A m \in Bad : n <= m
    <3>1. Bad \subseteq Nat
      BY <1>0
    <3> HIDE DEF Bad
    <3> QED BY <1>2, <3>1, LeastNatural
  <2>2. ASSUME n = 0 PROVE FALSE
    <3>1. 2^n = 2^0
      BY <2>2
    <3>2. 2^n \in Nat \ {0}
      BY <1>1, <3>1
    <3> QED BY <2>1, <3>2
  <2>3. n - 1 \in 0 .. PathDepth /\ n - 1 \notin Bad
    BY <1>0, <2>1, <2>2
  <2>4. 2^(n - 1) \in Nat \ {0} /\ 2^((n - 1) + 1) = 2 * 2^(n - 1)
    BY <1>0, <2>3
  <2>5. (n - 1) + 1 = n
    BY <2>1
  <2>6. 2^n \in Nat \ {0}
    BY <2>4, <2>5
  <2> QED BY <2>1, <2>6
<1> QED BY <1>0, <1>1, <1>2

\* Higher powers are greater.
LEMMA PowersGrow ==
  ASSUME Tall!PathTreeAssumption, NEW e \in 0 .. PathDepth, NEW f \in 0 .. PathDepth, e < f
  PROVE  2^(e + 1) <= 2^f
<1> USE PowersPositive
<1> DEFINE Bad == {n \in 0 .. PathDepth : e < n /\ ~ (2^(e + 1) <= 2^n)}
<1>1. ASSUME Bad # {} PROVE FALSE
  <2>1. PICK n \in Bad : \A m \in Bad : n <= m
    <3>1. Bad \subseteq Nat
      OBVIOUS
    <3> HIDE DEF Bad
    <3> QED BY <1>1, <3>1, LeastNatural
  <2>2. CASE n = e + 1
    BY <2>1, <2>2
  <2>3. CASE n # e + 1
    <3>1. n - 1 \in 0 .. PathDepth /\ e < n - 1 /\ n - 1 \notin Bad /\ (n - 1) + 1 = n
      BY <2>1, <2>3
    <3>2. 2^(e + 1) <= 2^(n - 1) /\ 2^((n - 1) + 1) = 2 * 2^(n - 1)
      BY <3>1
    <3>3. 2^(e + 1) \in Nat /\ 2^(n - 1) \in Nat /\ e + 1 \in 0 .. PathDepth + 1
      BY <3>1
    <3>4. 2^(e + 1) <= 2^n
      BY <3>1, <3>2, <3>3
    <3> QED BY <2>1, <3>4
  <2> QED BY <2>2, <2>3
<1> QED BY <1>1

LEMMA Division ==
  ASSUME NEW l \in Nat, NEW a \in Nat \ {0}
  PROVE  l \div a \in Nat /\ a * (l \div a) <= l /\ l < a * (l \div a) + a
BY SMTT(30)

LEMMA QuotientIs ==
  ASSUME NEW l \in Nat, NEW a \in Nat \ {0}, NEW q \in Nat, a * q <= l, l < a * q + a
  PROVE  l \div a = q
<1> DEFINE r == l \div a
<1>1. r \in Nat /\ a * r <= l /\ l < a * r + a
  BY Division
<1> HIDE DEF r
<1>2. ASSUME r < q PROVE FALSE
  <2>1. a * (q - r) >= a
    BY <1>1, <1>2, q - r >= 1, SMTT(30)
  <2>2. a * (q - r) = a * q - a * r
    BY <1>1, SMTT(30)
  <2>3. a * q \in Int /\ a * r \in Int
    BY <1>1
  <2> QED BY <1>1, <2>1, <2>2, <2>3
<1>3. ASSUME q < r PROVE FALSE
  <2>1. a * (r - q) >= a
    BY <1>1, <1>3, r - q >= 1, SMTT(30)
  <2>2. a * (r - q) = a * r - a * q
    BY <1>1, SMTT(30)
  <2>3. a * q \in Int /\ a * r \in Int
    BY <1>1
  <2> QED BY <1>1, <2>1, <2>2, <2>3
<1>4. r = q
  BY <1>1, <1>2, <1>3
<1> QED BY <1>4 DEF r

\* Halving a quotient is dividing by the double.
LEMMA HalfOfQuotient ==
  ASSUME NEW l \in Nat, NEW a \in Nat \ {0}
  PROVE  (l \div a) \div 2 = l \div (2 * a)
<1> DEFINE q == l \div a
           h == q \div 2
<1>1. q \in Nat /\ a * q <= l /\ l < a * q + a
  BY Division
<1> HIDE DEF q
<1>2. h \in Nat /\ (q = 2 * h \/ q = 2 * h + 1)
  BY <1>1
<1> HIDE DEF h
<1>3. a * h \in Nat /\ (2 * a) * h = 2 * (a * h) /\ (a * q = 2 * (a * h) \/ a * q = 2 * (a * h) + a)
  <2>1. a * (2 * h) = 2 * (a * h) /\ a * (2 * h + 1) = 2 * (a * h) + a
    BY <1>2, SMTT(30)
  <2>2. a * h \in Nat /\ (2 * a) * h = 2 * (a * h)
    BY <1>2, SMTT(30)
  <2> QED BY <1>2, <2>1, <2>2
<1>4. (2 * a) * h <= l /\ l < (2 * a) * h + 2 * a
  BY <1>1, <1>3
<1>5. l \div (2 * a) = h
  BY <1>2, <1>4, QuotientIs
<1> QED BY <1>5 DEF q, h
\* The heap index of the bucket at a level: the prefix of the leaf's number.
Bucket(l, e) == 2^e - 1 + l \div 2^(PathDepth - e)

LEMMA BucketSteps ==
  ASSUME Tall!PathTreeAssumption, NEW l \in Tall!leafRange
  PROVE  /\ l \in Nat /\ l < 2^PathDepth
         /\ Bucket(l, PathDepth) = l + Tall!bucketCount \div 2
         /\ \A e \in 0 .. PathDepth - 1 : Bucket(l, e) = (Bucket(l, e + 1) + 1) \div 2 - 1
<1> USE PowersPositive
<1>1. 2^PathDepth \in Nat \ {0} /\ 2^(PathDepth + 1) = 2 * 2^PathDepth
  OBVIOUS
<1>2. Tall!bucketCount \div 2 = 2^PathDepth - 1
  BY <1>1 DEF Tall!bucketCount
<1>3. l \in Nat /\ l < 2^PathDepth
  BY <1>1, <1>2 DEF Tall!leafRange
<1>4. Bucket(l, PathDepth) = l + Tall!bucketCount \div 2
  <2>1. PathDepth - PathDepth = 0
    OBVIOUS
  <2>2. 2^(PathDepth - PathDepth) = 1
    BY <2>1
  <2>3. l \div 1 = l
    BY <1>3
  <2>4. l \div 2^(PathDepth - PathDepth) = l
    BY <2>2, <2>3
  <2> QED BY <1>1, <1>2, <1>3, <2>4 DEF Bucket
<1>5. ASSUME NEW e \in 0 .. PathDepth - 1
      PROVE  Bucket(l, e) = (Bucket(l, e + 1) + 1) \div 2 - 1
  <2> DEFINE a == 2^(PathDepth - (e + 1))
             q == l \div a
  <2>1. PathDepth - (e + 1) \in 0 .. PathDepth /\ (PathDepth - (e + 1)) + 1 = PathDepth - e
    OBVIOUS
  <2>2. a \in Nat \ {0} /\ 2^(PathDepth - e) = 2 * a
    BY <2>1
  <2>3. 2^e \in Nat \ {0} /\ 2^(e + 1) = 2 * 2^e
    OBVIOUS
  <2> HIDE DEF a
  <2>4. q \in Nat /\ q \div 2 = l \div (2 * a)
    BY <1>3, <2>2, Division, HalfOfQuotient
  <2>5. l \div 2^(PathDepth - e) = q \div 2
    BY <2>2, <2>4
  <2>6. Bucket(l, e + 1) = 2^(e + 1) - 1 + q
    BY DEF Bucket, a
  <2>7. Bucket(l, e) = 2^e - 1 + q \div 2
    BY <2>5 DEF Bucket
  <2> HIDE DEF q
  <2> QED BY <2>3, <2>4, <2>6, <2>7
<1> QED BY <1>3, <1>4, <1>5

\* The climb of GetBTreeNodeOnPath from the leaf ends there.
LEMMA ClimbEndsAt ==
  ASSUME Tall!PathTreeAssumption, NEW l \in Tall!leafRange, NEW e \in 0 .. PathDepth
  PROVE  Tall!GetBTreeNodeOnPath(l, e) = Bucket(l, e)
<1> USE PowersPositive
<1> DEFINE Is(c) == c = [x \in e .. PathDepth |->
                           IF x = PathDepth THEN l + Tall!bucketCount \div 2
                                            ELSE (c[x + 1] + 1) \div 2 - 1]
           b == [x \in e .. PathDepth |-> Bucket(l, x)]
<1>1. Is(b)
  <2>1. ASSUME NEW x \in e .. PathDepth
        PROVE  Bucket(l, x) = IF x = PathDepth THEN l + Tall!bucketCount \div 2
                                               ELSE (b[x + 1] + 1) \div 2 - 1
    <3>1. CASE x = PathDepth
      BY <3>1, BucketSteps
    <3>2. CASE x # PathDepth
      <4>1. x \in 0 .. PathDepth - 1 /\ x + 1 \in e .. PathDepth
        BY <3>2
      <4>2. b[x + 1] = Bucket(l, x + 1)
        BY <4>1
      <4> QED BY <3>2, <4>1, <4>2, BucketSteps
    <3> QED BY <3>1, <3>2
  <2> QED BY <2>1
<1>2. ASSUME NEW c, Is(c) PROVE c[e] = Bucket(l, e)
  <2> DEFINE Bad == {n \in 0 .. PathDepth - e : c[PathDepth - n] # Bucket(l, PathDepth - n)}
  <2>1. ASSUME Bad # {} PROVE FALSE
    <3>1. Bad \subseteq Nat
      OBVIOUS
    <3>2. PICK n \in Bad : \A m \in Bad : n <= m
      <4> HIDE DEF Bad
      <4> QED BY <2>1, <3>1, LeastNatural
    <3> DEFINE x == PathDepth - n
    <3>3. x \in e .. PathDepth /\ c[x] # Bucket(l, x)
      BY <3>2
    <3>4. c[x] = IF x = PathDepth THEN l + Tall!bucketCount \div 2
                                  ELSE (c[x + 1] + 1) \div 2 - 1
      BY <1>2, <3>3
    <3>5. x # PathDepth
      BY <3>3, <3>4, BucketSteps
    <3>6. n - 1 \in 0 .. PathDepth - e /\ n - 1 \notin Bad /\ PathDepth - (n - 1) = x + 1
      BY <3>2, <3>5
    <3>7. c[x + 1] = Bucket(l, x + 1)
      BY <3>6
    <3>8. x \in 0 .. PathDepth - 1
      BY <3>3, <3>5
    <3> HIDE DEF x
    <3> QED BY <3>3, <3>4, <3>5, <3>7, <3>8, BucketSteps
  <2>2. PathDepth - e \in 0 .. PathDepth - e /\ PathDepth - (PathDepth - e) = e
    OBVIOUS
  <2> QED BY <2>1, <2>2
<1>3. Tall!GetBTreeNodeOnPath(l, e) = (CHOOSE c : Is(c))[e]
  BY DEF Tall!GetBTreeNodeOnPath
<1>4. Is(CHOOSE c : Is(c))
  BY <1>1
<1> HIDE DEF Is
<1> QED BY <1>2, <1>3, <1>4

\* The buckets of a level are 2^e consecutive indices.
LEMMA LevelOfBucket ==
  ASSUME Tall!PathTreeAssumption, NEW l \in Tall!leafRange, NEW e \in 0 .. PathDepth
  PROVE  Bucket(l, e) \in 2^e - 1 .. 2^(e + 1) - 2
<1> USE PowersPositive
<1> DEFINE Bad == {n \in 0 .. PathDepth : ~ (Bucket(l, PathDepth - n) \in
                                        2^(PathDepth - n) - 1 .. 2^((PathDepth - n) + 1) - 2)}
<1>1. ASSUME Bad # {} PROVE FALSE
  <2>1. Bad \subseteq Nat
    OBVIOUS
  <2>2. PICK n \in Bad : \A m \in Bad : n <= m
    <3> HIDE DEF Bad
    <3> QED BY <1>1, <2>1, LeastNatural
  <2> DEFINE x == PathDepth - n
  <2>3. x \in 0 .. PathDepth /\ ~ (Bucket(l, x) \in 2^x - 1 .. 2^(x + 1) - 2)
    BY <2>2
  <2>4. x # PathDepth
    <3>1. 2^PathDepth \in Nat \ {0} /\ 2^(PathDepth + 1) = 2 * 2^PathDepth
      OBVIOUS
    <3>2. Tall!bucketCount \div 2 = 2^PathDepth - 1
      BY <3>1 DEF Tall!bucketCount
    <3>3. Bucket(l, PathDepth) = l + 2^PathDepth - 1 /\ l \in Nat /\ l < 2^PathDepth
      BY <3>1, <3>2, BucketSteps
    <3>4. Bucket(l, PathDepth) \in 2^PathDepth - 1 .. 2^(PathDepth + 1) - 2
      BY <3>1, <3>3
    <3> QED BY <2>3, <3>4
  <2>5. n - 1 \in 0 .. PathDepth /\ n - 1 \notin Bad /\ PathDepth - (n - 1) = x + 1 /\ x \in 0 .. PathDepth - 1
    BY <2>2, <2>3, <2>4
  <2>6. Bucket(l, x + 1) \in 2^(x + 1) - 1 .. 2^((x + 1) + 1) - 2
    BY <2>5
  <2>7. 2^((x + 1) + 1) = 2 * 2^(x + 1) /\ 2^(x + 1) = 2 * 2^x /\ 2^x \in Nat \ {0}
    BY <2>5
  <2>8. Bucket(l, x) = (Bucket(l, x + 1) + 1) \div 2 - 1
    BY <2>5, BucketSteps
  <2> HIDE DEF x
  <2> QED BY <2>3, <2>6, <2>7, <2>8
<1>2. PathDepth - e \in 0 .. PathDepth /\ PathDepth - (PathDepth - e) = e
  OBVIOUS
<1> QED BY <1>1, <1>2

\* So a bucket is at one level, and paths that share one share those above.
LEMMA PathsShareUpwards ==
  ASSUME Tall!PathTreeAssumption,
         NEW l \in Tall!leafRange, NEW m \in Tall!leafRange,
         NEW e \in 0 .. PathDepth, NEW f \in 0 .. PathDepth, Bucket(l, e) = Bucket(m, f)
  PROVE  e = f /\ \A g \in 0 .. e : Bucket(l, g) = Bucket(m, g)
<1> USE PowersPositive
<1>1. ASSUME NEW x \in 0 .. PathDepth, NEW y \in 0 .. PathDepth, x < y,
             NEW i1 \in 2^x - 1 .. 2^(x + 1) - 2, NEW i2 \in 2^y - 1 .. 2^(y + 1) - 2
      PROVE  i1 # i2
  <2>1. 2^(x + 1) <= 2^y
    BY <1>1, PowersGrow
  <2>2. 2^(x + 1) \in Nat /\ 2^y \in Nat /\ 2^x \in Nat
    BY x + 1 \in 0 .. PathDepth + 1
  <2> QED BY <2>1, <2>2
<1>2. e = f
  <2>1. /\ Bucket(l, e) \in 2^e - 1 .. 2^(e + 1) - 2
        /\ Bucket(m, f) \in 2^f - 1 .. 2^(f + 1) - 2
    BY LevelOfBucket
  <2>2. ~ (e < f)
    BY <1>1, <2>1
  <2>3. ~ (f < e)
    BY <1>1, <2>1
  <2> QED BY <2>2, <2>3
<1> DEFINE Bad == {n \in 0 .. e : Bucket(l, e - n) # Bucket(m, e - n)}
<1>3. ASSUME Bad # {} PROVE FALSE
  <2>1. Bad \subseteq Nat
    OBVIOUS
  <2>2. PICK n \in Bad : \A k \in Bad : n <= k
    <3> HIDE DEF Bad
    <3> QED BY <1>3, <2>1, LeastNatural
  <2> DEFINE x == e - n
  <2>3. n # 0
    BY <1>2, <2>2, e - 0 = e
  <2>4. n - 1 \in 0 .. e /\ n - 1 \notin Bad /\ e - (n - 1) = x + 1 /\ x \in 0 .. PathDepth - 1
    BY <2>2, <2>3
  <2>5. Bucket(l, x + 1) = Bucket(m, x + 1)
    BY <2>4
  <2>6. Bucket(l, x) = Bucket(m, x)
    BY <2>4, <2>5, BucketSteps
  <2> QED BY <2>2, <2>6
<1>4. ASSUME NEW g \in 0 .. e PROVE Bucket(l, g) = Bucket(m, g)
  <2>1. e - g \in 0 .. e /\ e - (e - g) = g
    OBVIOUS
  <2> QED BY <1>3, <2>1
<1> QED BY <1>2, <1>4

\* What the theorems about the stores assume of their paths is true of the
\* paths of the code, for every height of the tree.
THEOREM PathTreeIsATree ==
  ASSUME Tall!PathTreeAssumption
  PROVE  \A l, m \in Tall!leafRange, e, f \in 0 .. PathDepth :
           /\ Tall!GetBTreeNodeOnPath(l, e) \in Tall!bucketRange
           /\ Tall!GetBTreeNodeOnPath(l, e) = Tall!GetBTreeNodeOnPath(m, f) => e = f
<1> USE PowersPositive
<1> SUFFICES ASSUME NEW l \in Tall!leafRange, NEW m \in Tall!leafRange,
                    NEW e \in 0 .. PathDepth, NEW f \in 0 .. PathDepth
             PROVE  /\ Tall!GetBTreeNodeOnPath(l, e) \in Tall!bucketRange
                    /\ Tall!GetBTreeNodeOnPath(l, e) = Tall!GetBTreeNodeOnPath(m, f) => e = f
  OBVIOUS
<1>1. Bucket(l, e) \in Tall!bucketRange
  <2>1. 2^(e + 1) <= 2^(PathDepth + 1)
    <3>1. CASE e = PathDepth
      BY <3>1
    <3>2. CASE e # PathDepth
      BY <3>2, PowersGrow, 2^(e + 1) \in Nat, 2^(PathDepth + 1) = 2 * 2^PathDepth
    <3> QED BY <3>1, <3>2
  <2>2. Bucket(l, e) \in 2^e - 1 .. 2^(e + 1) - 2
    BY LevelOfBucket
  <2>3. 2^e \in Nat \ {0} /\ 2^(e + 1) \in Nat /\ 2^(PathDepth + 1) \in Nat
    BY e + 1 \in 0 .. PathDepth + 1
  <2> QED BY <2>1, <2>2, <2>3 DEF Tall!bucketRange, Tall!bucketCount
<1> QED BY <1>1, ClimbEndsAt, PathsShareUpwards

\* The paths of any two leaves, at any level of a tree of any height
\* (GetBTreeNodeOnPath).
THEOREM PathsMeet == Spec => []PathsMeetOnce
<1> DEFINE Drawn == layout = "paths" => /\ first \in Tall!leafRange /\ second \in Tall!leafRange
                                        /\ lvl \in 0 .. PathDepth
<1>1. Init => Drawn
  BY DEF Init
<1>2. Drawn /\ [Next]_vars => Drawn'
  BY DEF Next, vars, pathVars
<1>3. ASSUME Drawn PROVE PathsMeetOnce
  <2> SUFFICES ASSUME layout = "paths"
               PROVE  /\ Tall!GetBTreeNodeOnPath(first, lvl) = Bucket(first, lvl)
                      /\ \A e \in 0 .. PathDepth :
                           Tall!GetBTreeNodeOnPath(first, lvl) = Tall!GetBTreeNodeOnPath(second, e) =>
                             /\ e = lvl
                             /\ \A f \in 0 .. lvl : Tall!GetBTreeNodeOnPath(first, f) = Tall!GetBTreeNodeOnPath(second, f)
    BY DEF PathsMeetOnce, Bucket
  <2>1. Tall!PathTreeAssumption
    BY MCSetupsAssumption
  <2>2. /\ first \in Tall!leafRange /\ second \in Tall!leafRange /\ lvl \in 0 .. PathDepth
        /\ \A f \in 0 .. lvl : f \in 0 .. PathDepth
    BY <1>3, <2>1 DEF Tall!PathTreeAssumption
  <2> QED BY <2>1, <2>2, ClimbEndsAt, PathsShareUpwards
<1> QED BY <1>1, <1>2, <1>3, PTL DEF Spec

(***************************************************************************)
(* setupInsert of BRAM.                                                    *)
(***************************************************************************)
\* How many of a finite set of numbers precede a number: each number is
\* preceded by more than the one before it, so that no two are preceded by
\* as many.
LEMMA Precede ==
  ASSUME NEW S, S \subseteq Nat, IsFiniteSet(S), NEW x \in S, NEW y \in S,
         x < y
  PROVE  Cardinality({z \in S : z < x}) < Cardinality({z \in S : z < y})
<1> DEFINE A == {z \in S : z < x}
           B1 == {z \in S : z < y}
<1>1. IsFiniteSet(A) /\ IsFiniteSet(B1) /\ Cardinality(A) \in Nat /\ Cardinality(B1) \in Nat
  BY FS_Subset, FS_CardinalityType
<1>2. A \cup {x} \subseteq B1 /\ x \notin A
  <2>1. \A z \in S : z < x => z < y
    OBVIOUS
  <2>2. A \subseteq B1
    BY <2>1
  <2>3. x \in B1
    OBVIOUS
  <2>4. x \notin A
    OBVIOUS
  <2> HIDE DEF A, B1
  <2> QED BY <2>2, <2>3, <2>4
<1>3. Cardinality(A \cup {x}) = Cardinality(A) + 1
  BY <1>1, <1>2, FS_AddElement
<1>4. Cardinality(A \cup {x}) <= Cardinality(B1)
  <2> HIDE DEF A, B1
  <2> QED BY <1>1, <1>2, FS_Subset
<1> QED BY <1>1, <1>3, <1>4

\* SetupInsert counts as this module does.
LEMMA SameCounts ==
  /\ \A S : G!IsFiniteSet(S) <=> IsFiniteSet(S)
  /\ \A S : G!Cardinality(S) = Cardinality(S)
<1>1. \A S : G!IsFiniteSet(S) <=> IsFiniteSet(S)
  BY DEF G!IsFiniteSet, IsFiniteSet
<1>2. \A S : G!Cardinality(S) = Cardinality(S)
  BY DEF G!Cardinality, Cardinality
<1> QED BY <1>1, <1>2

\* Counting a set in two parts.
LEMMA CountApart ==
  ASSUME NEW S, NEW A, IsFiniteSet(S), IsFiniteSet(A), S \cap A = {}
  PROVE  IsFiniteSet(S \cup A) /\ Cardinality(S \cup A) = Cardinality(S) + Cardinality(A)
BY FS_Union, FS_EmptySet, FS_CardinalityType

Done == GroupNodes \ todo
\* The nodes of the leaf of x that are written before x, the level and the
\* bucket they leave for it.
Earlier(x) == {y \in GroupNodes : p[y] = p[x] /\ y < x}
Level(x) == depth - Cardinality(Earlier(x)) \div Z
Home(x) == OnPath(p[x], Level(x))
DoneOfLeaf == {x \in Done : p[x] = leaf}

GType ==
  /\ p \in [GroupNodes -> Leaves] /\ \A x, y \in GroupNodes : x < y => p[x] <= p[y]
  /\ store \in [Buckets -> [0 .. Z - 1 -> GroupNodes \cup {None}]]
  /\ todo \subseteq GroupNodes /\ d \in 0 .. depth
  /\ \A x \in Done, y \in todo : x < y

\* What is written lies where the groups so far left room for it, and is
\* overwritten by a group further right only.
GWritten ==
  /\ \A x \in todo : G!StoredIn(x) = {}
  /\ \A x \in Done : Level(x) \in 0 .. depth
  /\ \A x \in Done : G!StoredIn(x) \subseteq {Home(x)}
  /\ \A x \in Done : G!StoredIn(x) = {} => \E y \in Done : p[y] > p[x] /\ Home(y) = Home(x)

GControl ==
  /\ pc \in {"leaf", "fill", "done", "past_root"}
  /\ pc = "leaf" => todo # {} /\ \A x \in Done, y \in todo : p[x] < p[y]
  /\ pc = "fill" => /\ leaf \in Leaves /\ G!Group # {}
                    /\ \A x \in todo : leaf <= p[x]
                    /\ \A x \in Done : p[x] <= leaf
                    /\ Cardinality(DoneOfLeaf) = Z * (depth - d)
  /\ pc = "done" => todo = {}
  /\ pc = "past_root" => \E x \in GroupNodes : Level(x) < 0

GInv == GType /\ GWritten /\ GControl

LEMMA GroupFacts ==
  ASSUME GType
  PROVE  /\ depth \in Nat /\ Z \in Nat \ {0} /\ None \notin GroupNodes /\ Leaves \subseteq Nat
         /\ GroupNodes \subseteq Nat /\ IsFiniteSet(GroupNodes)
         /\ \A l \in Leaves, e \in 0 .. depth : OnPath(l, e) \in Buckets
         /\ \A l, m \in Leaves, e, f \in 0 .. depth : OnPath(l, e) = OnPath(m, f) => e = f
         /\ IsFiniteSet(G!Group) /\ IsFiniteSet(DoneOfLeaf)
         /\ \A x \in G!Group : G!Before(x) \in Nat
         /\ \A x \in GroupNodes : Cardinality(Earlier(x)) \in Nat
<1>1. G!SetupAssumption
  BY MCSetupsAssumption
<1>2. IsFiniteSet(GroupNodes)
  BY <1>1, SameCounts DEF G!SetupAssumption
<1>3. IsFiniteSet(G!Group) /\ IsFiniteSet(DoneOfLeaf)
  BY <1>2, FS_Subset DEF GType, G!Group, DoneOfLeaf, Done
<1>4. \A x \in G!Group : G!Before(x) \in Nat
  BY <1>3, FS_Subset, FS_CardinalityType, SameCounts DEF G!Before
<1>5. \A x \in GroupNodes : Cardinality(Earlier(x)) \in Nat
  BY <1>2, FS_Subset, FS_CardinalityType DEF Earlier
<1> QED BY <1>1, <1>2, <1>3, <1>4, <1>5 DEF G!SetupAssumption

\* Each node of a group has a place of its own among those still to write.
LEMMA Places ==
  ASSUME GType
  PROVE  \A x, y \in G!Group : x # y =>
           /\ G!Before(x) # G!Before(y)
           /\ x < y <=> G!Before(x) < G!Before(y)
<1>1. ASSUME NEW x \in G!Group, NEW y \in G!Group, x < y
      PROVE  G!Before(x) < G!Before(y)
  <2>1. G!Group \subseteq Nat /\ IsFiniteSet(G!Group)
    BY GroupFacts DEF GType, G!Group
  <2> QED BY <1>1, <2>1, Precede, SameCounts DEF G!Before
<1>2. \A x \in G!Group : x \in Nat /\ G!Before(x) \in Nat
  BY GroupFacts DEF GType, G!Group
<1> QED BY <1>1, <1>2

\* A group that does not end in a bucket fills it.
LEMMA FullBatch ==
  ASSUME GType, ~ (G!Group \subseteq G!Batch)
  PROVE  IsFiniteSet(G!Batch) /\ Cardinality(G!Batch) = Z
<1>1. /\ G!Group \subseteq Nat /\ IsFiniteSet(G!Group) /\ G!Batch \subseteq G!Group
      /\ \A x \in G!Group : G!Before(x) \in Nat
      /\ Z \in Nat \ {0}
  BY GroupFacts DEF GType, G!Group, G!Batch
<1>2. IsFiniteSet(G!Batch) /\ Cardinality(G!Batch) \in Nat
  BY <1>1, FS_Subset, FS_CardinalityType
<1>3. Cardinality(G!Batch) <= Z
  <2> DEFINE f == [x \in G!Batch |-> G!Before(x)]
  <2>1. \A x \in G!Batch : G!Before(x) \in 0 .. Z - 1
    BY <1>1 DEF G!Batch
  <2>2. \A x, y \in G!Batch : f[x] = f[y] => x = y
    BY <1>1, Places
  <2>3. f \in Injection(G!Batch, 0 .. Z - 1)
    BY <2>1, <2>2 DEF Injection, IsInjective
  <2>4. IsFiniteSet(0 .. Z - 1) /\ Cardinality(0 .. Z - 1) = Z
    <3>1. 0 \in Int /\ Z - 1 \in Int /\ ~ (0 > Z - 1) /\ Z - 1 - 0 + 1 = Z
      BY <1>1
    <3> QED BY <3>1, FS_Interval
  <2> HIDE DEF f
  <2> QED BY <2>3, <2>4, FS_Injection
<1>4. Z <= Cardinality(G!Batch)
  <2>1. PICK x \in G!Group \ G!Batch : \A y \in G!Group \ G!Batch : x <= y
    BY <1>1, LeastNatural
  <2>2. G!Before(x) >= Z
    BY <1>1 DEF G!Batch
  <2>3. {y \in G!Group : y < x} \subseteq G!Batch
    <3>1. ASSUME NEW y \in G!Group, y < x, y \notin G!Batch PROVE FALSE
      <4>1. x <= y /\ x \in Nat /\ y \in Nat
        BY <1>1, <2>1, <3>1
      <4> QED BY <3>1, <4>1
    <3> QED BY <3>1
  <2>4. Cardinality({y \in G!Group : y < x}) <= Cardinality(G!Batch)
    BY <1>2, <2>3, FS_Subset
  <2>5. G!Before(x) = Cardinality({y \in G!Group : y < x})
    BY SameCounts DEF G!Before
  <2> QED BY <1>1, <1>2, <2>2, <2>4, <2>5
<1> QED BY <1>1, <1>2, <1>3, <1>4

\* The nodes of a leaf that precede one still to be written: those written,
\* and those before it in the group.
LEMMA EarlierInGroup ==
  ASSUME GInv, pc = "fill", NEW x \in G!Group
  PROVE  Cardinality(Earlier(x)) = Z * (depth - d) + G!Before(x)
<1> USE DEF GInv
<1>1. Earlier(x) = DoneOfLeaf \cup {y \in G!Group : y < x}
  BY DEF Earlier, DoneOfLeaf, Done, G!Group, GType
<1>2. IsFiniteSet(DoneOfLeaf) /\ IsFiniteSet({y \in G!Group : y < x})
  BY GroupFacts, FS_Subset
<1>3. DoneOfLeaf \cap {y \in G!Group : y < x} = {}
  BY DEF DoneOfLeaf, Done, G!Group
<1>4. Cardinality(Earlier(x)) = Cardinality(DoneOfLeaf) + Cardinality({y \in G!Group : y < x})
  BY <1>1, <1>2, <1>3, CountApart
<1>5. G!Before(x) = Cardinality({y \in G!Group : y < x})
  BY SameCounts DEF G!Before
<1>6. Cardinality(DoneOfLeaf) = Z * (depth - d)
  BY DEF GControl
<1> QED BY <1>4, <1>5, <1>6

LEMMA LevelOfBatch ==
  ASSUME GInv, pc = "fill", NEW x \in G!Batch
  PROVE  Level(x) = d /\ Home(x) = OnPath(leaf, d)
<1>1. x \in G!Group /\ G!Before(x) < Z
  BY DEF G!Batch
<1>2. /\ Z \in Nat \ {0} /\ depth \in Nat /\ d \in 0 .. depth
      /\ G!Before(x) \in Nat /\ Cardinality(Earlier(x)) \in Nat
  BY <1>1, GroupFacts DEF GInv, GType, G!Group
<1>3. Cardinality(Earlier(x)) = Z * (depth - d) + G!Before(x)
  BY <1>1, EarlierInGroup
<1>4. depth - d \in Nat /\ Z * (depth - d) \in Nat
  BY <1>2
<1>5. Cardinality(Earlier(x)) \div Z = depth - d
  BY <1>1, <1>2, <1>3, <1>4, QuotientIs
<1>6. Level(x) = d
  BY <1>2, <1>5 DEF Level
<1> QED BY <1>1, <1>6 DEF Home, G!Group

\* What a group has written lies below the bucket it is at.
LEMMA LevelOfDone ==
  ASSUME GInv, pc = "fill", NEW x \in DoneOfLeaf
  PROVE  d < Level(x)
<1> USE DEF GInv
<1>1. /\ Z \in Nat \ {0} /\ depth \in Nat /\ d \in 0 .. depth
      /\ x \in GroupNodes /\ p[x] = leaf
      /\ IsFiniteSet(Earlier(x)) /\ Cardinality(Earlier(x)) \in Nat
  BY GroupFacts, FS_Subset DEF GType, DoneOfLeaf, Done, Earlier
<1>2. Earlier(x) \cup {x} \subseteq DoneOfLeaf /\ x \notin Earlier(x)
  BY GroupFacts DEF GType, DoneOfLeaf, Done, Earlier
<1>3. Cardinality(Earlier(x)) + 1 <= Z * (depth - d)
  <2>1. Cardinality(Earlier(x) \cup {x}) = Cardinality(Earlier(x)) + 1
    BY <1>1, <1>2, FS_AddElement
  <2>2. Cardinality(Earlier(x) \cup {x}) <= Cardinality(DoneOfLeaf)
    BY <1>2, FS_Subset, GroupFacts
  <2> QED BY <2>1, <2>2 DEF GControl
<1> DEFINE q == Cardinality(Earlier(x)) \div Z
<1>4. q \in Nat /\ Z * q <= Cardinality(Earlier(x))
  BY <1>1, Division
<1>5. Level(x) = depth - q
  BY DEF Level
<1> HIDE DEF q
<1>6. ASSUME q >= depth - d PROVE FALSE
  <2>1. Z * (q - (depth - d)) >= 0
    BY <1>1, <1>4, <1>6, q - (depth - d) \in Nat, SMTT(30)
  <2>2. Z * (q - (depth - d)) = Z * q - Z * (depth - d)
    BY <1>1, <1>4, SMTT(30)
  <2>3. Z * q \in Int /\ Z * (depth - d) \in Int
    BY <1>1, <1>4
  <2> QED BY <1>1, <1>3, <1>4, <2>1, <2>2, <2>3
<1> QED BY <1>1, <1>4, <1>5, <1>6

LEMMA GroupsStart == ASSUME G!Init PROVE GInv
<1> USE DEF G!Init
<1>1. G!SetupAssumption
  BY MCSetupsAssumption
<1>2. depth \in Nat /\ Z \in Nat \ {0} /\ None \notin GroupNodes /\ GroupNodes # {}
  BY <1>1 DEF G!SetupAssumption
<1>3. GType
  BY <1>2 DEF GType, Done
<1>4. ASSUME NEW x \in GroupNodes PROVE G!StoredIn(x) = {}
  <2>1. \A b \in Buckets, z \in 0 .. Z - 1 : store[b][z] = None
    OBVIOUS
  <2> QED BY <1>2, <1>4, <2>1 DEF G!StoredIn
<1> QED BY <1>2, <1>3, <1>4 DEF GInv, GWritten, GControl, Done

LEMMA NextLeafStep == ASSUME GInv, G!NextLeaf PROVE GInv'
<1> USE DEF GInv, G!NextLeaf
<1>1. /\ pc = "leaf" /\ pc' = "fill" /\ d' = depth /\ depth \in Nat /\ Z \in Nat \ {0}
      /\ p' = p /\ store' = store /\ todo' = todo /\ Done' = Done
      /\ todo # {} /\ \A x \in Done, y \in todo : p[x] < p[y]
  BY GroupFacts DEF GControl, Done
<1> DEFINE L == {p[x] : x \in todo}
<1>2. L \subseteq Leaves /\ L \subseteq Nat /\ L # {}
  BY <1>1, GroupFacts DEF GType
<1>3. leaf' \in L /\ \A x \in todo : leaf' <= p[x]
  <2>1. PICK l \in L : \A m \in L : l <= m
    <3> HIDE DEF L
    <3> QED BY <1>2, LeastNatural
  <2>2. \A x \in todo : l <= p[x]
    BY <2>1
  <2> QED BY <2>1, <2>2
<1>4. GType'
  BY <1>1 DEF GType
<1>5. GWritten'
  <2>1. \A x : G!StoredIn(x)' = G!StoredIn(x)
    BY <1>1 DEF G!StoredIn
  <2>2. \A x : Level(x)' = Level(x) /\ Home(x)' = Home(x)
    BY <1>1 DEF Level, Home, Earlier
  <2> QED BY <1>1, <2>1, <2>2 DEF GWritten
<1>6. PICK y \in todo : leaf' = p[y]
  BY <1>3
<1>7. G!Group' # {}
  BY <1>1, <1>6 DEF G!Group
<1>8. \A x \in Done : p[x] < leaf'
  BY <1>1, <1>6
<1>9. \A x \in Done : p[x] \in Nat
  BY GroupFacts DEF GType, Done
<1>10. leaf' \in Nat /\ leaf' \in Leaves
  BY <1>2, <1>3
<1>11. DoneOfLeaf' = {}
  BY <1>1, <1>8, <1>9, <1>10 DEF DoneOfLeaf
<1>12. Cardinality(DoneOfLeaf') = Z * (depth - depth)
  BY <1>1, <1>11, FS_EmptySet
<1>13. \A x \in Done : p[x] <= leaf'
  BY <1>8, <1>9, <1>10
<1>14. GControl'
  BY <1>1, <1>3, <1>7, <1>10, <1>12, <1>13 DEF GControl
<1> QED BY <1>4, <1>5, <1>14

\* What FillBucket does to the bucket: the nodes of the batch are in it, and
\* a node that leaves it is overwritten by one of them.
LEMMA BatchIsWritten ==
  ASSUME GInv, G!FillBucket
  PROVE  /\ store' \in [Buckets -> [0 .. Z - 1 -> GroupNodes \cup {None}]]
         /\ \A x \in G!Batch : G!StoredIn(x)' = {OnPath(leaf, d)}
         /\ \A x \in GroupNodes \ G!Batch :
              /\ G!StoredIn(x)' \subseteq G!StoredIn(x)
              /\ \A b \in G!StoredIn(x) \ G!StoredIn(x)' : b = OnPath(leaf, d) /\ G!Batch # {}
<1> USE DEF GInv
<1> DEFINE b0 == OnPath(leaf, d)
<1>1. /\ pc = "fill" /\ leaf \in Leaves /\ d \in 0 .. depth
      /\ store' = [store EXCEPT ![b0] = G!Filled(@)]
  BY DEF G!FillBucket, GControl, GType
<1>2. /\ b0 \in Buckets /\ Z \in Nat \ {0} /\ None \notin GroupNodes
      /\ store \in [Buckets -> [0 .. Z - 1 -> GroupNodes \cup {None}]]
      /\ G!Batch \subseteq GroupNodes /\ G!Batch \subseteq todo /\ G!Batch \subseteq G!Group
      /\ \A x \in G!Batch : G!Before(x) \in 0 .. Z - 1
  BY <1>1, GroupFacts DEF GType, G!Batch, G!Group
<1> HIDE DEF b0
<1>3. \A x \in G!Batch : G!Filled(store[b0])[G!Before(x)] = x
  <2>1. SUFFICES ASSUME NEW x \in G!Batch
                 PROVE  G!Filled(store[b0])[G!Before(x)] = x
    OBVIOUS
  <2>2. \A y \in G!Batch : G!Before(y) = G!Before(x) => y = x
    BY <1>2, Places
  <2>3. (CHOOSE y \in G!Batch : G!Before(y) = G!Before(x)) = x
    BY <2>2
  <2> QED BY <1>2, <2>3 DEF G!Filled
<1>4. ASSUME NEW z \in 0 .. Z - 1
      PROVE  \/ G!Filled(store[b0])[z] \in G!Batch
             \/ G!Filled(store[b0])[z] = store[b0][z]
  BY DEF G!Filled
<1>5. /\ store'[b0] = G!Filled(store[b0])
      /\ \A b \in Buckets \ {b0} : store'[b] = store[b]
  BY <1>1, <1>2
<1>6. G!Filled(store[b0]) \in [0 .. Z - 1 -> GroupNodes \cup {None}]
  <2>1. \A z \in 0 .. Z - 1 : G!Filled(store[b0])[z] \in GroupNodes \cup {None}
    BY <1>2, <1>4
  <2>2. G!Filled(store[b0]) = [z \in 0 .. Z - 1 |-> G!Filled(store[b0])[z]]
    BY DEF G!Filled
  <2> QED BY <2>1, <2>2
<1>7. store' \in [Buckets -> [0 .. Z - 1 -> GroupNodes \cup {None}]]
  BY <1>1, <1>2, <1>6
<1>8. ASSUME NEW x \in G!Batch PROVE G!StoredIn(x)' = {b0}
  <2>1. b0 \in G!StoredIn(x)'
    BY <1>2, <1>3, <1>5 DEF G!StoredIn
  <2>2. G!StoredIn(x) = {}
    BY <1>2 DEF GWritten
  <2>3. ASSUME NEW b \in G!StoredIn(x)', b # b0 PROVE FALSE
    <3>1. b \in Buckets /\ \E z \in 0 .. Z - 1 : store'[b][z] = x
      BY DEF G!StoredIn
    <3>2. b \in G!StoredIn(x)
      BY <1>5, <2>3, <3>1 DEF G!StoredIn
    <3> QED BY <2>2, <3>2
  <2> QED BY <2>1, <2>3
<1>9. ASSUME NEW x \in GroupNodes \ G!Batch
      PROVE  /\ G!StoredIn(x)' \subseteq G!StoredIn(x)
             /\ \A b \in G!StoredIn(x) \ G!StoredIn(x)' : b = b0 /\ G!Batch # {}
  <2>1. ASSUME NEW b \in G!StoredIn(x)' PROVE b \in G!StoredIn(x)
    <3>1. b \in Buckets
      BY DEF G!StoredIn
    <3>2. PICK z \in 0 .. Z - 1 : store'[b][z] = x
      BY DEF G!StoredIn
    <3>3. store[b][z] = x
      BY <1>4, <1>5, <1>9, <3>1, <3>2
    <3> QED BY <3>1, <3>3 DEF G!StoredIn
  <2>2. ASSUME NEW b \in G!StoredIn(x), b \notin G!StoredIn(x)', b # b0 \/ G!Batch = {}
        PROVE  FALSE
    <3>1. b \in Buckets
      BY DEF G!StoredIn
    <3>2. PICK z \in 0 .. Z - 1 : store[b][z] = x
      BY DEF G!StoredIn
    <3>3. store'[b][z] = x
      BY <1>4, <1>5, <2>2, <3>1, <3>2
    <3> QED BY <2>2, <3>1, <3>3 DEF G!StoredIn
  <2> QED BY <2>1, <2>2
<1> QED BY <1>7, <1>8, <1>9 DEF b0

LEMMA FillBucketStep == ASSUME GInv, G!FillBucket PROVE GInv'
<1> USE DEF GInv
<1>1. /\ pc = "fill" /\ p' = p /\ leaf' = leaf /\ todo' = todo \ G!Batch
      /\ leaf \in Leaves /\ leaf \in Nat /\ d \in 0 .. depth /\ depth \in Nat /\ Z \in Nat \ {0}
      /\ todo \subseteq GroupNodes /\ GroupNodes \subseteq Nat
      /\ \A x \in GroupNodes : p[x] \in Leaves /\ p[x] \in Nat
      /\ \A x \in todo : leaf <= p[x]
      /\ \A x \in Done : p[x] <= leaf
  BY GroupFacts DEF G!FillBucket, GControl, GType
<1>2. /\ G!Batch \subseteq todo /\ G!Batch \subseteq G!Group /\ G!Batch \subseteq GroupNodes
      /\ \A x \in G!Batch : p[x] = leaf
      /\ Done' = Done \cup G!Batch
  BY <1>1 DEF G!Batch, G!Group, Done
<1>3. \A x : Level(x)' = Level(x) /\ Home(x)' = Home(x)
  BY <1>1 DEF Level, Home, Earlier
<1>4. \A x \in Done', y \in todo' : x < y
  <2> SUFFICES ASSUME NEW x \in Done', NEW y \in todo' PROVE x < y
    OBVIOUS
  <2>1. CASE x \in Done
    BY <1>1, <2>1 DEF GType
  <2>2. CASE x \in G!Batch
    <3>1. y \in todo /\ y \notin G!Batch /\ x # y /\ x \in Nat /\ y \in Nat
      BY <1>1, <1>2, <2>2
    <3>2. CASE y \in G!Group
      <4>1. ~ (G!Before(y) < Z) /\ G!Before(x) < Z
        BY <2>2, <3>1, <3>2 DEF G!Batch
      <4>2. G!Before(x) \in Nat /\ G!Before(y) \in Nat
        BY <1>2, <2>2, <3>2, GroupFacts
      <4>3. x \in G!Group
        BY <1>2, <2>2
      <4> QED BY <1>1, <3>1, <3>2, <4>1, <4>2, <4>3, Places
    <3>3. CASE y \notin G!Group
      <4>1. p[x] = leaf /\ p[x] \in Nat /\ p[y] \in Nat /\ p[y] # leaf /\ leaf <= p[y]
        BY <1>1, <1>2, <2>2, <3>1, <3>3 DEF G!Group
      <4>2. y < x => p[y] <= p[x]
        BY <1>1, <1>2, <2>2, <3>1 DEF GType
      <4> QED BY <3>1, <4>1, <4>2
    <3> QED BY <3>2, <3>3
  <2> QED BY <1>2, <2>1, <2>2
<1>5. GType'
  <2>1. d' \in 0 .. depth
    BY <1>1 DEF G!FillBucket
  <2> QED BY <1>1, <1>4, <2>1, BatchIsWritten DEF GType
<1>6. GWritten'
  <2>1. ASSUME NEW x \in todo' PROVE G!StoredIn(x)' = {}
    <3>1. x \in todo /\ x \in GroupNodes \ G!Batch
      BY <1>1
    <3> QED BY <3>1, BatchIsWritten DEF GWritten
  <2>2. ASSUME NEW x \in G!Batch
        PROVE  /\ Level(x) \in 0 .. depth
               /\ G!StoredIn(x)' \subseteq {Home(x)}
               /\ G!StoredIn(x)' # {}
    BY <1>1, BatchIsWritten, LevelOfBatch
  <2>3. ASSUME NEW x \in Done
        PROVE  /\ Level(x) \in 0 .. depth
               /\ G!StoredIn(x)' \subseteq {Home(x)}
               /\ G!StoredIn(x)' = {} => \E y \in Done' : p[y] > p[x] /\ Home(y) = Home(x)
    <3>1. /\ x \in GroupNodes \ G!Batch /\ Level(x) \in 0 .. depth
          /\ G!StoredIn(x) \subseteq {Home(x)}
          /\ G!StoredIn(x) = {} => \E y \in Done : p[y] > p[x] /\ Home(y) = Home(x)
      BY <1>2 DEF GWritten, Done
    <3>2. G!StoredIn(x)' \subseteq {Home(x)}
      BY <3>1, BatchIsWritten
    <3>3. ASSUME G!StoredIn(x)' = {}, G!StoredIn(x) # {}
          PROVE  \E y \in Done' : p[y] > p[x] /\ Home(y) = Home(x)
      <4>1. Home(x) \in G!StoredIn(x) \ G!StoredIn(x)'
        BY <3>1, <3>3
      <4>2. Home(x) = OnPath(leaf, d) /\ G!Batch # {}
        BY <3>1, <4>1, BatchIsWritten
      <4>3. PICK y \in G!Batch : TRUE
        BY <4>2
      <4>4. Home(y) = Home(x) /\ p[y] = leaf
        BY <1>1, <1>2, <4>2, LevelOfBatch
      <4>5. p[x] # leaf
        <5>1. SUFFICES ASSUME p[x] = leaf PROVE FALSE
          OBVIOUS
        <5>2. d < Level(x)
          BY <1>1, <5>1, LevelOfDone DEF DoneOfLeaf
        <5>3. OnPath(leaf, Level(x)) = OnPath(leaf, d)
          BY <4>2, <5>1 DEF Home
        <5>4. Level(x) = d
          BY <1>1, <3>1, <5>3, GroupFacts
        <5> QED BY <1>1, <5>2, <5>4
      <4>6. p[x] <= leaf /\ p[x] \in Nat
        BY <1>1, <3>1
      <4> QED BY <1>1, <1>2, <4>4, <4>5, <4>6
    <3> QED BY <1>2, <3>1, <3>2, <3>3
  <2>4. \A x \in Done' : Level(x) \in 0 .. depth
    BY <1>2, <2>2, <2>3
  <2>5. \A x \in Done' : G!StoredIn(x)' \subseteq {Home(x)}
    BY <1>2, <2>2, <2>3
  <2>6. \A x \in Done' : G!StoredIn(x)' = {} => \E y \in Done' : p[y] > p[x] /\ Home(y) = Home(x)
    BY <1>2, <2>2, <2>3
  <2>7. \A x \in Done' : Level(x)' \in 0 .. depth
    BY ONLY <1>3, <2>4
  <2>8. \A x \in Done' : G!StoredIn(x)' \subseteq {Home(x)'}
    BY ONLY <1>3, <2>5
  <2>9. \A x \in Done' : G!StoredIn(x)' = {} => \E y \in Done' : p'[y] > p'[x] /\ Home(y)' = Home(x)'
    BY ONLY <1>1, <1>3, <2>6
  <2> QED BY <2>1, <2>7, <2>8, <2>9 DEF GWritten
<1>7. GControl'
  <2>1. CASE todo' = {} /\ pc' = "done" /\ UNCHANGED d
    BY <2>1 DEF GControl
  <2>2. CASE todo' # {} /\ G!Group \subseteq G!Batch /\ pc' = "leaf" /\ UNCHANGED d
    <3>1. ASSUME NEW x \in Done', NEW y \in todo' PROVE p[x] < p[y]
      <4>1. y \in todo /\ y \notin G!Group /\ p[y] # leaf /\ leaf <= p[y] /\ p[y] \in Nat
        BY <1>1, <2>2 DEF G!Group
      <4>2. p[x] <= leaf /\ p[x] \in Nat
        BY <1>1, <1>2 DEF Done
      <4> QED BY <1>1, <4>1, <4>2
    <3> QED BY <1>1, <2>2, <3>1 DEF GControl
  <2>3. CASE ~ (G!Group \subseteq G!Batch) /\ d > 0 /\ pc' = "fill" /\ d' = d - 1
    <3>1. G!Group' # {}
      BY <1>1, <2>3 DEF G!Group
    <3>2. \A x \in todo' : leaf' <= p'[x]
      BY <1>1
    <3>3. \A x \in Done' : p'[x] <= leaf'
      <4>1. \A x \in G!Batch : p[x] <= leaf
        BY <1>1, <1>2
      <4> QED BY <1>1, <1>2, <4>1
    <3>4. DoneOfLeaf' = DoneOfLeaf \cup G!Batch
      BY <1>1, <1>2 DEF DoneOfLeaf
    <3>5. DoneOfLeaf \cap G!Batch = {}
      BY <1>2 DEF DoneOfLeaf, Done
    <3>6. IsFiniteSet(G!Batch) /\ Cardinality(G!Batch) = Z
      BY <2>3, FullBatch
    <3>7. Cardinality(DoneOfLeaf') = Z * (depth - d) + Z
      <4>1. Cardinality(DoneOfLeaf) = Z * (depth - d)
        BY <1>1 DEF GControl
      <4> QED BY <3>4, <3>5, <3>6, <4>1, CountApart, GroupFacts
    <3>8. Z * (depth - d) + Z = Z * (depth - d')
      <4>1. depth - d' = (depth - d) + 1
        BY <1>1, <2>3
      <4>2. Z * ((depth - d) + 1) = Z * (depth - d) + Z
        BY <1>1, SMTT(30)
      <4> QED BY <4>1, <4>2
    <3> QED BY <1>1, <2>3, <3>1, <3>2, <3>3, <3>7, <3>8 DEF GControl
  <2>4. CASE ~ (G!Group \subseteq G!Batch) /\ d = 0 /\ pc' = "past_root" /\ UNCHANGED d
    <3>1. PICK x \in G!Group : x \notin G!Batch
      BY <2>4
    <3>2. /\ x \in GroupNodes /\ G!Before(x) \in Nat /\ G!Before(x) >= Z
          /\ Cardinality(Earlier(x)) \in Nat
      BY <1>1, <3>1, GroupFacts DEF G!Batch, G!Group
    <3>3. Cardinality(Earlier(x)) = Z * depth + G!Before(x)
      <4>1. depth - d = depth
        BY <1>1, <2>4
      <4> QED BY <1>1, <3>1, <4>1, EarlierInGroup
    <3> DEFINE q == Cardinality(Earlier(x)) \div Z
    <3>4. q \in Nat /\ Cardinality(Earlier(x)) < Z * q + Z
      BY <1>1, <3>2, Division
    <3>5. Level(x) = depth - q
      BY DEF Level
    <3> HIDE DEF q
    <3>6. ASSUME q <= depth PROVE FALSE
      <4>1. Z * (depth - q) >= 0
        BY <1>1, <3>4, <3>6, depth - q \in Nat, SMTT(30)
      <4>2. Z * (depth - q) = Z * depth - Z * q
        BY <1>1, <3>4, SMTT(30)
      <4>3. Z * depth \in Int /\ Z * q \in Int
        BY <1>1, <3>4
      <4> QED BY <1>1, <3>2, <3>3, <3>4, <4>1, <4>2, <4>3
    <3>7. Level(x)' < 0
      BY <1>1, <1>3, <3>4, <3>5, <3>6
    <3> QED BY <2>4, <3>2, <3>7 DEF GControl
  <2> QED BY <2>1, <2>2, <2>3, <2>4 DEF G!FillBucket
<1> QED BY <1>5, <1>6, <1>7

LEMMA GroupsStep == ASSUME GInv, G!Next PROVE GInv'
BY NextLeafStep, FillBucketStep DEF G!Next

LEMMA GroupsUnchanged ==
  ASSUME GInv, UNCHANGED <<p, store, todo, leaf, d, pc>>
  PROVE  GInv'
<1> USE DEF GInv
<1>1. GType'
  BY DEF GType, Done
<1>2. \A x : Level(x)' = Level(x) /\ Home(x)' = Home(x) /\ G!StoredIn(x)' = G!StoredIn(x)
  BY DEF Level, Home, Earlier, G!StoredIn
<1>3. GWritten'
  BY <1>2 DEF GWritten, Done
<1>4. GControl'
  BY <1>2 DEF GControl, Done, DoneOfLeaf, G!Group
<1> QED BY <1>1, <1>3, <1>4

LEMMA GroupsInvariant == Spec => [](layout = "groups" => GInv)
<1> DEFINE I == layout = "groups" => GInv
<1>1. Init => I
  BY GroupsStart DEF Init
<1>2. I /\ [Next]_vars => I'
  <2> SUFFICES ASSUME GInv, layout = "groups", [Next]_vars PROVE GInv'
    BY DEF Next, vars
  <2>1. CASE G!Next
    BY <2>1, GroupsStep
  <2>2. CASE UNCHANGED vars
    BY <2>2, GroupsUnchanged DEF vars, groupVars, placed, setupVars
  <2> QED BY <2>1, <2>2 DEF Next
<1> HIDE DEF I
<1>3. Spec => []I
  BY <1>1, <1>2, PTL DEF Spec
<1> QED BY <1>3 DEF I

LEMMA LevelsAgree ==
  ASSUME GType, NEW x \in GroupNodes
  PROVE  G!SetupLevel(p, G!order, x) = Level(x)
<1>1. {y \in DOMAIN p : p[y] = p[x] /\ G!order[y] < G!order[x]} = Earlier(x)
  BY DEF G!order, Earlier, GType
<1> QED BY <1>1, SameCounts DEF G!SetupLevel, Level

\* When no two groups of nodes meet in a bucket and none runs past the root,
\* setupInsert() of BRAM leaves each node in the bucket SetupLevel names and
\* nowhere else.
THEOREM SetupLeavesInit == Spec => []PlacementIsInit
<1>1. ASSUME layout = "groups" => GInv PROVE PlacementIsInit
  <2> SUFFICES ASSUME layout = "groups", GInv, G!SetupFits(p, G!order)
               PROVE  /\ pc # "past_root"
                      /\ pc = "done" =>
                           \A x \in GroupNodes :
                             G!StoredIn(x) = {OnPath(p[x], G!SetupLevel(p, G!order, x))}
    BY <1>1 DEF PlacementIsInit, G!PlacementIsInit
  <2> USE DEF GInv
  <2>1. DOMAIN p = GroupNodes
    BY DEF GType
  <2>2. /\ \A x \in GroupNodes : Level(x) >= 0
        /\ \A x, y \in GroupNodes : Home(x) = Home(y) => p[x] = p[y]
    BY <2>1, LevelsAgree DEF G!SetupFits, Home
  <2>3. pc # "past_root"
    <3>1. SUFFICES ASSUME NEW x \in GroupNodes, Level(x) < 0 PROVE FALSE
      BY DEF GControl
    <3>2. depth \in Nat /\ Z \in Nat \ {0} /\ Cardinality(Earlier(x)) \in Nat
      BY GroupFacts
    <3>3. Level(x) \in Int
      BY <3>2, Division DEF Level
    <3> QED BY <2>2, <3>1, <3>3
  <2>4. ASSUME pc = "done", NEW x \in GroupNodes PROVE G!StoredIn(x) = {Home(x)}
    <3>1. x \in Done /\ Done \subseteq GroupNodes
      BY <2>4 DEF GControl, Done
    <3>2. G!StoredIn(x) \subseteq {Home(x)}
      BY <3>1 DEF GWritten
    <3>3. ASSUME G!StoredIn(x) = {} PROVE FALSE
      <4>1. PICK y \in Done : p[y] > p[x] /\ Home(y) = Home(x)
        BY <3>1, <3>3 DEF GWritten
      <4>2. p[y] = p[x]
        BY <2>2, <3>1, <4>1
      <4>3. p[x] \in Nat /\ p[y] \in Nat
        BY <3>1, GroupFacts DEF GType
      <4> QED BY <4>1, <4>2, <4>3
    <3> QED BY <3>2, <3>3
  <2> QED BY <2>3, <2>4, LevelsAgree DEF Home
<1> QED BY <1>1, GroupsInvariant, PTL

\* A node setupInsert() of BRAM has written is in its bucket unless a group
\* of nodes of a leaf further right has reached the same bucket.
THEOREM OnlyMeetingGroups == Spec => []OnlyMeetingGroupsLose
<1>1. ASSUME layout = "groups" => GInv PROVE OnlyMeetingGroupsLose
  <2> SUFFICES ASSUME layout = "groups", GInv, NEW x \in GroupNodes \ todo, G!StoredIn(x) = {}
               PROVE  \E y \in GroupNodes \ todo :
                        /\ p[y] > p[x]
                        /\ OnPath(p[y], G!SetupLevel(p, G!order, y))
                             = OnPath(p[x], G!SetupLevel(p, G!order, x))
    BY <1>1 DEF OnlyMeetingGroupsLose, G!OnlyMeetingGroupsLose
  <2>1. PICK y \in Done : p[y] > p[x] /\ Home(y) = Home(x)
    BY DEF GInv, GWritten, Done
  <2> QED BY <2>1, LevelsAgree DEF GInv, Home, Done
<1> QED BY <1>1, GroupsInvariant, PTL

(***************************************************************************)
(* The height of the B-tree that setup makes.                              *)
(***************************************************************************)
Wide(h) == B!D^h

\* The powers of D, each at least four times the one before.
LEMMA WidePowers ==
  ASSUME B!SetupAssumption
  PROVE  /\ B!D \in Nat /\ B!D >= 4 /\ T \in Nat /\ T > 1 /\ B!D = 2 * T
         /\ \A h \in 0 .. 9 : Wide(h) \in Nat \ {0}
         /\ \A h \in 0 .. 8 : Wide(h + 1) = B!D * Wide(h) /\ Wide(h + 1) >= 4 * Wide(h)
         /\ Wide(0) = 1
<1>1. B!D \in Nat /\ B!D >= 4 /\ T \in Nat /\ T > 1 /\ B!D = 2 * T
  BY DEF B!SetupAssumption, B!D
<1>2. \A h \in 0 .. 8 : Wide(h + 1) = B!D * Wide(h)
  BY DEF B!SetupAssumption, Wide
<1>3. Wide(0) = 1
  BY DEF B!SetupAssumption, Wide
<1>4. ASSUME NEW x \in Nat \ {0}
      PROVE  B!D * x \in Nat \ {0} /\ B!D * x >= 4 * x
  <2>1. (B!D - 4) * x >= 0
    BY <1>1
  <2> QED BY <1>1, <2>1
<1>5. /\ Wide(1) \in Nat \ {0} /\ Wide(2) \in Nat \ {0} /\ Wide(3) \in Nat \ {0}
      /\ Wide(4) \in Nat \ {0} /\ Wide(5) \in Nat \ {0}
  <2> HIDE DEF Wide
  <2>1. Wide(1) \in Nat \ {0}
    BY <1>2, <1>3, <1>4, 0 \in 0 .. 8, 0 + 1 = 1
  <2>2. Wide(2) \in Nat \ {0}
    BY <1>2, <1>4, <2>1, 1 \in 0 .. 8, 1 + 1 = 2
  <2>3. Wide(3) \in Nat \ {0}
    BY <1>2, <1>4, <2>2, 2 \in 0 .. 8, 2 + 1 = 3
  <2>4. Wide(4) \in Nat \ {0}
    BY <1>2, <1>4, <2>3, 3 \in 0 .. 8, 3 + 1 = 4
  <2>5. Wide(5) \in Nat \ {0}
    BY <1>2, <1>4, <2>4, 4 \in 0 .. 8, 4 + 1 = 5
  <2> QED BY <2>1, <2>2, <2>3, <2>4, <2>5
<1>6. /\ Wide(6) \in Nat \ {0} /\ Wide(7) \in Nat \ {0} /\ Wide(8) \in Nat \ {0} /\ Wide(9) \in Nat \ {0}
  <2> HIDE DEF Wide
  <2>1. Wide(6) \in Nat \ {0}
    BY <1>2, <1>4, <1>5, 5 \in 0 .. 8, 5 + 1 = 6
  <2>2. Wide(7) \in Nat \ {0}
    BY <1>2, <1>4, <2>1, 6 \in 0 .. 8, 6 + 1 = 7
  <2>3. Wide(8) \in Nat \ {0}
    BY <1>2, <1>4, <2>2, 7 \in 0 .. 8, 7 + 1 = 8
  <2>4. Wide(9) \in Nat \ {0}
    BY <1>2, <1>4, <2>3, 8 \in 0 .. 8, 8 + 1 = 9
  <2> QED BY <2>1, <2>2, <2>3, <2>4
<1>7. \A h \in 0 .. 9 : Wide(h) \in Nat \ {0}
  <2> HIDE DEF Wide
  <2>1. \A h \in 0 .. 9 : h \in {0, 1, 2, 3, 4, 5, 6, 7, 8, 9}
    OBVIOUS
  <2> QED BY <1>3, <1>5, <1>6, <2>1
<1>8. \A h \in 0 .. 8 : Wide(h + 1) >= 4 * Wide(h)
  <2> HIDE DEF Wide
  <2> QED BY <1>2, <1>4, <1>7
<1> QED BY <1>1, <1>2, <1>3, <1>7, <1>8

Exp == B!ExpFloor

\* The rounded logarithm of a number up to 1001.
LEMMA Logarithm ==
  ASSUME NEW m \in 2 .. 1001
  PROVE  /\ B!CeilLog(m) \in 1 .. 7
         /\ m <= Exp[B!CeilLog(m) + 1] /\ m > Exp[B!CeilLog(m)]
<1> DEFINE Is(c) == m <= Exp[c + 1] /\ \A b \in 0 .. c - 1 : m > Exp[b + 1]
<1>1. /\ Exp[1] = 1 /\ Exp[2] = 2 /\ Exp[3] = 7 /\ Exp[4] = 20 /\ Exp[5] = 54
      /\ Exp[6] = 148 /\ Exp[7] = 403 /\ Exp[8] = 1096
  BY DEF Exp, B!ExpFloor
<1> HIDE DEF Exp
<1>2. \E c \in 0 .. 7 : Is(c)
  <2> DEFINE S == {c \in 0 .. 7 : m <= Exp[c + 1]}
  <2>1. 7 \in S
    BY <1>1
  <2>2. PICK c \in S : \A b \in S : c <= b
    <3>1. S \subseteq Nat /\ S # {}
      BY <2>1
    <3> HIDE DEF S
    <3> QED BY <3>1, LeastNatural
  <2>3. \A b \in 0 .. 7 : Exp[b + 1] \in Nat
    <3>1. \A b \in 0 .. 7 : b \in {0, 1, 2, 3, 4, 5, 6, 7}
      OBVIOUS
    <3> QED BY <1>1, <3>1
  <2>4. ASSUME NEW b \in 0 .. c - 1 PROVE m > Exp[b + 1]
    <3>1. b \in 0 .. 7 /\ b \notin S
      BY <2>2
    <3> QED BY <2>3, <3>1
  <2> QED BY <2>2, <2>4
<1>3. B!CeilLog(m) \in 0 .. 7 /\ Is(B!CeilLog(m))
  <2>1. B!CeilLog(m) = CHOOSE c \in 0 .. 7 : Is(c)
    BY DEF B!CeilLog, Exp
  <2> HIDE DEF Is
  <2> QED BY <1>2, <2>1
<1>4. B!CeilLog(m) # 0
  BY <1>1, <1>3
<1>5. m > Exp[(B!CeilLog(m) - 1) + 1]
  BY <1>3, <1>4
<1> QED BY <1>3, <1>4, <1>5

\* Its quotient by the logarithm of D.
LEMMA LogQuotient ==
  ASSUME B!SetupAssumption, NEW c \in 1 .. 7
  PROVE  /\ B!Quotient(c) \in 0 .. c
         /\ Wide(B!Quotient(c)) <= Exp[c + 1] /\ Wide(B!Quotient(c) + 1) > Exp[c + 1]
<1>0. /\ Exp[1] = 1 /\ Exp[2] = 2 /\ Exp[3] = 7 /\ Exp[4] = 20 /\ Exp[5] = 54
      /\ Exp[6] = 148 /\ Exp[7] = 403 /\ Exp[8] = 1096
  BY DEF Exp, B!ExpFloor
<1>1. /\ \A h \in 0 .. 9 : Wide(h) \in Nat \ {0}
      /\ \A h \in 0 .. 8 : Wide(h + 1) >= 4 * Wide(h)
      /\ Wide(0) = 1
  BY WidePowers
<1>c. c \in {1, 2, 3, 4, 5, 6, 7}
  OBVIOUS
<1> DEFINE Is(h) == Wide(h) <= Exp[c + 1] /\ Wide(h + 1) > Exp[c + 1]
<1>d. B!Quotient(c) = CHOOSE h \in 0 .. c : Is(h)
  BY DEF B!Quotient, Exp, Wide
<1> HIDE DEF Exp, Wide
<1>2. Wide(c + 1) > Exp[c + 1] /\ Exp[c + 1] \in Nat \ {0}
  <2>1. Wide(1) >= 4 /\ Wide(1) \in Nat
    BY <1>1, 0 \in 0 .. 8, 0 + 1 = 1
  <2>2. Wide(2) >= 16 /\ Wide(2) \in Nat
    BY <1>1, <2>1, 1 \in 0 .. 8, 1 + 1 = 2
  <2>3. Wide(3) >= 64 /\ Wide(3) \in Nat
    BY <1>1, <2>2, 2 \in 0 .. 8, 2 + 1 = 3
  <2>4. Wide(4) >= 256 /\ Wide(4) \in Nat
    BY <1>1, <2>3, 3 \in 0 .. 8, 3 + 1 = 4
  <2>5. Wide(5) >= 1024 /\ Wide(5) \in Nat
    BY <1>1, <2>4, 4 \in 0 .. 8, 4 + 1 = 5
  <2>6. Wide(6) >= 4096 /\ Wide(6) \in Nat
    BY <1>1, <2>5, 5 \in 0 .. 8, 5 + 1 = 6
  <2>7. Wide(7) >= 16384 /\ Wide(7) \in Nat
    BY <1>1, <2>6, 6 \in 0 .. 8, 6 + 1 = 7
  <2>8. Wide(8) >= 65536 /\ Wide(8) \in Nat
    BY <1>1, <2>7, 7 \in 0 .. 8, 7 + 1 = 8
  <2> QED BY <1>0, <1>c, <2>2, <2>3, <2>4, <2>5, <2>6, <2>7, <2>8
<1>3. \E h \in 0 .. c : Is(h)
  <2> DEFINE S == {h \in 0 .. c : Wide(h + 1) > Exp[c + 1]}
  <2>1. c \in S
    BY <1>2
  <2>2. PICK h \in S : \A b \in S : h <= b
    <3>1. S \subseteq Nat /\ S # {}
      BY <2>1
    <3> HIDE DEF S
    <3> QED BY <3>1, LeastNatural
  <2>3. Wide(h) <= Exp[c + 1]
    <3>1. CASE h = 0
      BY <1>1, <1>2, <3>1
    <3>2. CASE h # 0
      <4>1. h - 1 \in 0 .. c /\ h - 1 \notin S /\ (h - 1) + 1 = h /\ h \in 0 .. 9
        BY <2>2, <3>2
      <4> QED BY <1>1, <1>2, <4>1
    <3> QED BY <3>1, <3>2
  <2> QED BY <2>2, <2>3
<1>4. B!Quotient(c) \in 0 .. c /\ Is(B!Quotient(c))
  <2> HIDE DEF Is
  <2> QED BY <1>3, <1>d
<1> QED BY <1>4

\* The height setupInsert() computes is the least whose full tree holds the
\* entries.
LEMMA HeightIsLeast ==
  ASSUME B!SetupAssumption, NEW n \in 1 .. 1000
  PROVE  /\ B!Height(n) \in 0 .. 8 /\ n <= B!getMaxNodes(B!Height(n))
         /\ B!Height(n) > 0 => B!getMaxNodes(B!Height(n) - 1) < n
<1> DEFINE c == B!CeilLog(n + 1)  q == B!Quotient(c)  e == Exp[c + 1]
<1>1. c \in 1 .. 7 /\ n + 1 <= e /\ n + 1 > Exp[c]
  BY n + 1 \in 2 .. 1001, Logarithm
<1>2. q \in 0 .. 7 /\ q \in 0 .. c /\ Wide(q) <= e /\ Wide(q + 1) > e
  BY <1>1, LogQuotient
<1>3. e \in Nat /\ e <= 3 * (n + 1)
  <2>1. /\ Exp[1] = 1 /\ Exp[2] = 2 /\ Exp[3] = 7 /\ Exp[4] = 20 /\ Exp[5] = 54
        /\ Exp[6] = 148 /\ Exp[7] = 403 /\ Exp[8] = 1096
    BY DEF Exp, B!ExpFloor
  <2>2. c \in {1, 2, 3, 4, 5, 6, 7}
    BY <1>1
  <2> HIDE DEF c, Exp
  <2> QED BY <1>1, <2>1, <2>2
<1>4. /\ \A h \in 0 .. 9 : Wide(h) \in Nat \ {0}
      /\ \A h \in 0 .. 8 : Wide(h + 1) >= 4 * Wide(h)
      /\ Wide(0) = 1
  BY WidePowers
<1>5. \A h \in Nat : B!getMaxNodes(h) = Wide(h + 1) - 1
  BY DEF B!getMaxNodes, Wide
<1> DEFINE h0 == B!Max({0, q - 1})
<1>6. h0 = IF q = 0 THEN 0 ELSE q - 1
  <2> HIDE DEF q
  <2>1. \E x \in {0, q - 1} : \A y \in {0, q - 1} : x >= y
    BY <1>2
  <2>2. h0 \in {0, q - 1} /\ \A y \in {0, q - 1} : h0 >= y
    BY <2>1 DEF B!Max
  <2> QED BY <1>2, <2>2
<1>7. B!Height(n) = IF B!getMaxNodes(h0) < n THEN h0 + 1 ELSE h0
  BY DEF B!Height
<1> HIDE DEF c, q, e, h0, Exp, Wide
<1>8. CASE q = 0
  <2>1. h0 = 0 /\ B!getMaxNodes(h0) = Wide(1) - 1 /\ Wide(1) > e /\ Wide(1) \in Nat
    BY <1>2, <1>4, <1>5, <1>6, <1>8
  <2>2. ~ (B!getMaxNodes(h0) < n)
    BY <1>1, <1>3, <2>1
  <2> QED BY <1>1, <1>3, <1>7, <2>1, <2>2
<1>9. CASE q # 0
  <2>1. h0 = q - 1 /\ h0 \in 0 .. 6 /\ B!getMaxNodes(h0) = Wide(q) - 1
    BY <1>2, <1>5, <1>6, <1>9
  <2>2. /\ Wide(q) \in Nat /\ Wide(q - 1) \in Nat /\ Wide(q + 1) \in Nat
        /\ Wide(q) >= 4 * Wide(q - 1)
    BY <1>2, <1>4, <1>9, q - 1 \in 0 .. 8, (q - 1) + 1 = q
  <2>3. CASE B!getMaxNodes(h0) < n
    <3>1. B!Height(n) = q
      BY <1>2, <1>7, <2>1, <2>3
    <3>2. B!getMaxNodes(q) = Wide(q + 1) - 1
      BY <1>2, <1>5
    <3> QED BY <1>1, <1>2, <1>3, <2>1, <2>2, <2>3, <3>1, <3>2
  <2>4. CASE ~ (B!getMaxNodes(h0) < n)
    <3>1. B!Height(n) = q - 1
      BY <1>7, <2>1, <2>4
    <3>2. ASSUME q - 1 > 0 PROVE B!getMaxNodes(q - 1 - 1) = Wide(q - 1) - 1
      BY <1>2, <1>5, <3>2, q - 1 - 1 \in Nat, (q - 1 - 1) + 1 = q - 1
    <3>3. Wide(q - 1) < n + 1
      BY <1>2, <1>3, <2>2
    <3> QED BY <1>2, <2>1, <2>2, <2>4, <3>1, <3>2, <3>3
  <2> QED BY <2>3, <2>4
<1> QED BY <1>8, <1>9

(***************************************************************************)
(* The groups of a full tree's keys.                                       *)
(***************************************************************************)
LEMMA Listed ==
  ASSUME NEW n \in Nat, NEW S, NEW f \in [1 .. n -> S]
  PROVE  f \in Seq(S) /\ Len(f) = n
<1>1. f \in Seq(S)
  BY SeqDef
<1>2. Len(f) \in Nat /\ 1 .. n = 1 .. Len(f)
  BY <1>1, LenProperties
<1> QED BY <1>1, <1>2

LEMMA PartOf ==
  ASSUME NEW q \in Seq(Nat), NEW m \in Nat \ {0}, NEW k \in Nat, m <= k + 1, k <= Len(q)
  PROVE  SubSeq(q, m, k) = [j \in 1 .. k - m + 1 |-> q[m + j - 1]]
<1>1. \A j \in m .. k : q[j] \in Nat
  BY ElementOfSeq, LenProperties
<1>2. /\ SubSeq(q, m, k) \in Seq(Nat)
      /\ Len(SubSeq(q, m, k)) = IF m <= k THEN k - m + 1 ELSE 0
      /\ \A j \in 1 .. k - m + 1 : SubSeq(q, m, k)[j] = q[m + j - 1]
  BY <1>1, SubSeqProperties
<1>3. Len(SubSeq(q, m, k)) = k - m + 1
  BY <1>2
<1>4. SubSeq(q, m, k) \in [1 .. k - m + 1 -> Nat]
  BY <1>2, <1>3, LenProperties
<1> QED BY <1>2, <1>4

\* The v-th group of g of the n elements of q.
GroupOf(q, n, g, v) == SubSeq(q, (v - 1) * g + 1, B!Min({v * g, n}))

LEMMA GroupsAre ==
  ASSUME NEW q, NEW n, NEW g, NEW c, Len(q) = n, B!GroupSize(n) = g, c = IF n < B!D THEN 1 ELSE B!D
  PROVE  /\ DOMAIN B!createGroups(q) = 1 .. c
         /\ \A v \in 1 .. c : B!createGroups(q)[v] = GroupOf(q, n, g, v)
         /\ B!createGroups(q) = [v \in 1 .. c |-> B!createGroups(q)[v]]
<1>1. B!createGroups(q) = [v \in 1 .. c |-> GroupOf(q, n, g, v)]
  BY Zenon DEF B!createGroups, GroupOf
<1> QED BY <1>1

LEMMA LessOf ==
  ASSUME NEW x \in Int, NEW y \in Int
  PROVE  B!Min({x, y}) = IF x <= y THEN x ELSE y
<1>1. \E m \in {x, y} : \A k \in {x, y} : m <= k
  OBVIOUS
<1>2. B!Min({x, y}) \in {x, y} /\ \A k \in {x, y} : B!Min({x, y}) <= k
  BY <1>1 DEF B!Min
<1> QED BY <1>2

\* The keys after s, as many as a tree of height h holds.
KeysAfter(s, h) == [j \in 1 .. Wide(h + 1) - 1 |-> s + j]

LEMMA OneGroup ==
  ASSUME B!SetupAssumption, NEW s \in Nat
  PROVE  /\ KeysAfter(s, 0) \in Seq(Nat) /\ Len(KeysAfter(s, 0)) = B!D - 1
         /\ Len(B!createGroups(KeysAfter(s, 0))) = 1
         /\ B!createGroups(KeysAfter(s, 0))[1] = KeysAfter(s, 0)
<1> DEFINE in == KeysAfter(s, 0)
<1>1. B!D \in Nat /\ B!D >= 4 /\ Wide(1) = B!D
  <2>1. Wide(0 + 1) = B!D * Wide(0) /\ Wide(0) = 1 /\ B!D \in Nat /\ B!D >= 4
    BY WidePowers
  <2> QED BY <2>1
<1>2. in \in [1 .. B!D - 1 -> Nat]
  BY <1>1 DEF KeysAfter
<1>3. in \in Seq(Nat) /\ Len(in) = B!D - 1
  BY <1>1, <1>2, Listed
<1> HIDE DEF in
<1>4. B!GroupSize(Len(in)) = B!D - 1
  BY <1>1, <1>3 DEF B!GroupSize
<1>5. /\ DOMAIN B!createGroups(in) = 1 .. 1
      /\ B!createGroups(in) = [v \in 1 .. 1 |-> B!createGroups(in)[v]]
      /\ B!createGroups(in)[1] = GroupOf(in, B!D - 1, B!D - 1, 1)
  <2>1. 1 = IF B!D - 1 < B!D THEN 1 ELSE B!D
    BY <1>1
  <2>2. Len(in) = B!D - 1 /\ B!GroupSize(B!D - 1) = B!D - 1
    BY <1>3, <1>4
  <2> QED BY <2>1, <2>2, GroupsAre
<1>6. SubSeq(in, 1, B!D - 1) = in
  BY <1>3, SubSeqFull
<1>7. B!Min({1 * (B!D - 1), B!D - 1}) = B!D - 1 /\ (1 - 1) * (B!D - 1) + 1 = 1
  BY <1>1, LessOf
<1>8. B!createGroups(in)[1] = in
  BY <1>5, <1>6, <1>7 DEF GroupOf
<1>9. Len(B!createGroups(in)) = 1
  <2>1. B!createGroups(in) \in [1 .. 1 -> {in}]
    BY <1>5, <1>8, 1 .. 1 = {1}
  <2> QED BY <2>1, Listed
<1> QED BY <1>3, <1>8, <1>9 DEF in

LEMMA ManyGroups ==
  ASSUME B!SetupAssumption, NEW s \in Nat, NEW h \in 1 .. 8
  PROVE  /\ KeysAfter(s, h) \in Seq(Nat)
         /\ Len(B!createGroups(KeysAfter(s, h))) = B!D
         /\ \A v \in 1 .. B!D : B!createGroups(KeysAfter(s, h))[v] =
              [j \in 1 .. (IF v = B!D THEN Wide(h) - 1 ELSE Wide(h)) |-> s + (v - 1) * Wide(h) + j]
<1> DEFINE in == KeysAfter(s, h)  W == Wide(h)  n == Wide(h + 1) - 1
           cut(v) == [j \in 1 .. (IF v = B!D THEN W - 1 ELSE W) |-> s + (v - 1) * W + j]
<1>1. /\ B!D \in Nat /\ B!D >= 4 /\ W \in Nat /\ W >= 4 /\ Wide(h + 1) = B!D * W /\ n = B!D * W - 1
      /\ Wide(h + 1) \in Nat /\ Wide(h + 1) >= 4 * W
  <2>1. /\ B!D \in Nat /\ B!D >= 4 /\ W \in Nat /\ Wide(h + 1) = B!D * W
        /\ Wide(h + 1) >= 4 * W /\ Wide(h + 1) \in Nat
    BY WidePowers, h + 1 \in 0 .. 9
  <2>2. W >= 4
    <3>1. h - 1 \in 0 .. 8 /\ (h - 1) + 1 = h
      OBVIOUS
    <3>2. Wide((h - 1) + 1) >= 4 * Wide(h - 1) /\ Wide(h - 1) \in Nat \ {0}
      BY <3>1, WidePowers
    <3> HIDE DEF Wide
    <3> QED BY <2>1, <3>1, <3>2
  <2> QED BY <2>1, <2>2
<1>2. in \in [1 .. n -> Nat] /\ n \in Nat /\ in = [j \in 1 .. n |-> s + j]
  BY <1>1 DEF KeysAfter
<1> HIDE DEF Wide, W, in
<1>3. in \in Seq(Nat) /\ Len(in) = n
  BY <1>2, Listed
<1>4. B!GroupSize(n) = W
  <2>1. (n + B!D - 1) \div B!D = W
    <3>1. n + B!D - 1 = B!D * W + (B!D - 2) /\ B!D - 2 \in 0 .. B!D - 1
      BY <1>1
    <3>2. B!D * W \in Nat /\ n + B!D - 1 \in Nat
      BY <1>1
    <3>3. B!D * W <= n + B!D - 1 /\ n + B!D - 1 < B!D * W + B!D
      BY <3>1, <3>2, <1>1
    <3> HIDE DEF n
    <3> QED BY <1>1, <3>2, <3>3, QuotientIs
  <2>2. W * B!D - n = 1
    BY <1>1
  <2>3. n >= B!D
    <3>1. (B!D - 1) * (W - 1) >= 1 /\ (B!D - 1) * (W - 1) = B!D * W - B!D - W + 1
      BY <1>1
    <3>2. B!D * (W - 1) >= B!D
      BY <1>1
    <3>3. (B!D - 2) * W >= 0 /\ (B!D - 2) * W = B!D * W - 2 * W
      BY <1>1
    <3>4. (W - 2) * B!D >= 0 /\ (W - 2) * B!D = B!D * W - 2 * B!D
      BY <1>1
    <3> QED BY <1>1, <3>4
  <2> HIDE DEF n
  <2> QED BY <1>1, <1>2, <2>1, <2>2, <2>3 DEF B!GroupSize
<1>5. /\ n >= B!D
      /\ \A v \in 1 .. B!D : v * W \in Nat /\ (v - 1) * W \in Nat /\ v * W = (v - 1) * W + W
      /\ \A v \in 1 .. B!D - 1 : v * W <= n /\ B!D * W > n
  <2>1. n >= B!D
    <3>4. (W - 2) * B!D >= 0 /\ (W - 2) * B!D = B!D * W - 2 * B!D
      BY <1>1
    <3> QED BY <1>1, <3>4
  <2>2. ASSUME NEW v \in 1 .. B!D PROVE v * W \in Nat /\ (v - 1) * W \in Nat /\ v * W = (v - 1) * W + W
    BY <1>1
  <2>3. ASSUME NEW v \in 1 .. B!D - 1 PROVE v * W <= n /\ B!D * W > n
    <3>1. (B!D - v - 1) * W >= 0 /\ (B!D - v - 1) * W = B!D * W - v * W - W
      BY <1>1
    <3>2. v * W \in Nat
      BY <1>1
    <3> QED BY <1>1, <3>1, <3>2
  <2> QED BY <2>1, <2>2, <2>3
<1> HIDE DEF n
<1>6. /\ DOMAIN B!createGroups(in) = 1 .. B!D
      /\ B!createGroups(in) = [v \in 1 .. B!D |-> B!createGroups(in)[v]]
      /\ \A v \in 1 .. B!D : B!createGroups(in)[v] = GroupOf(in, n, W, v)
  <2>1. B!D = IF n < B!D THEN 1 ELSE B!D
    BY <1>1, <1>2, <1>5
  <2>2. Len(in) = n /\ B!GroupSize(n) = W
    BY <1>3, <1>4
  <2> QED BY <2>1, <2>2, GroupsAre
<1>7. ASSUME NEW v \in 1 .. B!D
      PROVE  B!createGroups(in)[v] = cut(v)
  <2> DEFINE a == (v - 1) * W  k == IF v = B!D THEN n ELSE v * W
  <2>1. a \in Nat /\ v * W = a + W
    BY <1>5
  <2>2. k = (IF v = B!D THEN a + W - 1 ELSE a + W) /\ k <= n /\ k \in Nat
    <3>1. CASE v = B!D
      <4>1. n = v * W - 1
        BY <1>1, <3>1 DEF n
      <4> QED BY <1>1, <1>2, <2>1, <3>1, <4>1
    <3>2. CASE v # B!D
      <4>1. v \in 1 .. B!D - 1
        BY <1>1, <3>2
      <4> QED BY <1>1, <1>2, <1>5, <2>1, <3>2, <4>1
    <3> QED BY <3>1, <3>2
  <2>3. B!Min({v * W, n}) = k
    <3>1. v * W \in Int /\ n \in Int
      BY <1>2, <1>5
    <3>2. CASE v = B!D
      <4>1. v * W > n
        BY <1>1, <3>2 DEF n
      <4> QED BY <3>1, <3>2, <4>1, LessOf
    <3>3. CASE v # B!D
      <4>1. v * W <= n
        BY <1>1, <1>5, <3>3
      <4> QED BY <3>1, <3>3, <4>1, LessOf
    <3> QED BY <3>2, <3>3
  <2>4. SubSeq(in, a + 1, k) = [j \in 1 .. k - (a + 1) + 1 |-> in[(a + 1) + j - 1]]
    <3>1. a + 1 \in Nat \ {0} /\ a + 1 <= k + 1 /\ k <= Len(in)
      BY <1>1, <1>3, <2>1, <2>2
    <3> HIDE DEF a, k
    <3> QED BY <1>3, <2>2, <3>1, PartOf
  <2> HIDE DEF a, k
  <2>5. k - (a + 1) + 1 = (IF v = B!D THEN W - 1 ELSE W)
    BY <1>1, <2>1, <2>2
  <2>6. ASSUME NEW j \in 1 .. k - (a + 1) + 1 PROVE in[(a + 1) + j - 1] = s + a + j
    <3>1. (a + 1) + j - 1 = a + j /\ a + j \in 1 .. n
      BY <1>1, <1>2, <2>1, <2>2
    <3> QED BY <1>2, <2>1, <3>1
  <2>7. SubSeq(in, a + 1, k) = [j \in 1 .. (IF v = B!D THEN W - 1 ELSE W) |-> s + a + j]
    BY <2>4, <2>5, <2>6
  <2>8. B!createGroups(in)[v] = SubSeq(in, a + 1, k)
    BY <1>6, <2>3 DEF a, GroupOf
  <2> QED BY <2>7, <2>8 DEF a
<1>8. Len(B!createGroups(in)) = B!D
  <2>1. B!createGroups(in) \in [1 .. B!D -> {cut(v) : v \in 1 .. B!D}]
    <3> HIDE DEF cut
    <3> QED BY <1>6, <1>7
  <2> HIDE DEF cut
  <2> QED BY <1>1, <2>1, Listed
<1> QED BY <1>3, <1>7, <1>8 DEF in, W

\* What the next call of each group gets, and the key that goes up from it.
LEMMA GroupInputs ==
  ASSUME B!SetupAssumption, NEW s \in Nat, NEW h \in 1 .. 8, NEW x \in 1 .. B!D
  PROVE  LET groups == B!createGroups(KeysAfter(s, h)) IN
         /\ x = B!D => groups[x] = KeysAfter(s + (x - 1) * Wide(h), h - 1)
         /\ x < B!D => /\ B!WithoutLast(groups[x]) = KeysAfter(s + (x - 1) * Wide(h), h - 1)
                       /\ B!Last(groups[x]) = s + x * Wide(h)
<1> DEFINE g == B!createGroups(KeysAfter(s, h))[x]  W == Wide(h)  a == s + (x - 1) * W
<1>1. g = [j \in 1 .. (IF x = B!D THEN W - 1 ELSE W) |-> s + (x - 1) * W + j]
  BY ManyGroups
<1>2. W \in Nat \ {0} /\ Wide((h - 1) + 1) = W /\ B!D \in Nat
  BY WidePowers, (h - 1) + 1 = h
<1> HIDE DEF g, W
<1>3. a \in Nat /\ s + x * W = a + W
  <2>1. (x - 1) * W \in Nat /\ (x - 1) * W = x * W - W /\ x * W \in Nat
    BY <1>2
  <2> QED BY <1>2, <2>1
<1>4. KeysAfter(a, h - 1) = [j \in 1 .. W - 1 |-> a + j]
  BY <1>2 DEF KeysAfter
<1>5. CASE x = B!D
  BY <1>1, <1>4, <1>5 DEF g, W
<1>6. CASE x # B!D
  <2>1. g = [j \in 1 .. W |-> a + j]
    BY <1>1, <1>6
  <2> HIDE DEF a
  <2>2. g \in [1 .. W -> Nat]
    BY <1>2, <1>3, <2>1
  <2>3. g \in Seq(Nat) /\ Len(g) = W
    BY <1>2, <2>2, Listed
  <2>4. SubSeq(g, 1, W - 1) = [j \in 1 .. W - 1 - 1 + 1 |-> g[1 + j - 1]]
    BY <1>2, <2>3, PartOf
  <2>5. SubSeq(g, 1, W - 1) = [j \in 1 .. W - 1 |-> a + j]
    <3>1. W - 1 - 1 + 1 = W - 1
      BY <1>2
    <3>2. \A j \in 1 .. W - 1 : g[1 + j - 1] = a + j
      BY <1>2, <2>1
    <3> QED BY <2>4, <3>1, <3>2
  <2>6. B!WithoutLast(g) = KeysAfter(a, h - 1)
    BY <1>4, <2>3, <2>5 DEF B!WithoutLast, B!Front
  <2>7. B!Last(g) = a + W
    BY <1>2, <2>1, <2>3 DEF B!Last
  <2> QED BY <1>3, <1>6, <2>6, <2>7 DEF g, W, a
<1> QED BY <1>5, <1>6

(***************************************************************************)
(* The tree being made.  Every identifier handed out has a label: the      *)
(* height of its node, and the number before the first key under it.       *)
(***************************************************************************)
Label == [h : 0 .. 8, s : Nat]
ACall == [bid : Nat, input : Seq(Nat), height : Nat]
ANode == [bid : Nat, keys : Seq(Nat), kids : Seq(Nat)]

CallIs(c, L, n) ==
  /\ c.bid \in 1 .. n
  /\ c.input = KeysAfter(L[c.bid].s, L[c.bid].h) /\ c.height = L[c.bid].h

KidLabel(l, x) == [h |-> l.h - 1, s |-> l.s + (x - 1) * Wide(l.h)]

NodeIs(c, L, n) ==
  /\ c.bid \in 1 .. n
  /\ L[c.bid].h = 0 => c.keys = KeysAfter(L[c.bid].s, 0) /\ c.kids = <<>>
  /\ L[c.bid].h # 0 =>
       /\ c.keys = [x \in 1 .. B!D - 1 |-> L[c.bid].s + x * Wide(L[c.bid].h)]
       /\ \E m \in Nat : /\ m + B!D <= n /\ c.kids = [x \in 1 .. B!D |-> m + x]
                         /\ \A x \in 1 .. B!D : L[m + x] = KidLabel(L[c.bid], x)

TreeMade(L) ==
  /\ \A x \in DOMAIN calls : CallIs(calls[x], L, nextbid)
  /\ \A x \in DOMAIN sn : NodeIs(sn[x], L, nextbid)
  /\ \A b \in 1 .. nextbid : \/ \E x \in DOMAIN sn : sn[x].bid = b
                             \/ \E x \in DOMAIN calls : calls[x].bid = b

MakingInv ==
  /\ inputSize \in 1 .. 1000 /\ minHeight = B!Height(inputSize)
  /\ nextbid \in Nat \ {0} /\ calls \in Seq(ACall) /\ sn \in Seq(ANode)
  /\ \E L \in [1 .. nextbid -> Label] : TreeMade(L)

\* More identifiers change nothing for the old ones.
LEMMA LabelsGrow ==
  ASSUME NEW n \in Nat, NEW m \in Nat, n <= m, NEW L, NEW M, NEW c,
         \A b \in 1 .. n : M[b] = L[b], B!D \in Nat
  PROVE  /\ CallIs(c, L, n) => CallIs(c, M, m)
         /\ NodeIs(c, L, n) => NodeIs(c, M, m)
<1>1. CallIs(c, L, n) => CallIs(c, M, m)
  BY DEF CallIs
<1>2. ASSUME NodeIs(c, L, n) PROVE NodeIs(c, M, m)
  <2>1. c.bid \in 1 .. m /\ M[c.bid] = L[c.bid]
    BY <1>2 DEF NodeIs
  <2>2. ASSUME L[c.bid].h # 0
        PROVE  \E k \in Nat : /\ k + B!D <= m /\ c.kids = [x \in 1 .. B!D |-> k + x]
                              /\ \A x \in 1 .. B!D : M[k + x] = KidLabel(L[c.bid], x)
    <3>1. PICK k \in Nat : /\ k + B!D <= n /\ c.kids = [x \in 1 .. B!D |-> k + x]
                           /\ \A x \in 1 .. B!D : L[k + x] = KidLabel(L[c.bid], x)
      BY <1>2, <2>2 DEF NodeIs
    <3>2. \A x \in 1 .. B!D : M[k + x] = L[k + x]
      BY <3>1
    <3> QED BY <3>1, <3>2
  <2>3. ASSUME M[c.bid].h # 0
        PROVE  \E k \in Nat : /\ k + B!D <= m /\ c.kids = [x \in 1 .. B!D |-> k + x]
                              /\ \A x \in 1 .. B!D : M[k + x] = KidLabel(M[c.bid], x)
    BY <2>1, <2>2, <2>3
  <2>4. /\ M[c.bid].h = 0 => c.keys = KeysAfter(M[c.bid].s, 0) /\ c.kids = <<>>
        /\ M[c.bid].h # 0 => c.keys = [x \in 1 .. B!D - 1 |-> M[c.bid].s + x * Wide(M[c.bid].h)]
    BY <1>2, <2>1 DEF NodeIs
  <2> QED BY <2>1, <2>3, <2>4 DEF NodeIs
<1> QED BY <1>1, <1>2

LEMMA MakingInit == ASSUME B!SetupAssumption, B!Init PROVE MakingInv
<1>1. inputSize \in 1 .. 1000 /\ minHeight = B!Height(inputSize) /\ nextbid = 1 /\ sn = <<>>
  BY DEF B!Init, B!SetupAssumption
<1>2. minHeight \in 0 .. 8 /\ inputSize <= B!getMaxNodes(minHeight)
  BY <1>1, HeightIsLeast
<1>3. B!getMaxNodes(minHeight) = Wide(minHeight + 1) - 1 /\ Wide(minHeight + 1) \in Nat
  <2>1. Wide(minHeight + 1) \in Nat
    BY <1>2, WidePowers, minHeight + 1 \in 0 .. 9
  <2>2. B!getMaxNodes(minHeight) = Wide(minHeight + 1) - 1
    BY Zenon DEF B!getMaxNodes, Wide
  <2> QED BY <2>1, <2>2
<1>4. B!Padded(inputSize, minHeight) = KeysAfter(0, minHeight)
  <2> DEFINE m == B!getMaxNodes(minHeight)
  <2>1. B!Max({inputSize, m}) = m
    <3> HIDE DEF m
    <3>1. m \in Int /\ inputSize <= m
      BY <1>2, <1>3 DEF m
    <3>2. \A y \in {inputSize, m} : m >= y
      BY <1>1, <3>1
    <3>3. B!Max({inputSize, m}) \in {inputSize, m} /\ \A y \in {inputSize, m} : B!Max({inputSize, m}) >= y
      BY <3>2 DEF B!Max
    <3> QED BY <1>1, <3>1, <3>3
  <2>2. B!Padded(inputSize, minHeight) = [x \in 1 .. m |-> x]
    BY <2>1 DEF B!Padded
  <2> QED BY <1>3, <2>2 DEF KeysAfter
<1> DEFINE L == [b \in 1 .. 1 |-> [h |-> minHeight, s |-> 0]]
           c == [bid |-> 1, input |-> KeysAfter(0, minHeight), height |-> minHeight]
<1>5. calls = <<c>>
  BY <1>4 DEF B!Init
<1>6. KeysAfter(0, minHeight) \in Seq(Nat)
  <2>1. CASE minHeight = 0
    BY <2>1, OneGroup
  <2>2. CASE minHeight # 0
    <3>1. minHeight \in 1 .. 8 /\ 0 \in Nat
      BY <1>2, <2>2
    <3> QED BY Zenon, <3>1, ManyGroups
  <2> QED BY <2>1, <2>2
<1>7. L \in [1 .. nextbid -> Label]
  BY <1>1, <1>2 DEF Label
<1>8. c \in ACall /\ CallIs(c, L, nextbid)
  BY <1>1, <1>2, <1>6 DEF ACall, CallIs
<1> HIDE DEF c, L
<1>9. calls \in Seq(ACall) /\ DOMAIN calls = {1} /\ calls[1] = c /\ c.bid = 1
  <2>1. c.bid = 1
    BY DEF c
  <2> QED BY <1>5, <1>8, <2>1
<1>10. sn \in Seq(ANode) /\ DOMAIN sn = {}
  BY <1>1
<1>11. TreeMade(L)
  BY <1>1, <1>8, <1>9, <1>10 DEF TreeMade
<1> QED BY <1>1, <1>7, <1>9, <1>10, <1>11 DEF MakingInv

\* The next call.
LEMMA NextCall ==
  ASSUME B!SetupAssumption, MakingInv, calls # <<>>, NEW L \in [1 .. nextbid -> Label], TreeMade(L)
  PROVE  /\ Head(calls) \in ACall /\ Head(calls).bid \in 1 .. nextbid
         /\ Tail(calls) \in Seq(ACall)
         /\ \A x \in DOMAIN Tail(calls) : CallIs(Tail(calls)[x], L, nextbid)
         /\ \A b \in 1 .. nextbid : b # Head(calls).bid =>
              \/ \E x \in DOMAIN sn : sn[x].bid = b
              \/ \E x \in DOMAIN Tail(calls) : Tail(calls)[x].bid = b
         /\ CallIs(Head(calls), L, nextbid)
         /\ L[Head(calls).bid] \in Label
<1>1. calls \in Seq(ACall) /\ Len(calls) \in Nat \ {0} /\ DOMAIN calls = 1 .. Len(calls) /\ Head(calls) = calls[1]
  BY EmptySeq, LenProperties DEF MakingInv
<1>2. /\ Head(calls) \in ACall /\ Tail(calls) \in Seq(ACall) /\ Len(Tail(calls)) = Len(calls) - 1
      /\ \A x \in 1 .. Len(Tail(calls)) : Tail(calls)[x] = calls[x + 1]
  BY <1>1, HeadTailProperties
<1>3. DOMAIN Tail(calls) = 1 .. Len(calls) - 1
  BY <1>2, LenProperties
<1>4. CallIs(Head(calls), L, nextbid)
  BY <1>1 DEF TreeMade
<1>5. \A x \in DOMAIN Tail(calls) : CallIs(Tail(calls)[x], L, nextbid)
  BY <1>1, <1>2, <1>3 DEF TreeMade
<1>6. ASSUME NEW b \in 1 .. nextbid, b # Head(calls).bid, ~ \E x \in DOMAIN sn : sn[x].bid = b
      PROVE  \E x \in DOMAIN Tail(calls) : Tail(calls)[x].bid = b
  <2>1. PICK x \in DOMAIN calls : calls[x].bid = b
    BY <1>6 DEF TreeMade
  <2>2. x # 1 /\ x - 1 \in DOMAIN Tail(calls) /\ Tail(calls)[x - 1] = calls[(x - 1) + 1]
    BY <1>1, <1>2, <1>3, <1>6, <2>1
  <2>3. (x - 1) + 1 = x
    BY <1>1
  <2> QED BY <2>1, <2>2, <2>3
<1> QED BY <1>2, <1>4, <1>5, <1>6 DEF CallIs

\* A node is a leaf where the height is 0, and there only.
LEMMA LeafAtZero ==
  ASSUME B!SetupAssumption, NEW l \in Label
  PROVE  Len(B!createGroups(KeysAfter(l.s, l.h))) = IF l.h = 0 THEN 1 ELSE B!D
<1>1. l.h \in 0 .. 8 /\ l.s \in Nat
  BY DEF Label
<1>2. CASE l.h = 0
  <2>1. KeysAfter(l.s, l.h) = KeysAfter(l.s, 0)
    BY <1>2
  <2> QED BY <1>1, <1>2, <2>1, OneGroup
<1>3. CASE l.h # 0
  <2>1. l.h \in 1 .. 8
    BY <1>1, <1>3
  <2>2. Len(B!createGroups(KeysAfter(l.s, l.h))) = B!D
    BY Zenon, <1>1, <2>1, ManyGroups
  <2> QED BY <1>3, <2>2
<1> QED BY <1>2, <1>3

LEMMA AddNode ==
  ASSUME NEW c \in ANode, sn \in Seq(ANode), sn' = Append(sn, c)
  PROVE  /\ sn' \in Seq(ANode) /\ \A x \in DOMAIN sn' : (x \in DOMAIN sn /\ sn'[x] = sn[x]) \/ sn'[x] = c
         /\ \A x \in DOMAIN sn : x \in DOMAIN sn' /\ sn'[x] = sn[x]
         /\ \E x \in DOMAIN sn' : sn'[x] = c
<1>1. /\ sn' \in Seq(ANode) /\ Len(sn') = Len(sn) + 1 /\ \A x \in 1 .. Len(sn) : sn'[x] = sn[x]
      /\ sn'[Len(sn) + 1] = c
  BY AppendProperties
<1>2. DOMAIN sn' = 1 .. Len(sn) + 1 /\ DOMAIN sn = 1 .. Len(sn) /\ Len(sn) \in Nat
  BY <1>1, LenProperties
<1> QED BY <1>1, <1>2

LEMMA LeafInv == ASSUME B!SetupAssumption, MakingInv, B!MakeLeaf PROVE MakingInv'
<1> DEFINE call == Head(calls)  c == [bid |-> call.bid, keys |-> B!createGroups(call.input)[1], kids |-> <<>>]
<1>1. /\ calls # <<>> /\ Len(B!createGroups(call.input)) = 1 /\ sn' = Append(sn, c) /\ calls' = Tail(calls)
      /\ inputSize' = inputSize /\ minHeight' = minHeight /\ nextbid' = nextbid
  BY DEF B!MakeLeaf, B!MakeNode
<1>2. PICK L \in [1 .. nextbid -> Label] : TreeMade(L)
  BY DEF MakingInv
<1>3. /\ call \in ACall /\ call.bid \in 1 .. nextbid /\ Tail(calls) \in Seq(ACall)
      /\ \A x \in DOMAIN Tail(calls) : CallIs(Tail(calls)[x], L, nextbid)
      /\ \A b \in 1 .. nextbid : b # call.bid =>
           \/ \E x \in DOMAIN sn : sn[x].bid = b
           \/ \E x \in DOMAIN Tail(calls) : Tail(calls)[x].bid = b
      /\ CallIs(call, L, nextbid) /\ L[call.bid] \in Label
  BY <1>1, <1>2, NextCall
<1> DEFINE l == L[call.bid]
<1>4. l.h = 0 /\ call.input = KeysAfter(l.s, 0) /\ l.s \in Nat
  <2>1. call.input = KeysAfter(l.s, l.h) /\ l.s \in Nat
    BY <1>3 DEF CallIs, Label
  <2>2. 1 = IF l.h = 0 THEN 1 ELSE B!D
    BY <1>1, <1>3, <2>1, LeafAtZero
  <2>3. B!D >= 4
    BY WidePowers
  <2>4. l.h = 0
    BY <2>2, <2>3
  <2> HIDE DEF l, call
  <2> QED BY <2>1, <2>4
<1>5. B!createGroups(call.input)[1] = KeysAfter(l.s, 0) /\ KeysAfter(l.s, 0) \in Seq(Nat)
  BY <1>4, OneGroup
<1>6. c \in ANode /\ NodeIs(c, L, nextbid) /\ c.bid = call.bid
  <2> HIDE DEF call
  <2>1. <<>> \in Seq(Nat)
    BY EmptySeq
  <2> QED BY <1>3, <1>4, <1>5, <2>1 DEF ANode, ACall, NodeIs
<1>7. sn \in Seq(ANode)
  BY DEF MakingInv
<1> HIDE DEF c
<1>8. /\ sn' \in Seq(ANode) /\ \A x \in DOMAIN sn' : (x \in DOMAIN sn /\ sn'[x] = sn[x]) \/ sn'[x] = c
      /\ \A x \in DOMAIN sn : x \in DOMAIN sn' /\ sn'[x] = sn[x]
      /\ \E x \in DOMAIN sn' : sn'[x] = c
  BY <1>1, <1>6, <1>7, AddNode
<1>9. \A x \in DOMAIN sn' : NodeIs(sn'[x], L, nextbid)
  BY <1>2, <1>6, <1>8 DEF TreeMade
<1>10. ASSUME NEW b \in 1 .. nextbid
       PROVE  (\E x \in DOMAIN sn' : sn'[x].bid = b) \/ (\E x \in DOMAIN calls' : calls'[x].bid = b)
  BY <1>1, <1>3, <1>6, <1>8
<1>11. \A x \in DOMAIN calls' : CallIs(calls'[x], L, nextbid)
  BY <1>1, <1>3
<1>12. TreeMade(L)'
  BY <1>1, <1>9, <1>10, <1>11 DEF TreeMade
<1> QED BY <1>1, <1>2, <1>3, <1>8, <1>12 DEF MakingInv

\* The calls an inner node leaves to make.
CallsFor(l, n) ==
  [x \in 1 .. B!D |-> [bid |-> n + x, input |-> KeysAfter(KidLabel(l, x).s, l.h - 1), height |-> l.h - 1]]
LabelsWith(L, l, n) == [b \in 1 .. n + B!D |-> IF b <= n THEN L[b] ELSE KidLabel(l, b - n)]

LEMMA KidCalls ==
  ASSUME B!SetupAssumption, NEW n \in Nat, NEW l \in Label, l.h # 0, NEW L
  PROVE  /\ CallsFor(l, n) \in Seq(ACall) /\ Len(CallsFor(l, n)) = B!D
         /\ \A x \in 1 .. B!D : /\ KidLabel(l, x) \in Label /\ CallsFor(l, n)[x].bid = n + x
                               /\ CallIs(CallsFor(l, n)[x], LabelsWith(L, l, n), n + B!D)
<1> DEFINE f == CallsFor(l, n)  M == LabelsWith(L, l, n)
<1>1. B!D \in Nat /\ l.h - 1 \in 0 .. 8 /\ l.s \in Nat /\ l.h \in 1 .. 8 /\ Wide(l.h) \in Nat
  <2>1. l.h \in 0 .. 8 /\ l.s \in Nat
    BY DEF Label
  <2>2. l.h \in 0 .. 9
    BY <2>1
  <2>3. B!D \in Nat /\ Wide(l.h) \in Nat
    BY <2>2, WidePowers
  <2> QED BY <2>1, <2>3
<1>2. ASSUME NEW x \in 1 .. B!D
      PROVE  /\ KidLabel(l, x) \in Label /\ KidLabel(l, x).h = l.h - 1 /\ KidLabel(l, x).s \in Nat
             /\ M[n + x] = KidLabel(l, x) /\ n + x \in 1 .. n + B!D
  <2>1. (x - 1) * Wide(l.h) \in Nat
    <3> DEFINE w == Wide(l.h)
    <3>1. w \in Nat /\ x - 1 \in Nat
      BY <1>1
    <3> HIDE DEF w
    <3>2. (x - 1) * w \in Nat
      BY <3>1
    <3> QED BY <3>2 DEF w
  <2>2. KidLabel(l, x) \in Label /\ KidLabel(l, x).h = l.h - 1 /\ KidLabel(l, x).s \in Nat
    BY <1>1, <2>1 DEF KidLabel, Label
  <2>3. n + x \in 1 .. n + B!D /\ ~ (n + x <= n) /\ (n + x) - n = x
    BY <1>1
  <2>4. M[n + x] = KidLabel(l, x)
    BY <2>3 DEF LabelsWith
  <2> QED BY <2>2, <2>3, <2>4
<1>3. ASSUME NEW x \in 1 .. B!D
      PROVE  f[x] \in ACall /\ CallIs(f[x], M, n + B!D) /\ f[x].bid = n + x
  <2>1. f[x] = [bid |-> n + x, input |-> KeysAfter(KidLabel(l, x).s, l.h - 1), height |-> l.h - 1]
    BY DEF CallsFor
  <2>2. f[x].bid = n + x /\ f[x].input = KeysAfter(KidLabel(l, x).s, l.h - 1) /\ f[x].height = l.h - 1
    BY <2>1
  <2>3. KeysAfter(KidLabel(l, x).s, l.h - 1) \in Seq(Nat)
    <3>1. CASE l.h - 1 = 0
      <4>1. KeysAfter(KidLabel(l, x).s, l.h - 1) = KeysAfter(KidLabel(l, x).s, 0)
        BY <3>1
      <4> QED BY <1>2, <4>1, OneGroup
    <3>2. CASE l.h - 1 # 0
      <4>1. l.h - 1 \in 1 .. 8 /\ KidLabel(l, x).s \in Nat
        BY <1>1, <1>2, <3>2
      <4> QED BY Zenon, <4>1, ManyGroups
    <3> QED BY <3>1, <3>2
  <2>4. f[x] \in ACall
    BY <1>1, <1>2, <2>1, <2>3 DEF ACall
  <2>5. CallIs(f[x], M, n + B!D)
    BY <1>2, <2>2 DEF CallIs
  <2> QED BY <2>2, <2>4, <2>5
<1>4. f \in [1 .. B!D -> ACall]
  BY <1>3 DEF CallsFor
<1> HIDE DEF f, M
<1>5. f \in Seq(ACall) /\ Len(f) = B!D
  BY <1>1, <1>4, Listed
<1> QED BY <1>2, <1>3, <1>5 DEF f, M

LEMMA InnerInv == ASSUME B!SetupAssumption, MakingInv, B!MakeInner PROVE MakingInv'
<1> DEFINE call == Head(calls)  groups == B!createGroups(call.input)
           Input(x) == IF x = B!D THEN groups[B!D] ELSE B!WithoutLast(groups[x])
           c == [bid |-> call.bid, keys |-> [x \in 1 .. B!D - 1 |-> B!Last(groups[x])],
                 kids |-> [x \in 1 .. B!D |-> nextbid + x]]
           f == [x \in 1 .. B!D |-> [bid |-> nextbid + x, input |-> Input(x), height |-> call.height - 1]]
<1>1. /\ calls # <<>> /\ Len(groups) > 1 /\ sn' = Append(sn, c) /\ calls' = f \o Tail(calls)
      /\ inputSize' = inputSize /\ minHeight' = minHeight /\ nextbid' = nextbid + B!D
  BY Zenon DEF B!MakeInner, B!MakeNode
<1>2. PICK L \in [1 .. nextbid -> Label] : TreeMade(L)
  BY DEF MakingInv
<1>3. /\ call \in ACall /\ call.bid \in 1 .. nextbid /\ Tail(calls) \in Seq(ACall)
      /\ \A x \in DOMAIN Tail(calls) : CallIs(Tail(calls)[x], L, nextbid)
      /\ \A b \in 1 .. nextbid : b # call.bid =>
           \/ \E x \in DOMAIN sn : sn[x].bid = b
           \/ \E x \in DOMAIN Tail(calls) : Tail(calls)[x].bid = b
      /\ CallIs(call, L, nextbid) /\ L[call.bid] \in Label
  BY <1>1, <1>2, NextCall
<1> DEFINE l == L[call.bid]  n == nextbid
<1>4. /\ B!D \in Nat /\ B!D >= 4 /\ n \in Nat \ {0} /\ call.input = KeysAfter(l.s, l.h) /\ call.height = l.h
      /\ l.h \in 0 .. 8 /\ l.s \in Nat /\ l \in Label
  BY <1>3, WidePowers DEF CallIs, Label, MakingInv
<1>5. l.h # 0
  <2>1. Len(groups) = IF l.h = 0 THEN 1 ELSE B!D
    BY <1>4, LeafAtZero
  <2> HIDE DEF l, groups, call
  <2> QED BY <1>1, <2>1
<1>6. l.h \in 1 .. 8 /\ l.h - 1 \in 0 .. 8 /\ Wide(l.h) \in Nat
  <2> HIDE DEF l
  <2>1. l.h \in 0 .. 9
    BY <1>4
  <2>2. Wide(l.h) \in Nat
    BY <2>1, WidePowers
  <2> QED BY <1>4, <1>5, <2>2
<1>7. ASSUME NEW x \in 1 .. B!D
      PROVE  Input(x) = KeysAfter(KidLabel(l, x).s, l.h - 1) /\ (x < B!D => B!Last(groups[x]) = l.s + x * Wide(l.h))
  <2>1. groups = B!createGroups(KeysAfter(l.s, l.h))
    BY <1>4
  <2> HIDE DEF l, groups
  <2>2. /\ x = B!D => groups[x] = KeysAfter(l.s + (x - 1) * Wide(l.h), l.h - 1)
        /\ x < B!D => /\ B!WithoutLast(groups[x]) = KeysAfter(l.s + (x - 1) * Wide(l.h), l.h - 1)
                      /\ B!Last(groups[x]) = l.s + x * Wide(l.h)
    BY <1>4, <1>6, <2>1, GroupInputs
  <2>3. KidLabel(l, x).s = l.s + (x - 1) * Wide(l.h)
    BY DEF KidLabel
  <2>4. x < B!D \/ x = B!D
    BY <1>4
  <2> QED BY <1>4, <2>2, <2>3, <2>4
<1> DEFINE M == LabelsWith(L, l, n)
<1>8. f = CallsFor(l, n)
  <2> HIDE DEF Input, l
  <2> QED BY <1>4, <1>7 DEF CallsFor
<1>9. /\ f \in Seq(ACall) /\ Len(f) = B!D
      /\ \A x \in 1 .. B!D : KidLabel(l, x) \in Label /\ CallIs(f[x], M, n + B!D) /\ f[x].bid = n + x
  <2>1. n \in Nat /\ l \in Label /\ l.h # 0
    BY <1>4, <1>5
  <2> HIDE DEF f, l, n
  <2> QED BY Zenon, <1>8, <2>1, KidCalls DEF M
<1>10. M \in [1 .. n + B!D -> Label] /\ \A b \in 1 .. n : M[b] = L[b] /\ \A x \in 1 .. B!D : M[n + x] = KidLabel(l, x)
  <2>1. ASSUME NEW b \in 1 .. n + B!D, ~ (b <= n) PROVE b - n \in 1 .. B!D
    BY <1>4, <2>1
  <2>2. ASSUME NEW b \in 1 .. n + B!D, b <= n PROVE b \in 1 .. n
    BY <1>4, <2>2
  <2>3. ASSUME NEW x \in 1 .. B!D PROVE n + x \in 1 .. n + B!D /\ ~ (n + x <= n) /\ (n + x) - n = x
    BY <1>4
  <2>4. \A b \in 1 .. n : b \in 1 .. n + B!D /\ b <= n
    BY <1>4
  <2> HIDE DEF l, n
  <2> QED BY <1>2, <1>9, <2>1, <2>2, <2>3, <2>4 DEF n, LabelsWith
<1>11. c.keys = [x \in 1 .. B!D - 1 |-> l.s + x * Wide(l.h)]
  <2>1. \A x \in 1 .. B!D - 1 : x \in 1 .. B!D /\ x < B!D
    BY <1>4
  <2> HIDE DEF l, groups
  <2> QED BY <1>7, <2>1
<1>12. c \in ANode /\ c.bid = call.bid
  <2>1. \A x \in 1 .. B!D - 1 : l.s + x * Wide(l.h) \in Nat
    <3> HIDE DEF l
    <3> QED BY <1>4, <1>6
  <2>2. c.keys \in [1 .. B!D - 1 -> Nat] /\ B!D - 1 \in Nat
    BY <1>4, <1>11, <2>1
  <2>3. c.kids \in [1 .. B!D -> Nat] /\ B!D \in Nat
    BY <1>4
  <2>4. c.keys \in Seq(Nat) /\ c.kids \in Seq(Nat)
    <3> HIDE DEF c
    <3> QED BY <2>2, <2>3, Listed
  <2>5. call.bid \in Nat
    BY <1>3 DEF ACall
  <2> QED BY <2>4, <2>5 DEF ANode
<1>13. NodeIs(c, M, n + B!D)
  <2>1. c.bid \in 1 .. n + B!D /\ M[c.bid] = l
    BY <1>3, <1>4, <1>10, <1>12
  <2>2. c.kids = [x \in 1 .. B!D |-> n + x]
    OBVIOUS
  <2> HIDE DEF c, M, l
  <2>3. \E m \in Nat : /\ m + B!D <= n + B!D /\ c.kids = [x \in 1 .. B!D |-> m + x]
                       /\ \A x \in 1 .. B!D : M[m + x] = KidLabel(M[c.bid], x)
    <3>1. n \in Nat /\ n + B!D <= n + B!D /\ \A x \in 1 .. B!D : M[n + x] = KidLabel(M[c.bid], x)
      BY <1>4, <1>10, <2>1
    <3> HIDE DEF n
    <3> QED BY <2>2, <3>1 DEF n
  <2> QED BY <1>5, <1>11, <2>1, <2>3 DEF NodeIs
<1>14. sn \in Seq(ANode)
  BY DEF MakingInv
<1> HIDE DEF c, f, M, l
<1>15. /\ sn' \in Seq(ANode) /\ \A x \in DOMAIN sn' : (x \in DOMAIN sn /\ sn'[x] = sn[x]) \/ sn'[x] = c
       /\ \A x \in DOMAIN sn : x \in DOMAIN sn' /\ sn'[x] = sn[x]
       /\ \E x \in DOMAIN sn' : sn'[x] = c
  BY <1>1, <1>12, <1>14, AddNode
<1>16. \A y : (CallIs(y, L, n) => CallIs(y, M, n + B!D)) /\ (NodeIs(y, L, n) => NodeIs(y, M, n + B!D))
  <2>1. n \in Nat /\ n + B!D \in Nat /\ n <= n + B!D /\ B!D \in Nat /\ \A b \in 1 .. n : M[b] = L[b]
    BY <1>4, <1>10
  <2> HIDE DEF n
  <2> QED BY Zenon, <2>1, LabelsGrow
<1>17. \A x \in DOMAIN sn' : NodeIs(sn'[x], M, n + B!D)
  <2>1. \A x \in DOMAIN sn : NodeIs(sn[x], M, n + B!D)
    <3>1. \A x \in DOMAIN sn : NodeIs(sn[x], L, n)
      BY <1>2 DEF TreeMade
    <3> QED BY <1>16, <3>1
  <2> QED BY <1>13, <1>15, <2>1
<1> DEFINE t == Tail(calls)
<1>18. /\ calls' \in Seq(ACall) /\ t \in Seq(ACall) /\ Len(t) \in Nat /\ DOMAIN t = 1 .. Len(t)
       /\ DOMAIN calls' = 1 .. B!D + Len(t)
       /\ \A x \in 1 .. B!D + Len(t) : calls'[x] = IF x <= B!D THEN f[x] ELSE t[x - B!D]
  <2>1. /\ calls' \in Seq(ACall) /\ Len(calls') = Len(f) + Len(t)
        /\ \A x \in 1 .. Len(f) + Len(t) : calls'[x] = IF x <= Len(f) THEN f[x] ELSE t[x - Len(f)]
    BY <1>1, <1>3, <1>9, ConcatProperties
  <2> QED BY <1>3, <1>9, <2>1, LenProperties
<1>19. \A x \in DOMAIN calls' : CallIs(calls'[x], M, n + B!D)
  <2>1. \A x \in DOMAIN t : CallIs(t[x], M, n + B!D)
    BY <1>3, <1>16
  <2>2. ASSUME NEW x \in DOMAIN calls' PROVE CallIs(calls'[x], M, n + B!D)
    <3>1. CASE x <= B!D
      <4>1. x \in 1 .. B!D
        BY <1>4, <1>18, <3>1
      <4> QED BY <1>9, <1>18, <3>1, <4>1
    <3>2. CASE ~ (x <= B!D)
      <4>1. x - B!D \in DOMAIN t
        BY <1>4, <1>18, <3>2
      <4> QED BY <1>18, <2>1, <3>2, <4>1
    <3> QED BY <3>1, <3>2
  <2> QED BY <2>2
<1>20. ASSUME NEW b \in 1 .. n + B!D
       PROVE  (\E x \in DOMAIN sn' : sn'[x].bid = b) \/ (\E x \in DOMAIN calls' : calls'[x].bid = b)
  <2>1. CASE b = call.bid
    BY <1>12, <1>15, <2>1
  <2>2. CASE b \in 1 .. n /\ b # call.bid
    <3>1. (\E x \in DOMAIN sn : sn[x].bid = b) \/ (\E x \in DOMAIN t : t[x].bid = b)
      BY <1>3, <2>2
    <3>2. ASSUME NEW x \in DOMAIN t, t[x].bid = b PROVE \E y \in DOMAIN calls' : calls'[y].bid = b
      <4>1. x + B!D \in DOMAIN calls' /\ ~ (x + B!D <= B!D) /\ (x + B!D) - B!D = x
        BY <1>4, <1>18
      <4> QED BY <1>18, <3>2, <4>1
    <3> QED BY <1>15, <3>1, <3>2
  <2>3. CASE b > n
    <3>1. b - n \in 1 .. B!D /\ n + (b - n) = b
      BY <1>4, <2>3
    <3>2. b - n \in DOMAIN calls' /\ calls'[b - n] = f[b - n]
      BY <1>4, <1>18, <3>1
    <3> QED BY <1>9, <3>1, <3>2
  <2> QED BY <1>4, <2>1, <2>2, <2>3
<1> DEFINE q == n + B!D
<1>21. nextbid' = q /\ q \in Nat \ {0}
  BY <1>1, <1>4
<1>22. ASSUME NEW K,
              \A x \in DOMAIN calls' : CallIs(calls'[x], K, q),
              \A x \in DOMAIN sn' : NodeIs(sn'[x], K, q),
              \A b \in 1 .. q : (\E x \in DOMAIN sn' : sn'[x].bid = b) \/ (\E x \in DOMAIN calls' : calls'[x].bid = b)
       PROVE  TreeMade(K)'
  <2> HIDE DEF q
  <2> QED BY <1>21, <1>22 DEF TreeMade
<1>23. PICK K \in [1 .. q -> Label] : /\ \A x \in DOMAIN calls' : CallIs(calls'[x], K, q)
                                     /\ \A x \in DOMAIN sn' : NodeIs(sn'[x], K, q)
  BY <1>10, <1>17, <1>19
<1>24. K \in [1 .. nextbid' -> Label] /\ TreeMade(K)'
  <2> HIDE DEF q
  <2>1. TreeMade(K)'
    BY <1>20, <1>22, <1>23 DEF q
  <2> QED BY <1>21, <1>23, <2>1
<1>25. \E K2 \in [1 .. nextbid' -> Label] : TreeMade(K2)'
  BY <1>24
<1>26. (\E K2 \in [1 .. nextbid -> Label] : TreeMade(K2))'
  BY <1>25
<1> HIDE DEF q
<1> QED BY <1>1, <1>15, <1>18, <1>21, <1>26 DEF MakingInv

(***************************************************************************)
(* The tree made.                                                          *)
(***************************************************************************)
\* The calls for height 0 are those that make leaves.
LEMMA HeightsAgree == ASSUME B!SetupAssumption, MakingInv PROVE B!HeightIsReached
<1> DEFINE call == Head(calls)
<1>1. ASSUME calls # <<>>
      PROVE  /\ Len(B!createGroups(call.input)) = 1 <=> call.height = 0
             /\ Len(B!createGroups(call.input)) = 1 => Len(B!createGroups(call.input)[1]) \in T - 1 .. B!D - 1
  <2>1. PICK L \in [1 .. nextbid -> Label] : TreeMade(L)
    BY DEF MakingInv
  <2>2. CallIs(call, L, nextbid) /\ L[call.bid] \in Label
    BY <1>1, <2>1, NextCall
  <2> DEFINE l == L[call.bid]
  <2>3. call.input = KeysAfter(l.s, l.h) /\ call.height = l.h /\ l \in Label /\ l.s \in Nat /\ l.h \in 0 .. 8
    BY <2>2 DEF CallIs, Label
  <2> HIDE DEF l, call
  <2>4. Len(B!createGroups(call.input)) = IF l.h = 0 THEN 1 ELSE B!D
    BY <2>3, LeafAtZero
  <2>5. B!D \in Nat /\ B!D >= 4 /\ T \in Nat /\ T > 1 /\ B!D = 2 * T
    BY WidePowers
  <2>6. ASSUME l.h = 0 PROVE Len(B!createGroups(call.input)[1]) = B!D - 1
    <3>1. call.input = KeysAfter(l.s, 0)
      BY <2>3, <2>6
    <3> QED BY <2>3, <3>1, OneGroup
  <2>7. B!D - 1 \in T - 1 .. B!D - 1
    BY <2>5
  <2> QED BY <2>3, <2>4, <2>5, <2>6, <2>7
<1>2. minHeight > 0 => B!getMaxNodes(minHeight - 1) < inputSize
  BY HeightIsLeast DEF MakingInv
<1> QED BY <1>1, <1>2 DEF B!HeightIsReached

\* The keys of a full tree, and how its root splits them.
Under(L, b) == L[b].s + 1 .. L[b].s + (Wide(L[b].h + 1) - 1)

LEMMA KeysSplit ==
  ASSUME NEW D \in Nat, D >= 4, NEW W \in Nat \ {0}, NEW s \in Nat, NEW y
  PROVE  y \in s + 1 .. s + (D * W - 1) <=>
           \/ \E x \in 1 .. D - 1 : y = s + x * W
           \/ \E x \in 1 .. D : y \in (s + (x - 1) * W) + 1 .. (s + (x - 1) * W) + (W - 1)
<1>1. \A x \in 1 .. D : /\ x * W \in Nat /\ (x - 1) * W \in Nat /\ x * W = (x - 1) * W + W
                        /\ D * W - x * W = (D - x) * W /\ (D - x) * W \in Nat
  OBVIOUS
<1>2. D * W \in Nat
  OBVIOUS
<1>3. ASSUME NEW x \in 1 .. D - 1, y = s + x * W PROVE y \in s + 1 .. s + (D * W - 1)
  <2>1. (D - x) * W = (D - x - 1) * W + W /\ (D - x - 1) * W \in Nat
    OBVIOUS
  <2>2. x \in 1 .. D
    OBVIOUS
  <2>3. x * W < D * W /\ x * W >= W
    BY <1>1, <1>2, <2>1, <2>2
  <2> QED BY <1>1, <1>2, <1>3, <2>2, <2>3
<1>4. ASSUME NEW x \in 1 .. D, y \in (s + (x - 1) * W) + 1 .. (s + (x - 1) * W) + (W - 1)
      PROVE  y \in s + 1 .. s + (D * W - 1)
  BY <1>1, <1>2, <1>4
<1>5. ASSUME y \in s + 1 .. s + (D * W - 1)
      PROVE  \/ \E x \in 1 .. D - 1 : y = s + x * W
             \/ \E x \in 1 .. D : y \in (s + (x - 1) * W) + 1 .. (s + (x - 1) * W) + (W - 1)
  <2> DEFINE q == (y - s) \div W
  <2>1. y \in Nat /\ y - s \in Nat /\ y - s >= 1 /\ y - s < D * W
    BY <1>2, <1>5
  <2>2. q \in Nat /\ W * q <= y - s /\ y - s < W * q + W
    BY <2>1, Division
  <2> HIDE DEF q
  <2>3. W * q = q * W /\ q * W \in Nat /\ (q + 1) * W = q * W + W
    BY <2>2
  <2>4. q < D
    <3>1. ASSUME q >= D PROVE FALSE
      <4>1. (q - D) * W >= 0 /\ (q - D) * W = q * W - D * W
        BY <2>2, <3>1
      <4> QED BY <1>2, <2>1, <2>2, <2>3, <4>1
    <3> QED BY <2>2, <3>1
  <2>5. CASE y - s = q * W
    <3>1. q # 0
      BY <2>1, <2>5
    <3> QED BY <2>1, <2>2, <2>3, <2>4, <2>5, <3>1, q \in 1 .. D - 1
  <2>6. CASE y - s # q * W
    <3>1. q + 1 \in 1 .. D /\ (q + 1) - 1 = q
      BY <2>2, <2>4
    <3>2. y \in (s + q * W) + 1 .. (s + q * W) + (W - 1)
      BY <2>1, <2>2, <2>3, <2>6
    <3> QED BY <3>1, <3>2
  <2> QED BY <2>5, <2>6
<1> QED BY <1>3, <1>4, <1>5

\* What a node of a given label holds, and what is under its children.
LEMMA NodeOfLabel ==
  ASSUME B!SetupAssumption, NEW n \in Nat, NEW L \in [1 .. n -> Label], NEW c, NodeIs(c, L, n)
  PROVE  /\ B!Range(c.kids) \subseteq 1 .. n
         /\ \A k \in B!Range(c.kids) : L[k].h < L[c.bid].h
         /\ Under(L, c.bid) = B!Range(c.keys) \cup UNION {Under(L, k) : k \in B!Range(c.kids)}
         /\ c.kids # <<>> =>
              \A x \in DOMAIN c.keys :
                /\ c.keys[x] \in Nat
                /\ c.kids[x] \in 1 .. n /\ c.kids[x + 1] \in 1 .. n
                /\ \A k \in Under(L, c.kids[x]) : k < c.keys[x]
                /\ \A k \in Under(L, c.kids[x + 1]) : k > c.keys[x]
<1> DEFINE l == L[c.bid]
<1>1. l \in Label /\ l.h \in 0 .. 8 /\ l.s \in Nat /\ B!D \in Nat /\ B!D >= 4 /\ c.bid \in 1 .. n
  BY WidePowers DEF NodeIs, Label
<1>2. CASE l.h = 0
  <2>1. c.keys = KeysAfter(l.s, 0) /\ c.kids = <<>> /\ Under(L, c.bid) = l.s + 1 .. l.s + (Wide(0 + 1) - 1)
    BY <1>2 DEF NodeIs, Under
  <2>2. Wide(0 + 1) \in Nat /\ 0 + 1 \in 0 .. 9
    BY WidePowers, 0 + 1 \in 0 .. 9
  <2> HIDE DEF l
  <2> DEFINE W == Wide(0 + 1)
  <2>3. c.keys = [j \in 1 .. W - 1 |-> l.s + j] /\ W \in Nat
    BY <2>1, <2>2 DEF KeysAfter
  <2> HIDE DEF W
  <2>4. B!Range(c.keys) = {l.s + j : j \in 1 .. W - 1}
    BY <2>3 DEF B!Range
  <2>5. {l.s + j : j \in 1 .. W - 1} = l.s + 1 .. l.s + (W - 1)
    <3>1. ASSUME NEW y \in l.s + 1 .. l.s + (W - 1) PROVE y \in {l.s + j : j \in 1 .. W - 1}
      <4>1. y - l.s \in 1 .. W - 1 /\ l.s + (y - l.s) = y
        BY <1>1, <2>3
      <4> QED BY <4>1
    <3>2. \A j \in 1 .. W - 1 : l.s + j \in l.s + 1 .. l.s + (W - 1)
      BY <1>1, <2>3
    <3> QED BY <3>1, <3>2
  <2>6. B!Range(c.kids) = {}
    BY <2>1 DEF B!Range
  <2> QED BY <2>1, <2>4, <2>5, <2>6 DEF W
<1>3. CASE l.h # 0
  <2> DEFINE W == Wide(l.h)
  <2>1. /\ W \in Nat \ {0} /\ Wide(l.h + 1) = B!D * W
    <3>1. l.h \in 0 .. 9 /\ l.h \in 0 .. 8
      BY <1>1
    <3> HIDE DEF l
    <3> QED BY <3>1, WidePowers
  <2>2. c.keys = [x \in 1 .. B!D - 1 |-> l.s + x * W]
    BY <1>3 DEF NodeIs
  <2>3. PICK m \in Nat : /\ m + B!D <= n /\ c.kids = [x \in 1 .. B!D |-> m + x]
                         /\ \A x \in 1 .. B!D : L[m + x] = KidLabel(l, x)
    BY <1>3 DEF NodeIs
  <2> DEFINE At(x) == (l.s + (x - 1) * W) + 1 .. (l.s + (x - 1) * W) + (W - 1)
  <2>4. ASSUME NEW x \in 1 .. B!D
        PROVE  m + x \in 1 .. n /\ L[m + x].h < l.h /\ Under(L, m + x) = At(x)
    <3>1. L[m + x].h = l.h - 1 /\ L[m + x].s = l.s + (x - 1) * W
      <4>1. L[m + x] = KidLabel(l, x)
        BY <2>3
      <4> HIDE DEF l
      <4>2. KidLabel(l, x).h = l.h - 1 /\ KidLabel(l, x).s = l.s + (x - 1) * W
        BY DEF KidLabel
      <4> QED BY <4>1, <4>2
    <3>2. (l.h - 1) + 1 = l.h
      BY <1>1
    <3>3. m + x \in 1 .. n
      BY <1>1, <2>3
    <3> HIDE DEF l
    <3>4. Under(L, m + x) = At(x)
      BY <3>1, <3>2 DEF Under
    <3> QED BY <1>1, <3>1, <3>3, <3>4
  <2>5. Under(L, c.bid) = l.s + 1 .. l.s + (B!D * W - 1)
    BY <2>1 DEF Under
  <2> HIDE DEF l, W, At
  <2>6. /\ B!Range(c.kids) = {m + x : x \in 1 .. B!D}
        /\ B!Range(c.keys) = {l.s + x * W : x \in 1 .. B!D - 1}
    BY <2>2, <2>3 DEF B!Range
  <2>7. ASSUME NEW y
        PROVE  y \in Under(L, c.bid) <=> y \in B!Range(c.keys) \cup UNION {Under(L, k) : k \in B!Range(c.kids)}
    <3>1. y \in Under(L, c.bid) <=> (\E x \in 1 .. B!D - 1 : y = l.s + x * W) \/ (\E x \in 1 .. B!D : y \in At(x))
      BY <1>1, <2>1, <2>5, KeysSplit DEF At
    <3>2. (\E x \in 1 .. B!D - 1 : y = l.s + x * W) <=> y \in B!Range(c.keys)
      BY <2>6
    <3>3. (\E x \in 1 .. B!D : y \in At(x)) <=> y \in UNION {Under(L, k) : k \in B!Range(c.kids)}
      BY <2>4, <2>6
    <3> QED BY <3>1, <3>2, <3>3
  <2>8. ASSUME NEW x \in DOMAIN c.keys
        PROVE  /\ c.keys[x] \in Nat /\ c.kids[x] \in 1 .. n /\ c.kids[x + 1] \in 1 .. n
               /\ \A k \in Under(L, c.kids[x]) : k < c.keys[x]
               /\ \A k \in Under(L, c.kids[x + 1]) : k > c.keys[x]
    <3>1. x \in 1 .. B!D - 1 /\ x \in 1 .. B!D /\ x + 1 \in 1 .. B!D /\ (x + 1) - 1 = x
      BY <1>1, <2>2
    <3>2. /\ c.keys[x] = l.s + x * W /\ c.kids[x] = m + x /\ c.kids[x + 1] = m + (x + 1)
          /\ x * W \in Nat /\ (x - 1) * W \in Nat /\ x * W = (x - 1) * W + W
      <4>1. c.keys[x] = l.s + x * W
        BY <2>2, <3>1
      <4>2. c.kids[x] = m + x /\ c.kids[x + 1] = m + (x + 1)
        BY <2>3, <3>1
      <4>3. x * W \in Nat /\ (x - 1) * W \in Nat /\ x * W = (x - 1) * W + W
        BY <1>1, <2>1, <3>1
      <4> QED BY <4>1, <4>2, <4>3
    <3>3. c.kids[x] \in 1 .. n /\ c.kids[x + 1] \in 1 .. n
          /\ Under(L, c.kids[x]) = At(x) /\ Under(L, c.kids[x + 1]) = At(x + 1)
      BY <2>4, <3>1, <3>2
    <3>4. \A k \in At(x) : k < l.s + x * W
      BY <1>1, <2>1, <3>2 DEF At
    <3>5. \A k \in At(x + 1) : k > l.s + x * W
      <4>1. At(x + 1) = (l.s + x * W) + 1 .. (l.s + x * W) + (W - 1)
        BY <3>1 DEF At
      <4>2. l.s + x * W \in Nat
        BY <1>1, <3>2
      <4> QED BY <2>1, <4>1, <4>2
    <3> QED BY <1>1, <3>2, <3>3, <3>4, <3>5
  <2>9. \A k \in B!Range(c.kids) : k \in 1 .. n /\ L[k].h < l.h
    BY <2>4, <2>6
  <2> QED BY <2>7, <2>8, <2>9 DEF l
<1> QED BY <1>2, <1>3

\* The recursion of keysUnder finds them.
LEMMA KeysUnderAre ==
  ASSUME B!SetupAssumption, MakingInv, calls = <<>>, NEW L \in [1 .. nextbid -> Label], TreeMade(L)
  PROVE  \A b \in 1 .. nextbid : B!keysUnder[b] = Under(L, b)
<1> DEFINE Bid == 1 .. nextbid  c(b) == B!NodeOf(b)
           P(g) == g = [bid \in Bid |-> B!Range(c(bid).keys) \cup UNION {g[k] : k \in B!Range(c(bid).kids)}]
           w == [b \in Bid |-> Under(L, b)]
<1>1. ASSUME NEW b \in Bid PROVE NodeIs(c(b), L, nextbid) /\ c(b).bid = b
  <2>1. DOMAIN calls = {}
    BY EmptySeq, LenProperties
  <2>2. \E x \in DOMAIN sn : sn[x].bid = b
    BY <2>1 DEF TreeMade
  <2> DEFINE x == CHOOSE j \in DOMAIN sn : sn[j].bid = b
  <2>3. x \in DOMAIN sn /\ sn[x].bid = b
    BY <2>2
  <2>4. c(b) = sn[x]
    BY DEF B!NodeOf
  <2> HIDE DEF x, c
  <2> QED BY <2>3, <2>4 DEF TreeMade
<1> HIDE DEF c
<1>2. nextbid \in Nat
  BY DEF MakingInv
<1>3. ASSUME NEW b \in Bid
      PROVE  /\ B!Range(c(b).kids) \subseteq Bid
             /\ \A k \in B!Range(c(b).kids) : L[k].h < L[b].h
             /\ Under(L, b) = B!Range(c(b).keys) \cup UNION {Under(L, k) : k \in B!Range(c(b).kids)}
  <2>1. NodeIs(c(b), L, nextbid) /\ c(b).bid = b
    BY <1>1
  <2>2. /\ B!Range(c(b).kids) \subseteq 1 .. nextbid
        /\ \A k \in B!Range(c(b).kids) : L[k].h < L[c(b).bid].h
        /\ Under(L, c(b).bid) = B!Range(c(b).keys) \cup UNION {Under(L, k) : k \in B!Range(c(b).kids)}
    BY Zenon, <1>2, <2>1, NodeOfLabel
  <2> QED BY <2>1, <2>2
<1>4. P(w)
  <2>1. ASSUME NEW b \in Bid
        PROVE  w[b] = B!Range(c(b).keys) \cup UNION {w[k] : k \in B!Range(c(b).kids)}
    <3>1. UNION {w[k] : k \in B!Range(c(b).kids)} = UNION {Under(L, k) : k \in B!Range(c(b).kids)}
      BY <1>3
    <3> QED BY <1>3, <3>1
  <2>2. w = [b \in Bid |-> w[b]]
    OBVIOUS
  <2> HIDE DEF w, Bid
  <2> QED BY <2>1, <2>2
<1>5. P(B!keysUnder)
  <2> HIDE DEF w
  <2>1. \E g : P(g)
    BY <1>4
  <2>2. B!keysUnder = CHOOSE g : P(g)
    BY DEF B!keysUnder, c
  <2> HIDE DEF P
  <2> QED BY <2>1, <2>2
<1>6. ASSUME NEW b \in Bid
      PROVE  B!keysUnder[b] = B!Range(c(b).keys) \cup UNION {B!keysUnder[k] : k \in B!Range(c(b).kids)}
  <2> HIDE DEF Bid
  <2> QED BY <1>5
<1> HIDE DEF P, w
<1> DEFINE Bad == {b \in Bid : B!keysUnder[b] # Under(L, b)}  S == {L[b].h : b \in Bad}
<1>7. Bad = {}
  <2>1. SUFFICES ASSUME Bad # {} PROVE FALSE
    OBVIOUS
  <2>2. S \subseteq Nat /\ S # {}
    BY <2>1 DEF Label
  <2>3. PICK h \in S : \A m \in S : h <= m
    <3> HIDE DEF S
    <3> QED BY <2>2, LeastNatural
  <2>4. PICK b \in Bad : L[b].h = h
    BY <2>3
  <2>5. ASSUME NEW k \in B!Range(c(b).kids) PROVE B!keysUnder[k] = Under(L, k)
    <3>1. k \in Bid /\ L[k].h < h
      BY <1>3, <2>4
    <3>2. k \notin Bad
      <4>1. ASSUME k \in Bad PROVE FALSE
        <5>1. h <= L[k].h /\ L[k].h \in Nat /\ h \in Nat
          BY <2>2, <2>3, <4>1
        <5> QED BY <3>1, <5>1
      <4> QED BY <4>1
    <3> QED BY <3>1, <3>2
  <2>6. B!keysUnder[b] = Under(L, b)
    <3>1. UNION {B!keysUnder[k] : k \in B!Range(c(b).kids)} = UNION {Under(L, k) : k \in B!Range(c(b).kids)}
      BY <2>5
    <3>2. b \in Bid
      OBVIOUS
    <3> HIDE DEF Bid, Bad
    <3> QED BY <1>3, <1>6, <3>1, <3>2
  <2> HIDE DEF Bid
  <2> QED BY <2>6
<1> QED BY <1>7

\* So the tree is a search tree.
LEMMA SearchesGoDown == ASSUME B!SetupAssumption, MakingInv PROVE B!SearchTree
<1> SUFFICES ASSUME calls = <<>>, NEW n \in B!Range(sn), n.kids # <<>>, NEW x \in DOMAIN n.keys
             PROVE  /\ \A k \in B!keysUnder[n.kids[x]] : k < n.keys[x]
                    /\ \A k \in B!keysUnder[n.kids[x + 1]] : k > n.keys[x]
  BY DEF B!SearchTree
<1>1. PICK L \in [1 .. nextbid -> Label] : TreeMade(L)
  BY DEF MakingInv
<1>2. NodeIs(n, L, nextbid) /\ nextbid \in Nat
  BY <1>1 DEF TreeMade, MakingInv, B!Range
<1>3. /\ n.kids[x] \in 1 .. nextbid /\ n.kids[x + 1] \in 1 .. nextbid
      /\ \A k \in Under(L, n.kids[x]) : k < n.keys[x]
      /\ \A k \in Under(L, n.kids[x + 1]) : k > n.keys[x]
  BY Zenon, <1>2, NodeOfLabel
<1>4. \A b \in 1 .. nextbid : B!keysUnder[b] = Under(L, b)
  BY <1>1, KeysUnderAre
<1> QED BY <1>3, <1>4

\* createBTreeNode(), from any number of entries, makes a search tree whose
\* leaves are all at the height setupInsert() computes, the least that holds
\* the entries.
THEOREM SetupMakesTheTree == Spec => []TreeIsMade
<1>1. B!SetupAssumption
  BY MCSetupsAssumption
<1>2. ASSUME Init PROVE layout = "btree" => MakingInv
  BY <1>1, <1>2, MakingInit DEF Init
<1>3. ASSUME layout = "btree" => MakingInv, [Next]_vars PROVE (layout = "btree" => MakingInv)'
  <2>1. CASE layout = "btree" /\ layout' = "btree" /\ B!Step
    BY <1>1, <1>3, <2>1, LeafInv, InnerInv DEF B!Step
  <2>2. CASE layout' = layout /\ UNCHANGED btreeVars
    BY <1>3, <2>2 DEF btreeVars, MakingInv, TreeMade
  <2> QED BY <1>3, <2>1, <2>2 DEF Next, vars
<1>4. ASSUME layout = "btree" => MakingInv PROVE TreeIsMade
  BY <1>1, <1>4, HeightsAgree, SearchesGoDown DEF TreeIsMade
<1> QED BY <1>2, <1>3, <1>4, PTL DEF Spec
=============================================================================

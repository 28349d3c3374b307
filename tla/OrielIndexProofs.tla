-------------------------- MODULE OrielIndexProofs --------------------------
(***************************************************************************)
(* Proofs about OrielIndex, for every bound on files, words and accesses:  *)
(* in both modes every file is at the address its access count gives,      *)
(* whichever searches have moved it.                                       *)
(*                                                                         *)
(* The invariant says which ids the packed blocks of a word hold, each at  *)
(* one place; from it follow the files a search meets, and that moving     *)
(* them keeps blocks and counts together.                                  *)
(***************************************************************************)
EXTENDS OrielIndex, FiniteSetTheorems, WellFoundedInduction, TLAPS

(***************************************************************************)
(* The place of the n-th id: position get_position(n) of block             *)
(* get_block_num(n).                                                       *)
(***************************************************************************)
LEMMA QuotientOf ==
  ASSUME NEW a \in Nat \ {0}, NEW n \in Nat
  PROVE  /\ n \div a \in Nat /\ n % a \in 0 .. a - 1
         /\ n = (n \div a) * a + (n % a)
BY SMTT(30)

LEMMA Products ==
  ASSUME NEW a \in Nat \ {0}, NEW m \in Nat, NEW n \in Nat, m < n
  PROVE  m * a + a <= n * a /\ m * a \in Nat /\ n * a \in Nat
<1>1. (n - m) * a >= a
  BY n - m >= 1, SMTT(30)
<1>2. (n - m) * a = n * a - m * a
  BY SMTT(30)
<1>3. m * a \in Nat /\ n * a \in Nat
  BY SMTT(30)
<1> QED BY <1>1, <1>2, <1>3

\* Every number is that of one place.
LEMMA PlaceOf ==
  ASSUME OrielAssumption, NEW n \in Nat \ {0}
  PROVE  /\ get_block_num(n) \in Nat \ {0} /\ get_position(n) \in 1 .. COM
         /\ n = (get_block_num(n) - 1) * COM + get_position(n)
<1> DEFINE q == n \div COM
           r == n % COM
<1>1. COM \in Nat \ {0}
  BY DEF OrielAssumption
<1>2. q \in Nat /\ r \in 0 .. COM - 1 /\ n = q * COM + r
  BY <1>1, QuotientOf
<1>3. CASE r = 0
  <2>1. get_block_num(n) = q /\ get_position(n) = COM
    BY <1>3 DEF get_block_num, get_position
  <2> HIDE DEF q, r
  <2>2. q # 0
    BY <1>1, <1>2, <1>3
  <2>3. (q - 1) * COM = q * COM - COM
    BY <1>1, <1>2, SMTT(30)
  <2>4. q * COM \in Nat
    BY <1>1, <1>2
  <2> QED BY <1>1, <1>2, <1>3, <2>1, <2>2, <2>3, <2>4
<1>4. CASE r # 0
  <2>1. get_block_num(n) = q + 1 /\ get_position(n) = r
    BY <1>4 DEF get_block_num, get_position
  <2> HIDE DEF q, r
  <2>2. (q + 1) - 1 = q /\ ((q + 1) - 1) * COM = q * COM
    BY <1>2
  <2>3. (get_block_num(n) - 1) * COM = q * COM
    BY <2>1, <2>2
  <2>4. get_block_num(n) \in Nat \ {0} /\ get_position(n) \in 1 .. COM
    BY <1>1, <1>2, <1>4, <2>1
  <2> QED BY <1>2, <2>1, <2>3, <2>4
<1> QED BY <1>3, <1>4

LEMMA OnePlace ==
  ASSUME OrielAssumption, NEW b \in Nat \ {0}, NEW i \in 1 .. COM, NEW n, n = (b - 1) * COM + i
  PROVE  n \in Nat \ {0} /\ get_block_num(n) = b /\ get_position(n) = i
<1> DEFINE d == get_block_num(n)
           j == get_position(n)
<1>1. COM \in Nat \ {0} /\ (b - 1) * COM \in Nat
  BY DEF OrielAssumption
<1>2. n \in Nat \ {0}
  BY <1>1
<1>3. d \in Nat \ {0} /\ j \in 1 .. COM /\ n = (d - 1) * COM + j
  BY <1>2, PlaceOf
<1> HIDE DEF d, j
<1>4. ~ (d < b)
  <2> SUFFICES ASSUME d < b PROVE FALSE
    OBVIOUS
  <2>1. (d - 1) * COM + COM <= (b - 1) * COM /\ (d - 1) * COM \in Nat
    BY <1>1, <1>3, Products, d - 1 \in Nat, b - 1 \in Nat, d - 1 < b - 1
  <2> QED BY <1>1, <1>3, <2>1
<1>5. ~ (b < d)
  <2> SUFFICES ASSUME b < d PROVE FALSE
    OBVIOUS
  <2>1. (b - 1) * COM + COM <= (d - 1) * COM /\ (d - 1) * COM \in Nat
    BY <1>1, <1>3, Products, d - 1 \in Nat, b - 1 \in Nat, b - 1 < d - 1
  <2> QED BY <1>1, <1>3, <2>1
<1>6. d = b
  BY <1>3, <1>4, <1>5
<1>7. j = i
  BY <1>1, <1>3, <1>6
<1> QED BY <1>2, <1>6, <1>7 DEF d, j

\* How many blocks there are, and what one more id adds.
LEMMA BlockCount ==
  ASSUME OrielAssumption, NEW c \in Nat
  PROVE  /\ get_block_num(c) \in Nat /\ COM * get_block_num(c) \in Nat /\ c <= COM * get_block_num(c)
         /\ \A n \in Nat \ {0} : get_block_num(n) <= get_block_num(c) <=> n <= COM * get_block_num(c)
         /\ \A n \in 1 .. c : get_block_num(n) \in 1 .. get_block_num(c)
         /\ get_block_num(c + 1) = IF get_position(c + 1) = 1 THEN get_block_num(c) + 1
                                   ELSE get_block_num(c)
<1> DEFINE m == get_block_num(c)
<1>1. COM \in Nat \ {0}
  BY DEF OrielAssumption
<1>2. m \in Nat /\ c <= m * COM /\ m * COM \in Nat
  <2>1. CASE c = 0
    <3>1. c % COM = 0 /\ c \div COM = 0
      BY <1>1, <2>1, SMTT(30)
    <3>2. m = 0
      BY <3>1 DEF get_block_num
    <3> QED BY <1>1, <2>1, <3>2
  <2>2. CASE c # 0
    <3>1. m \in Nat \ {0} /\ get_position(c) \in 1 .. COM /\ c = (m - 1) * COM + get_position(c)
      BY <2>2, PlaceOf
    <3> HIDE DEF m
    <3>2. (m - 1) * COM + COM <= m * COM /\ m * COM \in Nat /\ (m - 1) * COM \in Nat
      BY <1>1, <3>1, Products, m - 1 \in Nat, m - 1 < m
    <3> QED BY <1>1, <3>1, <3>2
  <2> QED BY <2>1, <2>2
<1>3. COM * m = m * COM
  BY <1>1, <1>2, SMTT(30)
<1>4. ASSUME NEW n \in Nat \ {0} PROVE get_block_num(n) <= m <=> n <= m * COM
  <2> DEFINE d == get_block_num(n)
  <2>1. d \in Nat \ {0} /\ get_position(n) \in 1 .. COM /\ n = (d - 1) * COM + get_position(n)
    BY PlaceOf
  <2> HIDE DEF d, m
  <2>2. ASSUME d <= m PROVE n <= m * COM
    <3>1. (d - 1) * COM + COM <= m * COM /\ (d - 1) * COM \in Nat
      BY <1>1, <1>2, <2>1, <2>2, Products, d - 1 \in Nat, d - 1 < m
    <3> QED BY <1>1, <1>2, <2>1, <3>1
  <2>3. ASSUME m < d PROVE m * COM < n
    <3>1. CASE m = d - 1
      BY <1>1, <1>2, <2>1, <3>1
    <3>2. CASE m # d - 1
      <4>1. m * COM + COM <= (d - 1) * COM /\ (d - 1) * COM \in Nat
        BY <1>1, <1>2, <2>1, <2>3, <3>2, Products, d - 1 \in Nat, m < d - 1
      <4> QED BY <1>1, <1>2, <2>1, <4>1
    <3> QED BY <3>1, <3>2
  <2>4. d <= m <=> n <= m * COM
    BY <1>2, <2>1, <2>2, <2>3
  <2> QED BY <2>4 DEF d
<1>5. ASSUME NEW n \in 1 .. c PROVE get_block_num(n) \in 1 .. m
  <2>1. get_block_num(n) \in Nat \ {0}
    BY PlaceOf, n \in Nat \ {0}
  <2>2. get_block_num(n) <= m
    BY <1>2, <1>4, n \in Nat \ {0}
  <2> QED BY <1>2, <2>1, <2>2
<1>6. get_block_num(c + 1) = IF get_position(c + 1) = 1 THEN m + 1 ELSE m
  <2> DEFINE d == get_block_num(c + 1)
             i == get_position(c + 1)
  <2>1. d \in Nat \ {0} /\ i \in 1 .. COM /\ c + 1 = (d - 1) * COM + i
    BY PlaceOf, c + 1 \in Nat \ {0}
  <2>2. ASSUME i # 1 PROVE m = d
    <3> HIDE DEF d, i
    <3>1. c = (d - 1) * COM + (i - 1) /\ i - 1 \in 1 .. COM
      BY <1>1, <2>1, <2>2
    <3> QED BY <2>1, <3>1, OnePlace
  <2>3. ASSUME i = 1, d = 1 PROVE m = 0
    <3>1. c = 0
      BY <1>1, <2>1, <2>3
    <3>2. c % COM = 0 /\ c \div COM = 0
      BY <1>1, <3>1, SMTT(30)
    <3> QED BY <3>2 DEF get_block_num
  <2>4. ASSUME i = 1, d # 1 PROVE m = d - 1
    <3> HIDE DEF d, i
    <3>1. (d - 1) * COM = ((d - 1) - 1) * COM + COM
      BY <1>1, <2>1, SMTT(30)
    <3> DEFINE e == d - 1
    <3>2. c = (e - 1) * COM + COM /\ e \in Nat \ {0} /\ COM \in 1 .. COM
      BY <1>1, <2>1, <2>4, <3>1
    <3> HIDE DEF e
    <3>3. m = e
      BY <3>2, OnePlace
    <3> QED BY <3>3 DEF e
  <2> HIDE DEF d, i, m
  <2>5. d = IF i = 1 THEN m + 1 ELSE m
    BY <2>1, <2>2, <2>3, <2>4
  <2> QED BY <2>5 DEF d, i
<1> QED BY <1>2, <1>3, <1>4, <1>5, <1>6

(***************************************************************************)
(* The ids of the set ids, packed into blocks: each at one place, the      *)
(* places after them free.                                                 *)
(***************************************************************************)
IdAt(blocks, n) == blocks[get_block_num(n)][get_position(n)]

PackedAs(blocks, count, ids) ==
  /\ count \in Nat /\ IsFiniteSet(ids) /\ Cardinality(ids) = count /\ Pad \notin ids
  /\ DOMAIN blocks = 1 .. get_block_num(count)
  /\ \A b \in DOMAIN blocks : blocks[b] = [i \in 1 .. COM |-> blocks[b][i]]
  /\ \A n \in 1 .. count : IdAt(blocks, n) \in ids
  /\ \A n \in 1 .. COM * get_block_num(count) : n > count => IdAt(blocks, n) = Pad
  /\ \A f \in ids : \E n \in 1 .. count : IdAt(blocks, n) = f
  /\ \A m, n \in 1 .. count : IdAt(blocks, m) = IdAt(blocks, n) => m = n

LEMMA NonePacked ==
  ASSUME OrielAssumption, NEW blocks, DOMAIN blocks = {}
  PROVE  PackedAs(blocks, 0, {}) /\ get_block_num(0) = 0
<1>1. 0 % COM = 0 /\ 0 \div COM = 0 /\ COM \in Nat \ {0}
  BY SMTT(30) DEF OrielAssumption
<1>2. get_block_num(0) = 0 /\ COM * 0 = 0
  BY <1>1 DEF get_block_num
<1>3. 1 .. 0 = {}
  OBVIOUS
<1> QED BY <1>2, <1>3, FS_EmptySet DEF PackedAs

\* One more id, in its place of the last block or of a new one.
LEMMA OneMorePacked ==
  ASSUME OrielAssumption, NEW blocks, NEW count, NEW ids, PackedAs(blocks, count, ids),
         NEW f, f \notin ids, f # Pad, NEW more,
         DOMAIN more = 1 .. get_block_num(count + 1),
         \A b \in DOMAIN more : more[b] =
           IF b = get_block_num(count + 1)
           THEN [(IF get_position(count + 1) = 1 THEN [i \in 1 .. COM |-> Pad] ELSE blocks[b])
                   EXCEPT ![get_position(count + 1)] = f]
           ELSE blocks[b]
  PROVE  PackedAs(more, count + 1, ids \cup {f})
<1> DEFINE q == get_block_num(count + 1)
           p == get_position(count + 1)
<1>1. count \in Nat /\ count + 1 \in Nat \ {0} /\ COM \in Nat \ {0}
  BY DEF PackedAs, OrielAssumption
<1>2. /\ q \in Nat \ {0} /\ p \in 1 .. COM /\ count + 1 = (q - 1) * COM + p
  BY <1>1, PlaceOf
<1>3. /\ q = IF p = 1 THEN get_block_num(count) + 1 ELSE get_block_num(count)
      /\ get_block_num(count) \in Nat
  BY <1>1, BlockCount
<1>4. DOMAIN blocks = 1 .. get_block_num(count) /\ DOMAIN more = 1 .. q
  BY DEF PackedAs
<1>5. \A b \in 1 .. q : b # q => more[b] = blocks[b] /\ b \in DOMAIN blocks
  BY <1>2, <1>3, <1>4
<1>6. \A b \in DOMAIN blocks : blocks[b] = [i \in 1 .. COM |-> blocks[b][i]]
  BY DEF PackedAs
<1>7. /\ more[q] = [i \in 1 .. COM |-> more[q][i]] /\ more[q][p] = f
      /\ \A i \in 1 .. COM : i # p => more[q][i] = IF p = 1 THEN Pad ELSE blocks[q][i]
  <2>1. q \in DOMAIN more
    BY <1>2, <1>4
  <2>2. CASE p = 1
    <3>1. more[q] = [[i \in 1 .. COM |-> Pad] EXCEPT ![p] = f]
      BY <2>1, <2>2
    <3> HIDE DEF p, q
    <3> QED BY <1>2, <2>2, <3>1
  <2>3. CASE p # 1
    <3>1. more[q] = [blocks[q] EXCEPT ![p] = f]
      BY <2>1, <2>3
    <3> HIDE DEF p, q
    <3>3. q \in DOMAIN blocks
      BY <1>2, <1>3, <1>4, <2>3
    <3>2. blocks[q] = [i \in 1 .. COM |-> blocks[q][i]]
      BY <1>6, <3>3
    <3> QED BY <1>2, <2>3, <3>1, <3>2
  <2> QED BY <2>2, <2>3
<1> HIDE DEF p, q
<1>8. \A b \in DOMAIN more : more[b] = [i \in 1 .. COM |-> more[b][i]]
  <2> SUFFICES ASSUME NEW b \in DOMAIN more PROVE more[b] = [i \in 1 .. COM |-> more[b][i]]
    OBVIOUS
  <2>1. CASE b = q
    BY <1>7, <2>1
  <2>2. CASE b # q
    <3>1. b \in DOMAIN blocks /\ more[b] = blocks[b]
      BY <1>4, <1>5, <2>2
    <3>2. blocks[b] = [i \in 1 .. COM |-> blocks[b][i]]
      BY <1>6, <3>1
    <3> QED BY <3>1, <3>2
  <2> QED BY <2>1, <2>2
<1>9. IdAt(more, count + 1) = f
  BY <1>7 DEF IdAt, p, q
<1>11. /\ count <= COM * get_block_num(count) /\ COM * get_block_num(count) \in Nat
       /\ count + 1 <= COM * q /\ COM * q \in Nat
  BY <1>1, BlockCount DEF q
\* The places before the new one are those they were.
<1>10. ASSUME NEW n \in 1 .. COM * q, n # count + 1
       PROVE  IdAt(more, n) = IF n <= COM * get_block_num(count) THEN IdAt(blocks, n) ELSE Pad
  <2>1. /\ n \in Nat \ {0} /\ get_block_num(n) \in Nat \ {0} /\ get_position(n) \in 1 .. COM
        /\ n = (get_block_num(n) - 1) * COM + get_position(n)
    <3>1. n \in Nat \ {0}
      BY <1>11
    <3> QED BY <3>1, PlaceOf
  <2>2. get_block_num(n) \in 1 .. q
    <3>1. n <= COM * q
      OBVIOUS
    <3>2. get_block_num(n) <= q
      BY <1>1, <2>1, <3>1, BlockCount DEF q
    <3> QED BY <1>2, <2>1, <3>2
  <2>3. CASE get_block_num(n) # q
    <3>1. get_block_num(n) \in DOMAIN blocks /\ more[get_block_num(n)] = blocks[get_block_num(n)]
      BY <1>5, <2>2, <2>3
    <3>2. n <= COM * get_block_num(count)
      BY <1>1, <1>4, <2>1, <3>1, BlockCount
    <3> QED BY <3>1, <3>2 DEF IdAt
  <2>4. CASE get_block_num(n) = q
    <3>1. get_position(n) # p
      <4>1. n = (q - 1) * COM + get_position(n)
        BY <2>1, <2>4
      <4>2. ASSUME get_position(n) = p PROVE n = count + 1
        BY <1>2, <4>1, <4>2
      <4> QED BY <1>10, <4>2
    <3>2. IdAt(more, n) = IF p = 1 THEN Pad ELSE IdAt(blocks, n)
      BY <1>7, <2>1, <2>4, <3>1 DEF IdAt
    <3>3. n <= COM * get_block_num(count) <=> get_block_num(n) <= get_block_num(count)
      BY <1>1, <2>1, BlockCount
    <3>4. n <= COM * get_block_num(count) <=> p # 1
      BY <1>3, <2>4, <3>3
    <3> QED BY <3>2, <3>4
  <2> QED BY <2>3, <2>4
<1>12. \A n \in 1 .. count : IdAt(more, n) = IdAt(blocks, n)
  BY <1>1, <1>10, <1>11
<1>13. \A n \in 1 .. COM * q : n > count + 1 => IdAt(more, n) = Pad
  <2> SUFFICES ASSUME NEW n \in 1 .. COM * q, n > count + 1 PROVE IdAt(more, n) = Pad
    OBVIOUS
  <2>1. n # count + 1 /\ n > count
    BY <1>1
  <2>2. CASE n <= COM * get_block_num(count)
    <3>1. n \in 1 .. COM * get_block_num(count)
      BY <1>11, <2>2
    <3> QED BY <1>10, <2>1, <2>2, <3>1 DEF PackedAs
  <2>3. CASE ~ (n <= COM * get_block_num(count))
    BY <1>10, <2>1, <2>3
  <2> QED BY <2>2, <2>3
<1>14. \A n \in 1 .. count + 1 : n \in 1 .. count \/ n = count + 1
  BY <1>1
<1>15. \A n \in 1 .. count : IdAt(blocks, n) \in ids
  BY DEF PackedAs
<1>16. \A n \in 1 .. count + 1 : IdAt(more, n) \in ids \cup {f}
  BY <1>9, <1>12, <1>14, <1>15
<1>17. \A g \in ids \cup {f} : \E n \in 1 .. count + 1 : IdAt(more, n) = g
  <2>1. ASSUME NEW g \in ids PROVE \E n \in 1 .. count + 1 : IdAt(more, n) = g
    <3>1. PICK n \in 1 .. count : IdAt(blocks, n) = g
      BY DEF PackedAs
    <3> QED BY <1>1, <1>12, <3>1
  <2> QED BY <1>1, <1>9, <2>1
<1>18. \A m, n \in 1 .. count + 1 : IdAt(more, m) = IdAt(more, n) => m = n
  <2>1. \A m, n \in 1 .. count : IdAt(blocks, m) = IdAt(blocks, n) => m = n
    BY DEF PackedAs
  <2> QED BY <1>9, <1>12, <1>14, <1>15, <2>1
<1>19. IsFiniteSet(ids \cup {f}) /\ Cardinality(ids \cup {f}) = count + 1 /\ Pad \notin ids \cup {f}
  BY FS_AddElement DEF PackedAs
<1> QED BY <1>1, <1>4, <1>8, <1>13, <1>16, <1>17, <1>18, <1>19 DEF PackedAs, q

\* The blocks are returned in some order, each once.
InSomeOrder(order, count) ==
  /\ DOMAIN order = 1 .. get_block_num(count)
  /\ \A x \in DOMAIN order : order[x] \in DOMAIN order
  /\ \A x, y \in DOMAIN order : order[x] = order[y] => x = y
  /\ \A b \in DOMAIN order : \E x \in DOMAIN order : order[x] = b

\* What is read at the n-th place of the blocks in that order.
ReadAt(blocks, order, n) == blocks[order[get_block_num(n)]][get_position(n)]

LEMMA PlaceRead ==
  ASSUME OrielAssumption, NEW blocks, NEW count, NEW ids, PackedAs(blocks, count, ids),
         NEW order, InSomeOrder(order, count), NEW n \in 1 .. COM * get_block_num(count)
  PROVE  /\ n \in Nat \ {0} /\ get_block_num(n) \in DOMAIN order /\ get_position(n) \in 1 .. COM
         /\ \E m \in 1 .. COM * get_block_num(count) :
              /\ get_block_num(m) = order[get_block_num(n)] /\ get_position(m) = get_position(n)
              /\ ReadAt(blocks, order, n) = IdAt(blocks, m)
<1>1. count \in Nat /\ COM \in Nat \ {0}
  BY DEF PackedAs, OrielAssumption
<1>2. COM * get_block_num(count) \in Nat /\ get_block_num(count) \in Nat
  BY <1>1, BlockCount
<1>3. n \in Nat \ {0} /\ n <= COM * get_block_num(count)
  BY <1>2
<1>4. /\ get_block_num(n) \in Nat \ {0} /\ get_position(n) \in 1 .. COM
      /\ n = (get_block_num(n) - 1) * COM + get_position(n)
  BY <1>3, PlaceOf
<1>5. get_block_num(n) <= get_block_num(count)
  BY <1>1, <1>3, BlockCount
<1>6. get_block_num(n) \in DOMAIN order
  BY <1>2, <1>4, <1>5 DEF InSomeOrder
<1> DEFINE b == order[get_block_num(n)]
           i == get_position(n)
           m == (b - 1) * COM + i
<1>7. b \in 1 .. get_block_num(count)
  BY <1>6 DEF InSomeOrder
<1> HIDE DEF b, i
<1>8. b \in Nat \ {0} /\ i \in 1 .. COM
  BY <1>2, <1>4, <1>7 DEF i
<1>9. m \in Nat \ {0} /\ get_block_num(m) = b /\ get_position(m) = i
  BY <1>8, OnePlace
<1> HIDE DEF m
<1>10. m \in 1 .. COM * get_block_num(count)
  <2>1. m <= COM * get_block_num(count)
    BY <1>1, <1>7, <1>9, BlockCount
  <2> QED BY <1>2, <1>9, <2>1
<1>11. ReadAt(blocks, order, n) = IdAt(blocks, m)
  BY <1>9 DEF ReadAt, IdAt, b, i
<1> QED BY <1>3, <1>4, <1>6, <1>9, <1>10, <1>11 DEF b, i

\* Only packed ids and free places are read, and each id at one place.
LEMMA OnlyPackedAreRead ==
  ASSUME OrielAssumption, NEW blocks, NEW count, NEW ids, PackedAs(blocks, count, ids),
         NEW order, InSomeOrder(order, count)
  PROVE  /\ \A n \in 1 .. COM * get_block_num(count) : ReadAt(blocks, order, n) \in ids \cup {Pad}
         /\ \A n, m \in 1 .. COM * get_block_num(count) :
              ReadAt(blocks, order, n) = ReadAt(blocks, order, m) /\ ReadAt(blocks, order, n) # Pad => n = m
<1> DEFINE N == COM * get_block_num(count)
<1>0. count \in Nat /\ N \in Nat
  BY BlockCount DEF PackedAs
<1>1. ASSUME NEW m \in 1 .. N
      PROVE  IF m <= count THEN m \in 1 .. count /\ IdAt(blocks, m) \in ids ELSE IdAt(blocks, m) = Pad
  <2>1. m \in Nat
    BY <1>0
  <2> QED BY <1>0, <2>1 DEF PackedAs
<1>2. ASSUME NEW n \in 1 .. N PROVE ReadAt(blocks, order, n) \in ids \cup {Pad}
  BY <1>1, PlaceRead
<1>3. ASSUME NEW n \in 1 .. N, NEW m \in 1 .. N,
             ReadAt(blocks, order, n) = ReadAt(blocks, order, m), ReadAt(blocks, order, n) # Pad
      PROVE  n = m
  <2>1. PICK k \in 1 .. N : /\ get_block_num(k) = order[get_block_num(n)] /\ get_position(k) = get_position(n)
                            /\ ReadAt(blocks, order, n) = IdAt(blocks, k)
    BY PlaceRead
  <2>2. PICK l \in 1 .. N : /\ get_block_num(l) = order[get_block_num(m)] /\ get_position(l) = get_position(m)
                            /\ ReadAt(blocks, order, m) = IdAt(blocks, l)
    BY PlaceRead
  <2>3. k \in 1 .. count /\ l \in 1 .. count
    BY <1>1, <1>3, <2>1, <2>2
  <2>4. k = l
    BY <1>3, <2>1, <2>2, <2>3 DEF PackedAs
  <2>5. /\ n \in Nat \ {0} /\ m \in Nat \ {0}
        /\ get_block_num(n) \in DOMAIN order /\ get_block_num(m) \in DOMAIN order
    BY PlaceRead
  <2>6. get_block_num(n) = get_block_num(m) /\ get_position(n) = get_position(m)
    BY <2>1, <2>2, <2>4, <2>5 DEF InSomeOrder
  <2>7. /\ n = (get_block_num(n) - 1) * COM + get_position(n)
        /\ m = (get_block_num(m) - 1) * COM + get_position(m)
    BY <2>5, PlaceOf
  <2> QED BY <2>6, <2>7
<1> QED BY <1>2, <1>3

FilledPlaces(blocks, order, count) ==
  {n \in 1 .. COM * get_block_num(count) : ReadAt(blocks, order, n) # Pad}

\* In whatever order the blocks are returned, the first count ids in them are
\* all the ids.
LEMMA AllPackedAreRead ==
  ASSUME OrielAssumption, NEW blocks, NEW count, NEW ids, PackedAs(blocks, count, ids),
         NEW order, InSomeOrder(order, count)
  PROVE  /\ {j \in FilledPlaces(blocks, order, count) :
                Cardinality({k \in FilledPlaces(blocks, order, count) : k <= j}) <= count}
              = FilledPlaces(blocks, order, count)
         /\ \A n \in FilledPlaces(blocks, order, count) : ReadAt(blocks, order, n) \in ids
         /\ \A f \in ids : \E n \in FilledPlaces(blocks, order, count) : ReadAt(blocks, order, n) = f
<1> DEFINE N == COM * get_block_num(count)
           filled == FilledPlaces(blocks, order, count)
           place == [n \in filled |-> ReadAt(blocks, order, n)]
<1>0. count \in Nat /\ N \in Nat /\ IsFiniteSet(ids) /\ Cardinality(ids) = count
  BY BlockCount DEF PackedAs
<1>1. /\ filled \subseteq 1 .. N
      /\ \A n \in 1 .. N : n \in filled <=> ReadAt(blocks, order, n) # Pad
  BY DEF FilledPlaces
<1> HIDE DEF filled
<1>6. \A n \in filled : ReadAt(blocks, order, n) \in ids
  BY <1>1, OnlyPackedAreRead
<1>2. IsFiniteSet(filled) /\ Cardinality(filled) <= count
  <2>1. place \in [filled -> ids]
    BY <1>6
  <2>2. \A n, m \in filled : place[n] = place[m] => n = m
    BY <1>1, OnlyPackedAreRead
  <2>3. place \in Injection(filled, ids)
    <3> HIDE DEF place
    <3> QED BY <2>1, <2>2 DEF Injection, IsInjective
  <2> HIDE DEF place
  <2> QED BY <1>0, <2>3, FS_Injection
<1>3. ASSUME NEW j \in filled PROVE Cardinality({k \in filled : k <= j}) <= count
  <2>1. {k \in filled : k <= j} \subseteq filled
    OBVIOUS
  <2>2. IsFiniteSet({k \in filled : k <= j}) /\ Cardinality({k \in filled : k <= j}) <= Cardinality(filled)
    BY <1>2, <2>1, FS_Subset
  <2> QED BY <1>0, <1>2, <2>2, FS_CardinalityType
<1>5. ASSUME NEW f \in ids PROVE \E n \in filled : ReadAt(blocks, order, n) = f
  <2>1. PICK m \in 1 .. count : IdAt(blocks, m) = f
    BY DEF PackedAs
  <2>2. /\ get_block_num(m) \in 1 .. get_block_num(count) /\ get_position(m) \in 1 .. COM
    BY <1>0, <2>1, BlockCount, PlaceOf, m \in Nat \ {0}
  <2>3. PICK x \in DOMAIN order : order[x] = get_block_num(m)
    BY <2>2 DEF InSomeOrder
  <2> DEFINE n == (x - 1) * COM + get_position(m)
  <2>4. x \in Nat \ {0} /\ x <= get_block_num(count)
    <3>1. get_block_num(count) \in Nat /\ x \in 1 .. get_block_num(count)
      BY <1>0, <2>3, BlockCount DEF InSomeOrder
    <3> QED BY <3>1
  <2>5. n \in Nat \ {0} /\ get_block_num(n) = x /\ get_position(n) = get_position(m)
    BY <2>2, <2>4, OnePlace
  <2> HIDE DEF n
  <2>6. n \in 1 .. N
    <3>1. n <= N
      BY <1>0, <2>4, <2>5, BlockCount
    <3> QED BY <1>0, <2>5, <3>1
  <2>7. ReadAt(blocks, order, n) = f
    BY <2>1, <2>3, <2>5 DEF ReadAt, IdAt
  <2>8. f # Pad
    BY DEF PackedAs
  <2> QED BY <1>1, <2>6, <2>7, <2>8
<1>4. {j \in filled : Cardinality({k \in filled : k <= j}) <= count} = filled
  BY <1>3
<1> QED BY <1>4, <1>5, <1>6 DEF filled

(***************************************************************************)
(* The index of packorion and oriel.                                       *)
(***************************************************************************)
BlocksOf(w) == [b \in 1 .. get_block_num(Count(w)) |-> I[<<w, b>>]]
FilesWith(w) == {f \in DOMAIN ac : w \in Words[f]}

Types ==
  /\ DOMAIN fcnt \subseteq Keywords /\ DOMAIN ac \subseteq Files
  /\ \A f \in DOMAIN ac : ac[f] \in Nat
  /\ \A k \in DOMAIN I : k = <<k[1], k[2]>>

\* The blocks in the map are those of the counts, and pack the files.
WordsPacked ==
  \A w \in Keywords :
    /\ {k \in DOMAIN I : k[1] = w} = KeysOf(w)
    /\ PackedAs(BlocksOf(w), Count(w), FilesWith(w))

IInv == Types /\ WordsPacked /\ FileAtItsCount

LEMMA InitInv == ASSUME OrielAssumption, Init PROVE IInv
<1>1. /\ DOMAIN fcnt = {} /\ DOMAIN I = {} /\ DOMAIN ac = {} /\ DOMAIN DictF = {}
  BY DEF Init, NoEntry
<1>2. Types /\ FileAtItsCount
  BY <1>1 DEF Types, FileAtItsCount
<1>3. ASSUME NEW w \in Keywords
      PROVE  {k \in DOMAIN I : k[1] = w} = KeysOf(w) /\ PackedAs(BlocksOf(w), Count(w), FilesWith(w))
  <2>1. Count(w) = 0 /\ FilesWith(w) = {}
    BY <1>1 DEF Count, FilesWith
  <2>2. get_block_num(0) = 0 /\ 1 .. 0 = {}
    BY NonePacked
  <2>3. DOMAIN BlocksOf(w) = {} /\ KeysOf(w) = {}
    BY <2>1, <2>2 DEF BlocksOf, KeysOf
  <2> QED BY <1>1, <2>1, <2>3, NonePacked
<1> QED BY <1>2, <1>3 DEF IInv, WordsPacked

\* A file that is inserted is packed into the blocks of its keywords.
LEMMA InsertInv ==
  ASSUME OrielAssumption, IInv, NEW f \in Files, Insert(f)
  PROVE  IInv' /\ f \notin DOMAIN ac /\ DOMAIN ac' = DOMAIN ac \cup {f}
<1> DEFINE key(w) == <<w, get_block_num(Count(w) + 1)>>
           new == {key(w) : w \in Words[f]}
<1>1. /\ f \notin DOMAIN ac /\ f # Pad /\ Words[f] \subseteq Keywords
      /\ I' = Override(I, [k \in new |-> setupInsertkw(k[1], f)])
      /\ fcnt' = Override(fcnt, [w \in Words[f] |-> Count(w) + 1])
      /\ ac' = Override(ac, [g \in {f} |-> 1])
      /\ DictF' = Override(DictF, [a \in {Address(f, 1)} |-> 1 .. Blocks[f]])
  BY DEF Insert, insertFile, OrielAssumption
<1>2. /\ DOMAIN ac' = DOMAIN ac \cup {f} /\ ac'[f] = 1 /\ \A g \in DOMAIN ac : ac'[g] = ac[g]
  BY <1>1 DEF Override
<1>3. /\ DOMAIN fcnt' = DOMAIN fcnt \cup Words[f]
      /\ \A w \in Keywords : Count(w)' = IF w \in Words[f] THEN Count(w) + 1 ELSE Count(w)
  <2>1. /\ DOMAIN fcnt' = DOMAIN fcnt \cup Words[f] /\ \A w \in Words[f] : fcnt'[w] = Count(w) + 1
        /\ \A w \in DOMAIN fcnt : w \notin Words[f] => fcnt'[w] = fcnt[w]
    BY <1>1 DEF Override
  <2> QED BY <2>1 DEF Count
<1>4. /\ DOMAIN I' = DOMAIN I \cup new /\ \A k \in new : I'[k] = setupInsertkw(k[1], f)
      /\ \A k \in DOMAIN I : k \notin new => I'[k] = I[k]
  BY <1>1 DEF Override
<1>5. \A w \in Words[f] : key(w) \in new /\ key(w)[1] = w
  OBVIOUS
<1>6. \A k \in new : k[1] \in Words[f] /\ k = key(k[1])
  OBVIOUS
<1> HIDE DEF new
<1>7. Types'
  <2>1. \A k \in new : k = <<k[1], k[2]>>
    BY <1>6
  <2> QED BY <1>1, <1>2, <1>3, <1>4, <2>1 DEF IInv, Types
<1>8. FileAtItsCount'
  <2>1. DOMAIN DictF = {Address(g, ac[g]) : g \in DOMAIN ac} /\ \A a \in DOMAIN DictF : DictF[a] = 1 .. Blocks[a[1]]
    BY DEF IInv, FileAtItsCount
  <2>2. /\ DOMAIN DictF' = DOMAIN DictF \cup {Address(f, 1)} /\ DictF'[Address(f, 1)] = 1 .. Blocks[f]
        /\ \A a \in DOMAIN DictF : a # Address(f, 1) => DictF'[a] = DictF[a]
    BY <1>1 DEF Override
  <2>3. Address(f, 1)[1] = f
    BY DEF Address
  <2>4. DOMAIN DictF' = {Address(g, ac'[g]) : g \in DOMAIN ac'}
    BY <1>2, <2>1, <2>2
  <2> QED BY <2>1, <2>2, <2>3, <2>4 DEF FileAtItsCount
<1>9. ASSUME NEW w \in Keywords
      PROVE  {k \in DOMAIN I' : k[1] = w} = KeysOf(w)' /\ PackedAs(BlocksOf(w)', Count(w)', FilesWith(w)')
  <2>1. {k \in DOMAIN I : k[1] = w} = KeysOf(w) /\ PackedAs(BlocksOf(w), Count(w), FilesWith(w))
    BY DEF IInv, WordsPacked
  <2>2. FilesWith(w)' = IF w \in Words[f] THEN FilesWith(w) \cup {f} ELSE FilesWith(w)
    BY <1>2 DEF FilesWith
  <2>3. CASE w \notin Words[f]
    <3>1. Count(w)' = Count(w) /\ FilesWith(w)' = FilesWith(w)
      BY <1>3, <2>2, <2>3
    <3>2. KeysOf(w)' = KeysOf(w)
      BY <3>1 DEF KeysOf
    <3>3. {k \in DOMAIN I' : k[1] = w} = {k \in DOMAIN I : k[1] = w}
      BY <1>4, <1>6, <2>3
    <3>4. \A b \in 1 .. get_block_num(Count(w)) : I'[<<w, b>>] = I[<<w, b>>]
      <4>1. \A b \in 1 .. get_block_num(Count(w)) : <<w, b>> \in DOMAIN I /\ <<w, b>>[1] = w
        BY <2>1 DEF KeysOf
      <4> QED BY <1>4, <1>6, <2>3, <4>1
    <3>5. BlocksOf(w)' = BlocksOf(w)
      BY <3>1, <3>4 DEF BlocksOf
    <3> QED BY <2>1, <3>1, <3>2, <3>3, <3>5
  <2>4. CASE w \in Words[f]
    <3> DEFINE c == Count(w)
               q == get_block_num(c + 1)
    <3>1. Count(w)' = c + 1 /\ FilesWith(w)' = FilesWith(w) \cup {f} /\ f \notin FilesWith(w)
      BY <1>1, <1>3, <2>2, <2>4 DEF FilesWith
    <3>2. c \in Nat /\ get_block_num(c) \in Nat /\ q \in {get_block_num(c), get_block_num(c) + 1} /\ q \in Nat \ {0}
      <4>1. c \in Nat
        BY <2>1 DEF PackedAs
      <4>2. c + 1 \in Nat \ {0}
        BY <4>1
      <4> HIDE DEF c
      <4> QED BY <4>1, <4>2, BlockCount, PlaceOf
    <3>3. \A k \in new : k[1] = w <=> k = <<w, q>>
      BY <1>5, <1>6, <2>4
    <3>4. <<w, q>> \in new
      BY <1>5, <2>4
    <3>5. {k \in DOMAIN I' : k[1] = w} = KeysOf(w) \cup {<<w, q>>}
      BY <1>4, <2>1, <3>3, <3>4
    <3>6. KeysOf(w)' = KeysOf(w) \cup {<<w, q>>}
      <4>1. KeysOf(w) = {<<w, b>> : b \in 1 .. get_block_num(c)}
        BY DEF KeysOf
      <4>2. KeysOf(w)' = {<<w, b>> : b \in 1 .. q}
        BY <3>1 DEF KeysOf
      <4> HIDE DEF c, q
      <4>3. 1 .. q = (1 .. get_block_num(c)) \cup {q}
        BY <3>2
      <4> QED BY <4>1, <4>2, <4>3
    <3>7. DOMAIN BlocksOf(w)' = 1 .. q
      BY <3>1 DEF BlocksOf
    <3>8. ASSUME NEW b \in 1 .. q
          PROVE  BlocksOf(w)'[b] =
                   IF b = q
                   THEN [(IF get_position(c + 1) = 1 THEN [i \in 1 .. COM |-> Pad] ELSE BlocksOf(w)[b])
                           EXCEPT ![get_position(c + 1)] = f]
                   ELSE BlocksOf(w)[b]
      <4>1. BlocksOf(w)'[b] = I'[<<w, b>>]
        BY <3>1 DEF BlocksOf
      <4>2. CASE b = q
        <5>1. I'[<<w, q>>] = setupInsertkw(w, f)
          BY <1>4, <3>4
        <5>2. get_position(c + 1) # 1 => I[<<w, q>>] = BlocksOf(w)[q]
          <6>1. get_position(c + 1) # 1 => q \in 1 .. get_block_num(c)
            BY <3>2, BlockCount
          <6> QED BY <6>1 DEF BlocksOf
        <5> QED BY <4>1, <4>2, <5>1, <5>2 DEF setupInsertkw
      <4>3. CASE b # q
        <5>1. b \in 1 .. get_block_num(c)
          BY <3>2, <4>3
        <5>2. <<w, b>> \in DOMAIN I
          BY <2>1, <5>1 DEF KeysOf
        <5>3. <<w, b>> \notin new
          BY <3>3, <4>3
        <5>4. I'[<<w, b>>] = I[<<w, b>>]
          BY <1>4, <5>2, <5>3
        <5> QED BY <4>1, <4>3, <5>1, <5>4 DEF BlocksOf
      <4> QED BY <4>2, <4>3
    <3>9. PackedAs(BlocksOf(w)', c + 1, FilesWith(w) \cup {f})
      BY <1>1, <2>1, <3>1, <3>7, <3>8, OneMorePacked
    <3> QED BY <3>1, <3>5, <3>6, <3>9
  <2> QED BY <2>3, <2>4
<1>10. WordsPacked'
  BY <1>9 DEF WordsPacked
<1> QED BY <1>1, <1>2, <1>7, <1>8, <1>10 DEF IInv

LEMMA BlocksReturned ==
  ASSUME OrielAssumption, IInv, NEW w \in Keywords, NEW order \in SetToSeqs(KeysOf(w))
  PROVE  /\ Len(order) = get_block_num(Count(w))
         /\ InSomeOrder([x \in DOMAIN order |-> order[x][2]], Count(w))
         /\ \A x \in DOMAIN order : I[order[x]] = BlocksOf(w)[order[x][2]]
<1> DEFINE n == get_block_num(Count(w))
           K == KeysOf(w)
           second == [x \in DOMAIN order |-> order[x][2]]
<1>1. n \in Nat
  BY BlockCount DEF IInv, WordsPacked, PackedAs
<1>2. K = {<<w, b>> : b \in 1 .. n}
  BY DEF KeysOf
<1> HIDE DEF n, K
<1>3. IsFiniteSet(1 .. n) /\ Cardinality(1 .. n) = n
  BY <1>1, FS_Interval
<1>4. IsFiniteSet(K) /\ Cardinality(K) = n
  <2> DEFINE pair == [b \in 1 .. n |-> <<w, b>>]
  <2>1. pair \in [1 .. n -> K]
    BY <1>2
  <2>2. \A x, y \in 1 .. n : pair[x] = pair[y] => x = y
    OBVIOUS
  <2>3. \A k \in K : \E x \in 1 .. n : pair[x] = k
    BY <1>2
  <2> HIDE DEF pair
  <2>4. pair \in Bijection(1 .. n, K)
    BY <2>1, <2>2, <2>3 DEF Bijection, Injection, Surjection, IsInjective
  <2>5. ExistsBijection(1 .. n, K)
    BY <2>4 DEF ExistsBijection
  <2> QED BY <1>3, <2>5, FS_Bijection
<1>5. /\ order \in [1 .. n -> K] /\ \A i, j \in 1 .. n : i # j => order[i] # order[j]
  BY <1>4 DEF SetToSeqs, K
<1>6. Len(order) = n
  <2>1. order \in Seq(K)
    BY <1>1, <1>5
  <2>2. DOMAIN order = 1 .. Len(order) /\ Len(order) \in Nat
    BY <2>1
  <2> QED BY <1>1, <1>5, <2>2
<1>7. \A k \in K : \E x \in 1 .. n : order[x] = k
  <2>1. order \in Injection(1 .. n, K)
    BY <1>5 DEF Injection, IsInjective
  <2>2. order \in Surjection(1 .. n, K)
    BY <1>3, <1>4, <2>1, FS_Injection
  <2> QED BY <2>2 DEF Surjection
<1>8. \A k \in K : k[2] \in 1 .. n /\ k = <<w, k[2]>>
  BY <1>2
<1>9. /\ DOMAIN second = 1 .. n /\ \A x \in 1 .. n : second[x] \in 1 .. n /\ order[x] = <<w, second[x]>>
  BY <1>5, <1>8
<1>10. \A b \in 1 .. n : \E x \in 1 .. n : second[x] = b
  <2> SUFFICES ASSUME NEW b \in 1 .. n PROVE \E x \in 1 .. n : second[x] = b
    OBVIOUS
  <2>1. <<w, b>> \in K
    BY <1>2
  <2>2. PICK x \in 1 .. n : order[x] = <<w, b>>
    BY <1>7, <2>1
  <2> QED BY <1>9, <2>2
<1>11. \A x \in 1 .. n : I[order[x]] = BlocksOf(w)[second[x]]
  BY <1>9 DEF BlocksOf, n
<1>12. \A x, y \in 1 .. n : second[x] = second[y] => x = y
  BY <1>5, <1>9
<1> QED BY <1>5, <1>6, <1>9, <1>10, <1>11, <1>12 DEF InSomeOrder, n

\* Whatever order the blocks come in, the ids found are the files inserted
\* with the keyword.
LEMMA FoundAreInserted ==
  ASSUME OrielAssumption, IInv, NEW w \in Keywords, NEW order \in SetToSeqs(KeysOf(w))
  PROVE  filind(w, order) = FilesWith(w)
<1> DEFINE c == Count(w)
           B == BlocksOf(w)
           second == [x \in DOMAIN order |-> order[x][2]]
           N == COM * get_block_num(c)
           filled == FilledPlaces(B, second, c)
           place(n) == I[order[get_block_num(n)]][get_position(n)]
<1>1. /\ Len(order) = get_block_num(c) /\ InSomeOrder(second, c)
      /\ \A x \in DOMAIN order : I[order[x]] = B[order[x][2]]
  BY BlocksReturned
<1>2. PackedAs(B, c, FilesWith(w))
  BY DEF IInv, WordsPacked
<1>3. ASSUME NEW n \in 1 .. N PROVE place(n) = ReadAt(B, second, n)
  <2>1. get_block_num(n) \in DOMAIN second
    BY <1>1, <1>2, PlaceRead
  <2> QED BY <1>1, <2>1 DEF ReadAt
<1>4. {n \in 1 .. COM * Len(order) : place(n) # Pad} = filled
  BY <1>1, <1>3 DEF FilledPlaces
<1>5. filind(w, order) = {place(n) : n \in {j \in filled : Cardinality({k \in filled : k <= j}) <= c}}
  <2> HIDE DEF filled
  <2> QED BY <1>4 DEF filind
<1>6. /\ {j \in filled : Cardinality({k \in filled : k <= j}) <= c} = filled
      /\ \A n \in filled : ReadAt(B, second, n) \in FilesWith(w)
      /\ \A f \in FilesWith(w) : \E n \in filled : ReadAt(B, second, n) = f
  <2> HIDE DEF c, second, B
  <2> QED BY <1>1, <1>2, AllPackedAreRead
<1>7. \A n \in filled : place(n) = ReadAt(B, second, n)
  BY <1>3 DEF FilledPlaces
<1>8. filind(w, order) = {place(n) : n \in filled}
  <2> HIDE DEF filled, place, c
  <2> QED BY <1>5, <1>6
<1> HIDE DEF c, second, place, filled, B
<1> QED BY <1>6, <1>7, <1>8

\* A search moves the files it finds, and leaves the blocks as they are.
LEMMA ReadInv ==
  ASSUME OrielAssumption, IInv, NEW w \in Keywords, NEW order \in SetToSeqs(KeysOf(w)),
         ReadFiles(w, filind(w, order))
  PROVE  /\ IInv' /\ DOMAIN ac' = DOMAIN ac
         /\ last' = Call("search", w, UNION {{f} \X (1 .. Blocks[f]) : f \in FilesWith(w)})
<1> DEFINE ids == FilesWith(w)
<1>1. /\ ids \subseteq DOMAIN ac
      /\ last' = Call("search", w, UNION {{f} \X DictF[Address(f, ac[f])] : f \in ids})
      /\ DictF' = Moved(ids) /\ ac' = Incremented(ids) /\ UNCHANGED <<fcnt, I>>
  BY FoundAreInserted DEF ReadFiles, FilesWith
<1>2. /\ DOMAIN ac' = DOMAIN ac
      /\ \A f \in DOMAIN ac : ac'[f] = IF f \in ids THEN ac[f] + 1 ELSE ac[f]
  BY <1>1 DEF Incremented
<1>3. /\ DOMAIN DictF = {<<f, ac[f]>> : f \in DOMAIN ac}
      /\ \A a \in DOMAIN DictF : DictF[a] = 1 .. Blocks[a[1]]
      /\ \A f \in DOMAIN ac : ac[f] \in Nat
  BY DEF IInv, FileAtItsCount, Address, Types
<1>4. \A f \in DOMAIN ac : <<f, ac[f]>> \in DOMAIN DictF /\ DictF[<<f, ac[f]>>] = 1 .. Blocks[f]
  BY <1>3
<1> DEFINE old == {<<f, ac[f]>> : f \in ids}
           new == {<<f, ac[f] + 1>> : f \in ids}
<1>5. DictF' = Override([a \in DOMAIN DictF \ old |-> DictF[a]],
                        [a \in new |-> DictF[<<a[1], a[2] - 1>>]])
  BY <1>1 DEF Moved, Address
<1>6. /\ DOMAIN DictF' = (DOMAIN DictF \ old) \cup new
      /\ \A a \in new : DictF'[a] = DictF[<<a[1], a[2] - 1>>]
      /\ \A a \in DOMAIN DictF \ old : a \notin new => DictF'[a] = DictF[a]
  <2> HIDE DEF old, new
  <2> QED BY <1>5 DEF Override
<1>7. FileAtItsCount'
  <2>1. DOMAIN DictF' = {<<f, ac'[f]>> : f \in DOMAIN ac'}
    <3>1. \A f \in DOMAIN ac : f \in ids => <<f, ac'[f]>> \in new
      BY <1>2
    <3>2. \A f \in DOMAIN ac : f \notin ids => <<f, ac'[f]>> \in DOMAIN DictF \ old
      BY <1>2, <1>3
    <3>3. \A a \in new : \E f \in DOMAIN ac : a = <<f, ac'[f]>>
      BY <1>1, <1>2
    <3>4. \A a \in DOMAIN DictF \ old : \E f \in DOMAIN ac : a = <<f, ac'[f]>>
      BY <1>2, <1>3
    <3> HIDE DEF new, old
    <3> QED BY <1>2, <1>6, <3>1, <3>2, <3>3, <3>4
  <2>2. ASSUME NEW a \in new PROVE DictF'[a] = 1 .. Blocks[a[1]]
    <3>1. PICK f \in ids : a = <<f, ac[f] + 1>>
      OBVIOUS
    <3>2. a[1] = f /\ a[2] - 1 = ac[f] /\ f \in DOMAIN ac
      BY <1>1, <1>3, <3>1
    <3> QED BY <1>4, <1>6, <3>2
  <2>3. \A a \in DOMAIN DictF' : DictF'[a] = 1 .. Blocks[a[1]]
    BY <1>3, <1>6, <2>2
  <2> QED BY <2>1, <2>3 DEF FileAtItsCount, Address
<1>8. Types'
  BY <1>1, <1>2, <1>3 DEF IInv, Types
<1>9. WordsPacked'
  <2>1. ASSUME NEW v \in Keywords
        PROVE  Count(v)' = Count(v) /\ KeysOf(v)' = KeysOf(v) /\ BlocksOf(v)' = BlocksOf(v) /\ FilesWith(v)' = FilesWith(v)
    BY <1>1, <1>2 DEF Count, KeysOf, BlocksOf, FilesWith
  <2> QED BY <1>1, <2>1 DEF IInv, WordsPacked
<1>10. UNION {{f} \X DictF[Address(f, ac[f])] : f \in ids} = UNION {{f} \X (1 .. Blocks[f]) : f \in ids}
  BY <1>1, <1>4 DEF Address
<1> QED BY <1>1, <1>2, <1>7, <1>8, <1>9, <1>10 DEF IInv

LEMMA NextInv ==
  ASSUME OrielAssumption, IInv, [Next]_vars
  PROVE  IInv'
<1>1. ASSUME NEW f \in Files, Insert(f) PROVE IInv'
  BY <1>1, InsertInv
<1>2. ASSUME NEW w \in Keywords, localbatchSearch(w) \/ batchSearch(w) PROVE IInv'
  <2>1. PICK order \in SetToSeqs(KeysOf(w)) : ReadFiles(w, filind(w, order))
    BY <1>2 DEF localbatchSearch, batchSearch
  <2> QED BY <2>1, ReadInv
<1>3. CASE endSetup \/ UNCHANGED vars
  <2>1. UNCHANGED <<fcnt, I, ac, DictF>>
    BY <1>3 DEF endSetup, vars
  <2>2. Types' /\ FileAtItsCount'
    BY <2>1 DEF IInv, Types, FileAtItsCount
  <2>3. WordsPacked'
    <3>1. \A w \in Keywords :
            Count(w)' = Count(w) /\ KeysOf(w)' = KeysOf(w) /\ BlocksOf(w)' = BlocksOf(w) /\ FilesWith(w)' = FilesWith(w)
      BY <2>1 DEF Count, KeysOf, BlocksOf, FilesWith
    <3> QED BY <2>1, <3>1 DEF IInv, WordsPacked
  <2> QED BY <2>2, <2>3 DEF IInv
<1> QED BY <1>1, <1>2, <1>3 DEF Next

\* The ids in the blocks of a keyword are those packed into them.
\* The blocks list the ids, and only the last has places filled up.
LEMMA PackedBlocksList ==
  ASSUME OrielAssumption, NEW blocks, NEW count, NEW ids, PackedAs(blocks, count, ids)
  PROVE  /\ \A b \in 1 .. get_block_num(count) : \A i \in 1 .. COM : blocks[b][i] \in ids \cup {Pad}
         /\ \A f \in ids : \E b \in 1 .. get_block_num(count) : \E i \in 1 .. COM : blocks[b][i] = f
         /\ \A b \in 1 .. get_block_num(count) - 1 : \A i \in 1 .. COM : blocks[b][i] # Pad
         /\ get_block_num(count) <= count
<1> DEFINE c == count
           n == get_block_num(c)
<1>1. c \in Nat /\ n \in Nat /\ COM * n \in Nat /\ COM \in Nat \ {0}
  BY BlockCount DEF PackedAs, OrielAssumption
<1>2. ASSUME NEW b \in 1 .. n, NEW i \in 1 .. COM
      PROVE  \E m \in 1 .. COM * n : m = (b - 1) * COM + i /\ IdAt(blocks, m) = blocks[b][i]
  <2> DEFINE m == (b - 1) * COM + i
  <2>1. m \in Nat \ {0} /\ get_block_num(m) = b /\ get_position(m) = i
    BY <1>1, OnePlace, b \in Nat \ {0}
  <2> HIDE DEF m, n, c
  <2>2. m <= COM * n
    BY <1>1, <2>1, BlockCount DEF n, c
  <2>3. m \in 1 .. COM * n /\ IdAt(blocks, m) = blocks[b][i]
    BY <1>1, <2>1, <2>2 DEF IdAt
  <2> QED BY <2>3 DEF m
<1>3. \A m \in 1 .. COM * n : IF m <= c THEN IdAt(blocks, m) \in ids ELSE IdAt(blocks, m) = Pad
  <2> SUFFICES ASSUME NEW m \in 1 .. COM * n
               PROVE  IF m <= c THEN IdAt(blocks, m) \in ids ELSE IdAt(blocks, m) = Pad
    OBVIOUS
  <2>1. m \in Nat /\ (m <= c => m \in 1 .. c)
    BY <1>1
  <2> QED BY <1>1, <2>1 DEF PackedAs
<1>4. \A b \in 1 .. n : \A i \in 1 .. COM : blocks[b][i] \in ids \cup {Pad}
  BY <1>2, <1>3
<1>5. \A f \in ids : \E b \in 1 .. n : \E i \in 1 .. COM : blocks[b][i] = f
  <2> SUFFICES ASSUME NEW f \in ids PROVE \E b \in 1 .. n : \E i \in 1 .. COM : blocks[b][i] = f
    OBVIOUS
  <2>1. PICK m \in 1 .. c : IdAt(blocks, m) = f
    BY DEF PackedAs
  <2>2. get_block_num(m) \in 1 .. n /\ get_position(m) \in 1 .. COM
    BY <1>1, BlockCount, PlaceOf, m \in Nat \ {0}
  <2> QED BY <2>1, <2>2 DEF IdAt
<1>6. CASE c = 0
  <2>1. 0 % COM = 0 /\ 0 \div COM = 0
    BY <1>1, SMTT(30)
  <2>2. n = 0
    BY <1>6, <2>1 DEF get_block_num
  <2> HIDE DEF c, n
  <2>3. 1 .. n - 1 = {} /\ n <= c
    BY <1>6, <2>2
  <2> QED BY <1>4, <1>5, <2>3 DEF n, c
<1>7. CASE c # 0
  <2>1. get_position(c) \in 1 .. COM /\ c = (n - 1) * COM + get_position(c) /\ n \in Nat \ {0}
    BY <1>1, <1>7, PlaceOf
  <2> HIDE DEF n, c
  <2>2. n <= c
    <3>1. (n - 1) * COM >= n - 1 /\ (n - 1) * COM \in Nat
      BY <1>1, <2>1, SMTT(30)
    <3> QED BY <1>1, <2>1, <3>1
  <2>3. ASSUME NEW b \in 1 .. n - 1, NEW i \in 1 .. COM PROVE blocks[b][i] # Pad
    <3>1. (b - 1) * COM + COM <= (n - 1) * COM /\ (b - 1) * COM \in Nat /\ (n - 1) * COM \in Nat
      BY <1>1, <2>1, Products, b - 1 \in Nat, n - 1 \in Nat, b - 1 < n - 1
    <3>2. (b - 1) * COM + i <= c /\ b \in 1 .. n
      BY <1>1, <2>1, <3>1
    <3>3. PICK m \in 1 .. COM * n : m = (b - 1) * COM + i /\ IdAt(blocks, m) = blocks[b][i]
      BY <1>2, <3>2
    <3>4. blocks[b][i] \in ids
      BY <1>3, <3>2, <3>3
    <3> QED BY <3>4 DEF PackedAs
  <2> QED BY <1>4, <1>5, <2>2, <2>3 DEF n, c
<1> QED BY <1>6, <1>7

LEMMA BlocksListInv == ASSUME OrielAssumption, IInv PROVE BlocksList
<1> SUFFICES ASSUME NEW w \in Keywords
             PROVE  /\ Count(w) = Cardinality(FilesWith(w))
                    /\ {k \in DOMAIN I : k[1] = w} = KeysOf(w)
                    /\ UNION {{I[<<w, b>>][i] : i \in 1 .. COM} \ {Pad} : b \in 1 .. get_block_num(Count(w))} = FilesWith(w)
  BY DEF BlocksList, FilesWith
<1> DEFINE c == Count(w)
           B == BlocksOf(w)
           ids(b) == {I[<<w, b>>][i] : i \in 1 .. COM} \ {Pad}
<1>1. {k \in DOMAIN I : k[1] = w} = KeysOf(w) /\ PackedAs(B, c, FilesWith(w))
  BY DEF IInv, WordsPacked
<1>2. Cardinality(FilesWith(w)) = c /\ Pad \notin FilesWith(w)
  BY <1>1 DEF PackedAs
<1>3. \A b \in 1 .. get_block_num(c) : B[b] = I[<<w, b>>]
  BY DEF BlocksOf
<1>4. /\ \A b \in 1 .. get_block_num(c) : ids(b) \subseteq FilesWith(w)
      /\ \A f \in FilesWith(w) : \E b \in 1 .. get_block_num(c) : f \in ids(b)
  <2> HIDE DEF B, c
  <2>1. /\ \A b \in 1 .. get_block_num(c) : \A i \in 1 .. COM : B[b][i] \in FilesWith(w) \cup {Pad}
        /\ \A f \in FilesWith(w) : \E b \in 1 .. get_block_num(c) : \E i \in 1 .. COM : B[b][i] = f
    BY <1>1, PackedBlocksList
  <2> QED BY <1>2, <1>3, <2>1
<1> HIDE DEF ids
<1>5. UNION {ids(b) : b \in 1 .. get_block_num(c)} = FilesWith(w)
  BY <1>4
<1> QED BY <1>1, <1>2, <1>5 DEF ids

\* However often its keywords are searched, a file is at the one address its
\* access count gives, with all its blocks, and the blocks of a keyword list
\* its files, each once (insertFile, setupInsertkw, the searches).
THEOREM FilesMoveWithTheirCounts ==
  ASSUME OrielAssumption
  PROVE  Spec => [](FileAtItsCount /\ BlocksList)
<1>1. IInv /\ [Next]_vars => IInv'
  BY NextInv
<1>2. Init => IInv
  BY InitInv
<1>3. IInv => FileAtItsCount /\ BlocksList
  BY BlocksListInv DEF IInv
<1> QED BY <1>1, <1>2, <1>3, PTL DEF Spec
=============================================================================

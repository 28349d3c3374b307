---------------------------- MODULE IndexProofs -----------------------------

(***************************************************************************)
(* The keyword indexes of MCIndexes, for all keywords, files and bounds:   *)
(* every index keeps the promise of SearchIndex, that of the B-tree the    *)
(* one of Postings, and the entries of every kind are where the client     *)
(* will look for them.                                                     *)
(*                                                                         *)
(* Each kind has an invariant, which says what the maps hold of a keyword: *)
(* its files, one entry each, at the numbers, places or addresses the      *)
(* counters give; what one step changes of it is a lemma for each          *)
(* operation.  IndexesInv puts the kinds together, and the theorems of     *)
(* MCSpec follow from it; the specifications that are one kind's have      *)
(* theorems of their own.                                                  *)
(***************************************************************************)
EXTENDS MCIndexes, FiniteSetTheorems, WellFoundedInduction, TLAPS

(***************************************************************************)
(* "dynamic": files inserted and removed one by one.                       *)
(***************************************************************************)
\* The counter of a file's blocks says which blocks are stored: with it, a
\* file that is removed leaves none.
BlocksCounted == \A f \in Files : file[f] = 1 .. localBCNT[f]

IndexInv == TypeOK /\ BlocksCounted /\ PostingsExact

\* What the keyword w knows, as PostingsExact says it of one keyword.
Exact(w) ==
  /\ DOMAIN srch[w] = 1 .. fcntbids[w]
  /\ \A i \in DOMAIN srch[w] : UpdtCnt[w][srch[w][i]] = i
  /\ \A f \in Files :
       IF f \in Live /\ w \in Words[f]
       THEN UpdtCnt[w][f] \in DOMAIN srch[w] /\ srch[w][UpdtCnt[w][f]] = f
       ELSE UpdtCnt[w][f] = 0

LEMMA DynamicInit == Init => IndexInv
<1> SUFFICES ASSUME Init PROVE IndexInv
  OBVIOUS
<1> USE IndexAssumption DEF Init, NoEntry
<1>1. TypeOK
  BY DEF TypeOK
<1>2. BlocksCounted
  BY DEF BlocksCounted
<1>3. PostingsExact
  BY DEF PostingsExact, Live
<1> QED
  BY <1>1, <1>2, <1>3 DEF IndexInv

LEMMA DynamicInsertInv ==
  ASSUME IndexInv, NEW f \in Files, Insert(f)
  PROVE  IndexInv'
<1> USE IndexAssumption DEF IndexInv, NextNumber
<1>1. /\ \A k \in Keywords \cup Files : fcntbids[k] \in Nat /\ fcntbids[k] + 1 \in Nat \ {0}
      /\ \A w \in Keywords : UpdtCnt[w] \in [Files -> Nat]
      /\ Blocks[f] \in Nat \ {0} /\ Words[f] \subseteq Keywords
  BY DEF TypeOK
<1>2. TypeOK'
  <2>1. fcntbids' \in [Keywords \cup Files -> Nat]
    <3>1. fcntbids' = [k \in Keywords \cup Files |-> IF k \in Words[f] THEN fcntbids[k] + 1 ELSE fcntbids[k]]
      BY DEF Insert
    <3> QED
      BY <3>1, <1>1
  <2>5. localBCNT' \in [Files -> Nat]
    BY <1>1 DEF Insert, TypeOK
  <2>2. UpdtCnt' \in [Keywords -> [Files -> Nat]]
    BY <1>1 DEF Insert, TypeOK
  <2>3. DOMAIN srch' = Keywords /\ file' \in [Files -> SUBSET Nat]
    BY DEF Insert, TypeOK
  <2>4. ASSUME NEW w \in Keywords
        PROVE  DOMAIN srch'[w] \subseteq Nat \ {0} /\ \A i \in DOMAIN srch'[w] : srch'[w][i] \in Files
    <3>1. srch'[w] = IF w \in Words[f] THEN Put(srch[w], NextNumber(w), f) ELSE srch[w]
      BY <2>4 DEF Insert
    <3> QED
      BY <3>1, <1>1 DEF TypeOK, Put
  <2> QED
    BY <2>1, <2>2, <2>3, <2>4, <2>5 DEF Insert, TypeOK
<1>3. BlocksCounted'
  BY <1>1 DEF Insert, BlocksCounted, TypeOK
<1>4. Live' = Live \cup {f} /\ f \notin Live
  <2>1. file[f] = {} /\ 1 \in file'[f] /\ \A g \in Files \ {f} : file'[g] = file[g]
    BY <1>1 DEF Insert, TypeOK
  <2> QED
    BY <2>1 DEF Live
<1>5. ASSUME NEW w \in Keywords PROVE Exact(w)'
  <2>1. Exact(w)
    BY DEF PostingsExact, Exact
  <2>2. CASE w \notin Words[f]
    <3>1. srch'[w] = srch[w] /\ fcntbids'[w] = fcntbids[w] /\ UpdtCnt'[w] = UpdtCnt[w]
      BY <2>2 DEF Insert
    <3> QED
      BY <2>1, <2>2, <3>1, <1>4 DEF Exact
  <2>3. CASE w \in Words[f]
    <3> DEFINE n == fcntbids[w] + 1
    <3>1. /\ srch'[w] = Put(srch[w], n, f) /\ fcntbids'[w] = n
          /\ UpdtCnt'[w] = [UpdtCnt[w] EXCEPT ![f] = n]
      BY <2>3, <1>1 DEF Insert
    <3>2. /\ DOMAIN srch'[w] = 1 .. n
          /\ srch'[w][n] = f
          /\ \A i \in 1 .. fcntbids[w] : srch'[w][i] = srch[w][i]
      BY <3>1, <2>1, <1>1 DEF Put, Exact
    <3>3. UpdtCnt[w] \in [Files -> Nat] /\ \A i \in 1 .. fcntbids[w] : srch[w][i] \in Files /\ srch[w][i] # f
      <4>1. UpdtCnt[w][f] = 0
        BY <2>1, <1>4 DEF Exact
      <4> QED
        BY <4>1, <2>1 DEF Exact, TypeOK
    <3>4. ASSUME NEW i \in 1 .. n PROVE UpdtCnt'[w][srch'[w][i]] = i
      <4>1. CASE i = n
        BY <4>1, <3>1, <3>2, <3>3
      <4>2. CASE i # n
        <5>1. i \in 1 .. fcntbids[w] /\ i \in DOMAIN srch[w]
          BY <4>2, <2>1, <1>1 DEF Exact
        <5>2. UpdtCnt[w][srch[w][i]] = i
          BY <5>1, <2>1 DEF Exact
        <5> QED
          BY <5>1, <5>2, <3>1, <3>2, <3>3
      <4> QED
        BY <4>1, <4>2
    <3>5. ASSUME NEW g \in Files
          PROVE  IF g \in Live' /\ w \in Words[g]
                 THEN UpdtCnt'[w][g] \in 1 .. n /\ srch'[w][UpdtCnt'[w][g]] = g
                 ELSE UpdtCnt'[w][g] = 0
      <4>1. CASE g = f
        BY <4>1, <3>1, <3>2, <3>3, <2>3, <1>1, <1>4
      <4>2. CASE g # f
        <5>1. UpdtCnt'[w][g] = UpdtCnt[w][g] /\ (g \in Live' <=> g \in Live)
          BY <4>2, <3>1, <3>3, <1>4
        <5>2. IF g \in Live /\ w \in Words[g]
              THEN UpdtCnt[w][g] \in 1 .. fcntbids[w] /\ srch[w][UpdtCnt[w][g]] = g
              ELSE UpdtCnt[w][g] = 0
          BY <2>1 DEF Exact
        <5> QED
          BY <5>1, <5>2, <3>2, <1>1
      <4> QED
        BY <4>1, <4>2
    <3> QED
      BY <3>1, <3>2, <3>4, <3>5 DEF Exact
  <2> QED
    BY <2>2, <2>3
<1>6. PostingsExact'
  BY <1>5 DEF PostingsExact, Exact
<1> QED
  BY <1>2, <1>3, <1>6

LEMMA DynamicRemoveInv ==
  ASSUME IndexInv, NEW f \in Files, Remove(f)
  PROVE  IndexInv'
<1> USE IndexAssumption DEF IndexInv
<1>1. /\ \A w \in Keywords : fcntbids[w] \in Nat /\ UpdtCnt[w] \in [Files -> Nat]
      /\ localBCNT[f] \in Nat \ {0}
  BY DEF Remove, TypeOK
<1>2. f \in Live /\ Live' = Live \ {f} /\ BlocksCounted'
  <2>1. /\ file[f] = 1 .. localBCNT[f] /\ file'[f] = {} /\ localBCNT'[f] = 0
        /\ \A g \in Files \ {f} : file'[g] = file[g] /\ localBCNT'[g] = localBCNT[g]
    BY <1>1 DEF Remove, BlocksCounted, TypeOK
  <2>2. 1 \in file[f] /\ file'[f] = 1 .. localBCNT'[f]
    BY <2>1, <1>1
  <2> QED
    BY <2>1, <2>2 DEF BlocksCounted, Live
<1>3. ASSUME NEW w \in Words[f]
      PROVE  w \in Keywords /\ UpdtCnt[w][f] \in 1 .. fcntbids[w] /\ srch[w][UpdtCnt[w][f]] = f
  BY <1>2 DEF PostingsExact
<1>4. \A w \in Words[f] : UpdtCnt[w][f] # 0
  BY <1>3, <1>1
<1>5. /\ UpdtCnt' = [w \in Keywords |-> IF w \in Words[f] THEN Handed(w, f) ELSE UpdtCnt[w]]
      /\ srch' = [w \in Keywords |-> IF w \in Words[f] THEN Moved(w, f) ELSE srch[w]]
      /\ fcntbids' = [k \in Keywords \cup Files |-> IF k \in Words[f] THEN fcntbids[k] - 1 ELSE fcntbids[k]]
  <2>1. {w \in Words[f] : UpdtCnt[w][f] # 0} = Words[f]
    BY <1>4
  <2> QED
    BY <2>1 DEF Remove, removekw
<1>6. ASSUME NEW w \in Keywords
      PROVE  /\ Exact(w)' /\ UpdtCnt'[w] \in [Files -> Nat] /\ fcntbids'[w] \in Nat
             /\ DOMAIN srch'[w] \subseteq Nat \ {0}
             /\ \A i \in DOMAIN srch'[w] : srch'[w][i] \in Files
  <2>1. Exact(w) /\ \A i \in 1 .. fcntbids[w] : srch[w][i] \in Files
    BY DEF PostingsExact, Exact, TypeOK
  <2>2. CASE w \notin Words[f]
    <3>1. srch'[w] = srch[w] /\ fcntbids'[w] = fcntbids[w] /\ UpdtCnt'[w] = UpdtCnt[w]
      BY <2>2, <1>5
    <3>2. Exact(w)'
      BY <2>1, <2>2, <3>1, <1>2 DEF Exact
    <3> QED
      BY <2>1, <3>1, <3>2, <1>1 DEF Exact
  <2>3. CASE w \in Words[f]
    <3> DEFINE n == fcntbids[w]
               d == UpdtCnt[w][f]
               g == srch[w][n]
    <3>1. d \in 1 .. n /\ n \in 1 .. n /\ srch[w][d] = f /\ g \in Files
      BY <1>1, <1>3, <2>1, <2>3
    <3>2. UpdtCnt[w][g] = n
      BY <3>1, <2>1 DEF Exact
    <3>3. /\ UpdtCnt'[w] = Handed(w, f) /\ srch'[w] = Moved(w, f) /\ fcntbids'[w] = n - 1
      BY <1>5, <2>3
    <3>4. DOMAIN srch[w] = 1 .. n
      BY <2>1 DEF Exact
    <3>5. /\ DOMAIN srch'[w] = 1 .. (n - 1)
          /\ \A i \in 1 .. (n - 1) : srch'[w][i] = IF i = d THEN g ELSE srch[w][i]
      BY <3>1, <3>3, <3>4, <1>1 DEF Moved, Put, Drop
    <3>6. UpdtCnt'[w] = [h \in Files |-> IF h = f THEN 0 ELSE IF h = g THEN d ELSE UpdtCnt[w][h]]
      <4>1. CASE d = n
        BY <4>1, <3>1, <3>2, <3>3, <1>1 DEF Handed
      <4>2. CASE d # n
        BY <4>2, <3>1, <3>2, <3>3, <1>1 DEF Handed
      <4> QED
        BY <4>1, <4>2
    <3>7. ASSUME NEW i \in 1 .. (n - 1) PROVE UpdtCnt'[w][srch'[w][i]] = i
      <4>1. i \in 1 .. n /\ i # n /\ srch[w][i] \in Files /\ UpdtCnt[w][srch[w][i]] = i
        BY <3>1, <3>4, <2>1 DEF Exact
      <4>2. CASE i = d
        <5>1. g # f
          BY <4>1, <4>2, <3>2
        <5> QED
          BY <5>1, <4>2, <3>1, <3>5, <3>6
      <4>3. CASE i # d
        <5>1. srch'[w][i] = srch[w][i] /\ srch[w][i] # f /\ srch[w][i] # g
          BY <4>1, <4>3, <3>2, <3>5
        <5> QED
          BY <5>1, <4>1, <3>6
      <4> QED
        BY <4>2, <4>3
    <3>8. ASSUME NEW h \in Files
          PROVE IF h \in Live' /\ w \in Words[h]
                THEN UpdtCnt'[w][h] \in 1 .. (n - 1) /\ srch'[w][UpdtCnt'[w][h]] = h
                ELSE UpdtCnt'[w][h] = 0
      <4>1. CASE h = f
        BY <4>1, <3>6, <1>2
      <4>2. CASE h # f /\ h = g
        BY <4>2, <3>1, <3>2, <3>4, <3>5, <3>6, <2>1, <1>1, <1>2 DEF Exact
      <4>3. CASE h # f /\ h # g
        <5>1. UpdtCnt'[w][h] = UpdtCnt[w][h] /\ (h \in Live' <=> h \in Live)
          BY <4>3, <3>6, <1>2
        <5>2. IF h \in Live /\ w \in Words[h]
              THEN UpdtCnt[w][h] \in 1 .. n /\ srch[w][UpdtCnt[w][h]] = h
              ELSE UpdtCnt[w][h] = 0
          BY <3>4, <2>1 DEF Exact
        <5>3. UpdtCnt[w][h] # n /\ UpdtCnt[w][h] # d
          BY <5>2, <4>3, <3>1
        <5> QED
          BY <5>1, <5>2, <5>3, <3>1, <3>5
      <4> QED
        BY <4>1, <4>2, <4>3
    <3>9. Exact(w)'
      BY <3>3, <3>5, <3>7, <3>8 DEF Exact
    <3>10. UpdtCnt'[w] \in [Files -> Nat] /\ fcntbids'[w] \in Nat
      BY <3>1, <3>3, <3>6, <1>1
    <3>11. /\ DOMAIN srch'[w] \subseteq Nat \ {0}
           /\ \A i \in DOMAIN srch'[w] : srch'[w][i] \in Files
      <4>1. \A i \in 1 .. (n - 1) : i \in Nat \ {0} /\ i \in 1 .. n
        BY <3>1
      <4> QED
        BY <4>1, <3>1, <3>5, <2>1
    <3> QED
      BY <3>9, <3>10, <3>11
  <2> QED
    BY <2>2, <2>3
<1>7. PostingsExact'
  BY <1>6 DEF PostingsExact, Exact
<1>8. TypeOK'
  <2>1. fcntbids' \in [Keywords \cup Files -> Nat]
    BY <1>5, <1>6 DEF TypeOK
  <2>2. UpdtCnt' \in [Keywords -> [Files -> Nat]] /\ DOMAIN srch' = Keywords
    BY <1>5, <1>6
  <2>3. localBCNT' \in [Files -> Nat] /\ file' \in [Files -> SUBSET Nat]
    BY <1>1 DEF Remove, TypeOK
  <2> QED
    BY <1>6, <2>1, <2>2, <2>3 DEF Remove, TypeOK
<1> QED
  BY <1>2, <1>7, <1>8

LEMMA DynamicNextInv == ASSUME IndexInv, [UpdateNext]_vars PROVE IndexInv'
<1>1. CASE UpdateNext
  BY <1>1, DynamicInsertInv, DynamicRemoveInv DEF UpdateNext
<1>2. CASE UNCHANGED vars
  BY <1>2 DEF vars, counters, maps, IndexInv, TypeOK, BlocksCounted, PostingsExact, Live
<1> QED BY <1>1, <1>2

\* Whatever files are inserted and removed, in whatever order, the numbers of
\* a keyword are those of its files, one each, without a gap (insert, remove).
THEOREM DynamicPostings == DynamicSpec => [](TypeOK /\ PostingsExact)
<1>1. IndexInv /\ [UpdateNext]_vars => IndexInv'
  BY DynamicNextInv
<1>2. IndexInv => TypeOK /\ PostingsExact
  BY DEF IndexInv
<1> QED BY <1>1, <1>2, DynamicInit, PTL DEF DynamicSpec
-----------------------------------------------------------------------------

(***************************************************************************)
(* Files inserted in a batch, then searched and removed.                   *)
(***************************************************************************)
StaticPromise == INSTANCE SearchIndex WITH docs <- S!Live

\* The counter of a keyword and that of the blocks of a file.
StaticCount(w) == IF local THEN localFCNT[w] ELSE totals[w]
StaticBlockCount(f) == IF local THEN localBCNT[f] ELSE totals[f]

StaticTypes ==
  /\ local \in BOOLEAN /\ ready \in BOOLEAN
  /\ localFCNT \in [Keywords -> Nat] /\ localBCNT \in [Files -> Nat]
  /\ totals \in [Keywords \cup Files -> Nat]
  /\ DOMAIN stored = Files /\ entries = [w \in Keywords |-> entries[w]]

\* The blocks counted are those stored; only a client that counts removes.
\* No number is ever recorded in UpdtCnt, so a removal leaves the entries.
StaticBlocks ==
  /\ \A f \in Files : \/ stored[f] = {} /\ StaticBlockCount(f) = 0
                      \/ stored[f] = 1 .. Blocks[f] /\ StaticBlockCount(f) = Blocks[f]
  /\ ~local => \A f \in Files : localBCNT[f] = 0
  /\ updated = [w \in Keywords |-> [f \in Files |-> 0]]

\* The entries of a keyword are numbered up to its counter; they are of files
\* that have it, and every stored file that has it is one.
StaticEntries ==
  \A w \in Keywords :
    /\ DOMAIN entries[w] = 1 .. StaticCount(w)
    /\ \A i \in DOMAIN entries[w] : entries[w][i] \in Files /\ w \in Words[entries[w][i]]
    /\ \A f \in S!Live : w \in Words[f] => \E i \in DOMAIN entries[w] : entries[w][i] = f

\* Once setup is over, fcnt has the counters that are not 0.
CountersStored ==
  ready /\ ~local => fcnt = [k \in {j \in Keywords \cup Files : totals[j] # 0} |-> totals[k]]

StaticInv == StaticTypes /\ StaticBlocks /\ StaticEntries /\ CountersStored

LEMMA StaticInit == S!Init => StaticInv /\ StaticPromise!Init
<1> SUFFICES ASSUME S!Init PROVE StaticInv /\ StaticPromise!Init
  OBVIOUS
<1> USE IndexAssumption DEF S!Init, S!NoEntry
<1>1. S!Live = {}
  BY DEF S!Live
<1>2. StaticTypes
  BY DEF StaticTypes
<1>3. StaticBlocks
  BY DEF StaticBlocks, StaticBlockCount
<1>4. StaticEntries
  <2>1. 1 .. 0 = {}
    OBVIOUS
  <2> QED BY <1>1, <2>1 DEF StaticEntries, StaticCount
<1>5. CountersStored
  BY DEF CountersStored
<1> QED BY <1>1, <1>2, <1>3, <1>4, <1>5 DEF StaticInv, StaticPromise!Init, S!Call

\* A file of the batch gets the next number of each of its keywords.
LEMMA StaticInsertInv ==
  ASSUME StaticInv, NEW f \in Files, S!BatchInsert(f)
  PROVE  StaticInv' /\ StaticPromise!Add(f)
<1> USE IndexAssumption DEF StaticInv
<1>1. /\ Words[f] \subseteq Keywords /\ Blocks[f] \in Nat \ {0}
      /\ local' = local /\ ready' = ready /\ ~ready /\ stored[f] = {} /\ UNCHANGED updated
      /\ stored' = [stored EXCEPT ![f] = 1 .. Blocks[f]]
      /\ entries' = [w \in Keywords |-> IF w \in Words[f] THEN S!Put(entries[w], S!Counted(w), f) ELSE entries[w]]
      /\ last' = S!Call("add", f, {})
  BY DEF S!BatchInsert
<1>2. \A w \in Keywords : StaticCount(w) \in Nat /\ S!Counted(w) = StaticCount(w) + 1
  BY DEF StaticTypes, StaticCount, S!Counted
<1>3. StaticTypes' /\ \A w \in Keywords : StaticCount(w)' = IF w \in Words[f] THEN StaticCount(w) + 1 ELSE StaticCount(w)
  <2>1. CASE local
    BY <1>1, <1>2, <2>1 DEF S!BatchInsert, StaticTypes, StaticCount, S!Counted
  <2>2. CASE ~local
    <3>1. /\ localFCNT' = localFCNT /\ localBCNT' = localBCNT
          /\ totals' = [k \in Keywords \cup Files |->
                            IF k = f THEN Blocks[f]
                            ELSE IF k \in Words[f] THEN S!Counted(k) ELSE totals[k]]
      BY <2>2 DEF S!BatchInsert
    <3>2. \A k \in Keywords \cup Files : totals'[k] \in Nat
      BY <1>1, <1>2, <3>1 DEF StaticTypes
    <3>3. StaticTypes'
      BY <1>1, <3>1, <3>2 DEF StaticTypes
    <3> QED BY <1>1, <1>2, <2>2, <3>1, <3>3 DEF StaticCount
  <2> QED BY <2>1, <2>2
<1>4. StaticBlocks'
  <2>1. \A g \in Files : StaticBlockCount(g)' = IF g = f THEN Blocks[f] ELSE StaticBlockCount(g)
    BY <1>1 DEF S!BatchInsert, StaticBlockCount, StaticTypes
  <2>2. local' \/ localBCNT' = localBCNT
    BY <1>1 DEF S!BatchInsert
  <2>3. \A g \in Files : stored'[g] = IF g = f THEN 1 .. Blocks[f] ELSE stored[g]
    BY <1>1 DEF StaticTypes
  <2> QED BY <1>1, <2>1, <2>2, <2>3 DEF StaticBlocks
<1>5. f \notin S!Live /\ S!Live' = S!Live \cup {f}
  <2>1. 1 \in 1 .. Blocks[f]
    BY <1>1
  <2> QED BY <1>1, <2>1 DEF S!Live, StaticTypes
<1>6. StaticEntries'
  <2> SUFFICES ASSUME NEW w \in Keywords
               PROVE  /\ DOMAIN entries'[w] = 1 .. StaticCount(w)'
                      /\ \A i \in DOMAIN entries'[w] : entries'[w][i] \in Files /\ w \in Words[entries'[w][i]]
                      /\ \A g \in S!Live' : w \in Words[g] => \E i \in DOMAIN entries'[w] : entries'[w][i] = g
    BY DEF StaticEntries
  <2>1. /\ DOMAIN entries[w] = 1 .. StaticCount(w)
        /\ \A i \in DOMAIN entries[w] : entries[w][i] \in Files /\ w \in Words[entries[w][i]]
        /\ \A g \in S!Live : w \in Words[g] => \E i \in DOMAIN entries[w] : entries[w][i] = g
    BY DEF StaticEntries
  <2>2. CASE w \notin Words[f]
    BY <1>1, <1>3, <1>5, <2>1, <2>2
  <2>3. CASE w \in Words[f]
    <3> DEFINE n == StaticCount(w) + 1
    <3>1. entries'[w] = [j \in DOMAIN entries[w] \cup {n} |-> IF j = n THEN f ELSE entries[w][j]]
      BY <1>1, <1>2, <2>3 DEF S!Put
    <3>2. DOMAIN entries'[w] = 1 .. n /\ StaticCount(w)' = n /\ n \notin DOMAIN entries[w] /\ n \in 1 .. n
      BY <1>2, <1>3, <2>1, <2>3, <3>1
    <3>3. entries'[w][n] = f /\ \A j \in DOMAIN entries[w] : j \in DOMAIN entries'[w] /\ entries'[w][j] = entries[w][j]
      BY <3>1, <3>2
    <3>4. \A i \in DOMAIN entries'[w] : i = n \/ i \in DOMAIN entries[w]
      BY <3>1
    <3> QED BY <1>5, <2>1, <2>3, <3>2, <3>3, <3>4
  <2> QED BY <2>2, <2>3
<1>7. CountersStored'
  BY <1>1 DEF CountersStored
<1>8. StaticPromise!Add(f)
  BY <1>1, <1>5 DEF StaticPromise!Add, StaticPromise!Call, S!Call
<1> QED BY <1>3, <1>4, <1>6, <1>7, <1>8

\* A removal takes the blocks of its file and leaves its entries.
LEMMA StaticRemoveInv ==
  ASSUME StaticInv, NEW f \in Files, S!Remove(f)
  PROVE  StaticInv' /\ StaticPromise!Remove(f)
<1> USE IndexAssumption DEF StaticInv
<1>1. /\ local /\ ready' = ready /\ local' = local /\ localBCNT[f] # 0
      /\ localFCNT' = localFCNT
      /\ localBCNT' = [localBCNT EXCEPT ![f] = 0]
      /\ stored' = [stored EXCEPT ![f] = @ \ (1 .. localBCNT[f])]
      /\ last' = S!Call("remove", f, {})
  BY DEF S!Remove, StaticBlocks
<1>2. updated' = updated /\ entries' = entries /\ totals' = totals
  <2>1. {w \in Words[f] : updated[w][f] # 0} = {}
    BY DEF StaticBlocks
  <2>2. /\ updated' = [w \in Keywords |-> updated[w]]
        /\ entries' = [w \in Keywords |-> entries[w]]
        /\ totals' = [k \in Keywords \cup Files |-> totals[k]]
    BY <2>1 DEF S!Remove, S!removekw
  <2>3. updated = [w \in Keywords |-> updated[w]]
    BY DEF StaticBlocks
  <2>4. entries' = entries
    BY <2>2 DEF StaticTypes
  <2> QED BY <2>2, <2>3, <2>4 DEF StaticTypes
<1>3. stored[f] = 1 .. Blocks[f] /\ localBCNT[f] = Blocks[f] /\ Blocks[f] \in Nat \ {0}
  BY <1>1 DEF StaticBlocks, StaticBlockCount
<1>4. \A g \in Files : stored'[g] = (IF g = f THEN {} ELSE stored[g])
                       /\ StaticBlockCount(g)' = IF g = f THEN 0 ELSE StaticBlockCount(g)
  BY <1>1, <1>3 DEF StaticBlockCount, StaticTypes
<1>5. StaticBlocks'
  BY <1>1, <1>2, <1>4 DEF StaticBlocks
<1>6. f \in S!Live /\ S!Live' = S!Live \ {f}
  <2>1. 1 \in stored[f]
    BY <1>3
  <2> QED BY <1>4, <2>1 DEF S!Live
<1>7. StaticTypes'
  BY <1>1, <1>2 DEF StaticTypes
<1>8. StaticEntries'
  BY <1>1, <1>2, <1>6 DEF StaticEntries, StaticCount
<1>9. CountersStored'
  BY <1>1 DEF CountersStored
<1>10. StaticPromise!Remove(f)
  BY <1>1, <1>6 DEF StaticPromise!Remove, StaticPromise!Call, S!Call
<1> QED BY <1>5, <1>7, <1>8, <1>9, <1>10

LEMMA StaticEndSetupInv == StaticInv /\ S!EndSetup => StaticInv' /\ UNCHANGED <<S!Live, last>>
<1> SUFFICES ASSUME StaticInv, S!EndSetup PROVE StaticInv' /\ UNCHANGED <<S!Live, last>>
  OBVIOUS
<1>1. UNCHANGED <<local, localFCNT, localBCNT, totals, updated, entries, stored, last>> /\ ready' = TRUE
  BY DEF S!EndSetup, S!counters
<1>2. UNCHANGED S!Live
  BY <1>1 DEF S!Live
<1>3. StaticTypes'
  BY <1>1 DEF StaticInv, StaticTypes
<1>4. StaticBlocks'
  BY <1>1 DEF StaticInv, StaticBlocks, StaticBlockCount
<1>5. StaticEntries'
  BY <1>1, <1>2 DEF StaticInv, StaticEntries, StaticCount
<1>6. CountersStored'
  BY <1>1 DEF S!EndSetup, CountersStored, StaticInv, StaticTypes
<1> QED BY <1>1, <1>2, <1>3, <1>4, <1>5, <1>6 DEF StaticInv

LEMMA StaticSameInv == StaticInv /\ UNCHANGED <<local, ready, S!counters, S!maps>> => StaticInv' /\ UNCHANGED S!Live
<1> SUFFICES ASSUME StaticInv, UNCHANGED <<local, ready, S!counters, S!maps>>
             PROVE  StaticInv' /\ UNCHANGED S!Live
  OBVIOUS
<1>1. UNCHANGED <<local, ready, localFCNT, localBCNT, totals, updated, entries, stored, fcnt>>
  BY DEF S!counters, S!maps
<1>2. UNCHANGED S!Live
  BY <1>1 DEF S!Live
<1>3. StaticTypes'
  BY <1>1 DEF StaticInv, StaticTypes
<1>4. StaticBlocks'
  BY <1>1 DEF StaticInv, StaticBlocks, StaticBlockCount
<1>5. StaticEntries' /\ CountersStored'
  BY <1>1, <1>2 DEF StaticInv, StaticEntries, CountersStored, StaticCount
<1> QED BY <1>2, <1>3, <1>4, <1>5 DEF StaticInv

\* What is found under the numbers of a keyword is the stored files that have
\* it, and removed ones, which have no blocks.
LEMMA StaticFound ==
  ASSUME StaticInv, NEW w \in Keywords, NEW count,
         \A f \in S!Live : count[f] = Blocks[f]
  PROVE  S!BlocksFound(S!Numbers(entries[w], StaticCount(w)), count) =
           StaticPromise!BlocksOf({f \in S!Live : w \in Words[f]})
<1> DEFINE ids == S!Numbers(entries[w], StaticCount(w))
           F == {f \in S!Live : w \in Words[f]}
<1>1. ids = {entries[w][i] : i \in DOMAIN entries[w]}
  BY DEF StaticInv, StaticEntries, S!Numbers
<1>2. F \subseteq ids /\ ids \subseteq Files /\ \A f \in ids : w \in Words[f]
  BY <1>1 DEF StaticInv, StaticEntries
<1>3. \A f \in ids : f \in F \/ stored[f] = {}
  BY <1>2 DEF S!Live
<1>4. \A f \in F : stored[f] \cap (1 .. count[f]) = 1 .. Blocks[f]
  <2> SUFFICES ASSUME NEW f \in F PROVE stored[f] \cap (1 .. count[f]) = 1 .. Blocks[f]
    OBVIOUS
  <2>1. stored[f] # {} /\ f \in Files /\ count[f] = Blocks[f]
    BY DEF S!Live
  <2>2. stored[f] = 1 .. Blocks[f]
    BY <2>1 DEF StaticInv, StaticBlocks
  <2> QED BY <2>1, <2>2
<1>5. S!BlocksFound(ids, count) = UNION {{f} \X (stored[f] \cap (1 .. count[f])) : f \in ids}
  BY DEF S!BlocksFound
<1>6. StaticPromise!BlocksOf(F) = UNION {{f} \X (1 .. Blocks[f]) : f \in F}
  BY DEF StaticPromise!BlocksOf
<1>7. ASSUME NEW x PROVE x \in S!BlocksFound(ids, count) <=> x \in StaticPromise!BlocksOf(F)
  <2>1. x \in S!BlocksFound(ids, count) <=> \E f \in ids : x \in {f} \X (stored[f] \cap (1 .. count[f]))
    BY <1>5
  <2>2. x \in StaticPromise!BlocksOf(F) <=> \E f \in F : x \in {f} \X (1 .. Blocks[f])
    BY <1>6
  <2>3. ASSUME NEW f \in ids, x \in {f} \X (stored[f] \cap (1 .. count[f]))
        PROVE  f \in F /\ x \in {f} \X (1 .. Blocks[f])
    BY <1>3, <1>4, <2>3
  <2>4. ASSUME NEW f \in F, x \in {f} \X (1 .. Blocks[f])
        PROVE  f \in ids /\ x \in {f} \X (stored[f] \cap (1 .. count[f]))
    BY <1>2, <1>4, <2>4
  <2> QED BY <2>1, <2>2, <2>3, <2>4
<1> QED BY <1>7

LEMMA StaticSearchesFind ==
  ASSUME StaticInv, NEW w \in Keywords, S!Search(w) \/ S!SimpleBatchSearch(w) \/ S!BatchSearch(w)
  PROVE  StaticInv' /\ StaticPromise!Search(w)
<1> DEFINE answer == StaticPromise!BlocksOf({f \in S!Live : w \in Words[f]})
<1>1. ASSUME local
      PROVE  /\ StaticCount(w) = localFCNT[w] /\ 1 .. StaticCount(w) \subseteq DOMAIN entries[w]
             /\ \A f \in S!Live : localBCNT[f] = Blocks[f]
  BY <1>1 DEF StaticInv, StaticEntries, StaticBlocks, StaticCount, StaticBlockCount, S!Live
<1>2. CASE S!Search(w)
  <2>1. local
    BY <1>2 DEF S!Search
  <2>2. S!Answer(w, S!BlocksFound(S!Numbers(entries[w], StaticCount(w)) \cup {}, localBCNT))
    BY <1>1, <1>2, <2>1 DEF S!Search
  <2>3. S!Numbers(entries[w], StaticCount(w)) \cup {} = S!Numbers(entries[w], StaticCount(w))
    OBVIOUS
  <2>4. S!Answer(w, answer)
    BY <1>1, <2>1, <2>2, <2>3, StaticFound
  <2> QED BY <2>4, StaticSameInv DEF S!Answer, StaticPromise!Search, StaticPromise!Call, S!Call
<1>3. CASE S!SimpleBatchSearch(w)
  <2>1. local
    BY <1>3 DEF S!SimpleBatchSearch
  <2>2. S!Answer(w, answer)
    BY <1>1, <1>3, <2>1, StaticFound DEF S!SimpleBatchSearch
  <2> QED BY <2>2, StaticSameInv DEF S!Answer, StaticPromise!Search, StaticPromise!Call, S!Call
<1>4. CASE S!BatchSearch(w)
  <2>1. ready /\ ~local
    BY <1>4 DEF S!BatchSearch
  <2>2. fcnt = [k \in {j \in Keywords \cup Files : totals[j] # 0} |-> totals[k]]
    BY <2>1 DEF StaticInv, CountersStored
  <2>3. PICK fc \in IF w \in DOMAIN fcnt THEN {fcnt[w]} ELSE 0 .. S!Cardinality(Files) :
          S!Answer(w, S!BlocksFound(S!Numbers(entries[w], fc), fcnt))
    BY <1>4 DEF S!BatchSearch
  <2>4. S!Numbers(entries[w], fc) = S!Numbers(entries[w], StaticCount(w))
    <3>1. CASE w \in DOMAIN fcnt
      BY <2>1, <2>2, <2>3, <3>1 DEF StaticCount
    <3>2. CASE w \notin DOMAIN fcnt
      <4>1. StaticCount(w) = 0 /\ 1 .. 0 = {}
        BY <2>1, <2>2, <3>2 DEF StaticCount
      <4>2. DOMAIN entries[w] = {}
        BY <4>1 DEF StaticInv, StaticEntries
      <4> QED BY <4>2 DEF S!Numbers
    <3> QED BY <3>1, <3>2
  <2>5. \A f \in S!Live : fcnt[f] = Blocks[f]
    <3> SUFFICES ASSUME NEW f \in S!Live PROVE fcnt[f] = Blocks[f]
      OBVIOUS
    <3>1. f \in Files /\ totals[f] = Blocks[f] /\ Blocks[f] # 0
      BY <2>1, IndexAssumption DEF S!Live, StaticInv, StaticBlocks, StaticBlockCount
    <3> QED BY <2>2, <3>1
  <2>6. S!Answer(w, answer)
    BY <2>3, <2>4, <2>5, StaticFound
  <2> QED BY <2>6, StaticSameInv DEF S!Answer, StaticPromise!Search, StaticPromise!Call, S!Call
<1> QED BY <1>2, <1>3, <1>4

LEMMA StaticStep ==
  ASSUME StaticInv, [S!StaticNext]_S!vars
  PROVE  StaticInv' /\ [StaticPromise!Next]_StaticPromise!indexVars
<1>1. CASE \E f \in Files : S!BatchInsert(f)
  BY <1>1, StaticInsertInv DEF StaticPromise!Next
<1>2. CASE \E f \in Files : S!Remove(f)
  BY <1>2, StaticRemoveInv DEF StaticPromise!Next
<1>3. CASE S!SearchNext
  BY <1>3, StaticSearchesFind DEF S!SearchNext, StaticPromise!Next
<1>4. CASE S!EndSetup
  BY <1>4, StaticEndSetupInv DEF StaticPromise!indexVars
<1>5. CASE UNCHANGED S!vars
  BY <1>5, StaticSameInv DEF S!vars, StaticPromise!indexVars
<1> QED BY <1>1, <1>2, <1>3, <1>4, <1>5 DEF S!StaticNext, S!SetupNext

\* Whatever files are inserted in the batch and removed after it, by a client
\* that counts or by the maps, every search returns the blocks of the files
\* that have the keyword and no others: Orion implements SearchIndex (batchInsert,
\* endSetup, search, batchSearch, simplebatchSearch, remove).
THEOREM StaticBehavesAsSearchIndex == S!StaticSpec => StaticPromise!Spec
<1>1. S!Init => StaticInv /\ StaticPromise!Init
  BY StaticInit
<1>2. StaticInv /\ [S!StaticNext]_S!vars => StaticInv' /\ [StaticPromise!Next]_StaticPromise!indexVars
  BY StaticStep
<1> QED BY <1>1, <1>2, PTL DEF S!StaticSpec, StaticPromise!Spec
-----------------------------------------------------------------------------

(***************************************************************************)
(* "btree" and "blocks": the index over B-trees.                           *)
(***************************************************************************)
TreeTypes ==
  /\ ready \in BOOLEAN
  /\ fcntbtree \in [Keywords -> Nat] /\ localBCNT \in [Files -> Nat]
  /\ tree = [k \in DOMAIN tree |-> tree[k]]

\* An entry has a keyword of its file and a number that was given out, and
\* its file was inserted.
IsEntry(k) ==
  /\ k = <<k[1], k[2]>> /\ k[1] \in Keywords /\ k[2] \in B!Numbers(k[1])
  /\ tree[k] \in Files /\ k[1] \in Words[tree[k]] /\ localBCNT[tree[k]] # 0

\* No file has two numbers under one keyword.
OneNumber ==
  \A k, j \in DOMAIN tree : k[1] = j[1] /\ tree[k] = tree[j] => k = j

\* The blocks stored of a file are those counted, and all of them.
TreeBlocksCounted ==
  /\ stored = [f \in Files |-> 1 .. localBCNT[f]]
  /\ \A f \in Files : localBCNT[f] \in {0, Blocks[f]}

TreeEntries == /\ \A k \in DOMAIN tree : IsEntry(k)
           /\ OneNumber

TreeInv == TreeTypes /\ TreeBlocksCounted /\ TreeEntries

\* No keyword has a number at first.
LEMMA TreeInitInv == ASSUME B!BTreeIndexAssumption PROVE B!Init => TreeInv
<1> SUFFICES ASSUME B!Init PROVE TreeInv
  OBVIOUS
<1> USE DEF B!Init, B!NoEntry
<1>1. DOMAIN tree = {} /\ tree = [k \in DOMAIN tree |-> tree[k]]
  OBVIOUS
<1>2. TreeTypes
  BY <1>1 DEF TreeTypes
<1>3. TreeBlocksCounted
  <2>1. 1 .. 0 = {}
    OBVIOUS
  <2> QED BY <2>1 DEF TreeBlocksCounted
<1>4. TreeEntries
  BY <1>1 DEF TreeEntries, OneNumber
<1> QED BY <1>2, <1>3, <1>4 DEF TreeInv

\* The entries a file is inserted with: each keyword's next number.
LEMMA TreeNewEntries ==
  ASSUME B!BTreeIndexAssumption, TreeInv, NEW f \in Files, B!Insert(f)
  PROVE  /\ \A w \in Words[f] : /\ w \in Keywords /\ B!NextKey(w) \notin DOMAIN tree
                                /\ B!NextKey(w) = <<w, fcntbtree'[w]>>
                                /\ fcntbtree'[w] = fcntbtree[w] + 1
         /\ \A w \in Keywords \ Words[f] : fcntbtree'[w] = fcntbtree[w]
         /\ DOMAIN tree' = DOMAIN tree \cup {B!NextKey(w) : w \in Words[f]}
         /\ \A k \in DOMAIN tree : tree'[k] = tree[k]
         /\ \A w \in Words[f] : tree'[B!NextKey(w)] = f
         /\ \A k \in DOMAIN tree : tree[k] # f
         /\ tree' = [k \in DOMAIN tree' |-> tree'[k]]
<1> DEFINE new == {B!NextKey(w) : w \in Words[f]}
<1>1. Words[f] \subseteq Keywords /\ \A w \in Keywords : fcntbtree[w] \in Nat
  BY DEF B!BTreeIndexAssumption, TreeInv, TreeTypes
<1>2. \A w \in Words[f] : fcntbtree'[w] = fcntbtree[w] + 1
  BY <1>1 DEF B!Insert, B!NewCount
<1>3. \A w \in Keywords \ Words[f] : fcntbtree'[w] = fcntbtree[w]
  BY <1>1 DEF B!Insert
<1>4. ASSUME NEW w \in Words[f] PROVE B!NextKey(w) \notin DOMAIN tree
  <2>1. B!NextKey(w)[1] = w /\ B!NextKey(w)[2] = fcntbtree[w] + 1
    BY DEF B!NextKey, B!createBid
  <2>2. ~ (fcntbtree[w] + 1 \in 1 .. fcntbtree[w])
    BY <1>1
  <2> QED BY <2>1, <2>2 DEF TreeInv, TreeEntries, IsEntry, B!Numbers
<1>5. tree' = [k \in DOMAIN tree \cup new |-> IF k \in new THEN f ELSE tree[k]]
  BY DEF B!Insert, B!Override
<1>6. \A k \in DOMAIN tree : k \notin new
  BY <1>4
<1>7. \A k \in DOMAIN tree : tree[k] # f
  BY DEF B!Insert, TreeInv, TreeEntries, IsEntry
<1>8. \A w \in Words[f] : B!NextKey(w) = <<w, fcntbtree'[w]>>
  BY <1>2 DEF B!NextKey, B!createBid
<1>9. DOMAIN tree' = DOMAIN tree \cup new /\ tree' = [k \in DOMAIN tree' |-> tree'[k]]
  BY <1>5
<1>10. \A k \in DOMAIN tree : tree'[k] = tree[k]
  BY <1>5, <1>6
<1>11. \A w \in Words[f] : tree'[B!NextKey(w)] = f
  BY <1>5
<1> QED BY <1>1, <1>2, <1>3, <1>4, <1>7, <1>8, <1>9, <1>10, <1>11

\* A file gets one number under each of its keywords.
LEMMA TreeInsertInv ==
  ASSUME B!BTreeIndexAssumption, TreeInv, NEW f \in Files, B!Insert(f)
  PROVE  TreeInv'
<1> DEFINE new == {B!NextKey(w) : w \in Words[f]}
<1>1. /\ \A w \in Words[f] : /\ w \in Keywords /\ B!NextKey(w) \notin DOMAIN tree
                             /\ B!NextKey(w) = <<w, fcntbtree'[w]>> /\ fcntbtree'[w] = fcntbtree[w] + 1
      /\ \A w \in Keywords \ Words[f] : fcntbtree'[w] = fcntbtree[w]
      /\ DOMAIN tree' = DOMAIN tree \cup new
      /\ \A k \in DOMAIN tree : tree'[k] = tree[k] /\ tree[k] # f
      /\ \A w \in Words[f] : tree'[B!NextKey(w)] = f
      /\ tree' = [k \in DOMAIN tree' |-> tree'[k]]
  BY TreeNewEntries
<1>2. /\ Blocks[f] \in Nat \ {0} /\ ready' = ready
      /\ localBCNT' = [localBCNT EXCEPT ![f] = Blocks[f]]
      /\ stored' = [stored EXCEPT ![f] = 1 .. Blocks[f]]
      /\ DOMAIN fcntbtree' = Keywords
      /\ fcntbtree' = [w \in Keywords |-> fcntbtree'[w]]
  BY DEF B!BTreeIndexAssumption, B!Insert
<1>3. TreeTypes'
  <2>1. \A w \in Keywords : fcntbtree'[w] \in Nat
    BY <1>1 DEF TreeInv, TreeTypes
  <2> QED BY <1>1, <1>2, <2>1 DEF TreeInv, TreeTypes
<1>4. TreeBlocksCounted'
  BY <1>2 DEF TreeInv, TreeTypes, TreeBlocksCounted
<1>5. \A g \in Files : localBCNT[g] # 0 => localBCNT'[g] # 0
  BY <1>2 DEF TreeInv, TreeTypes
<1>6. localBCNT'[f] # 0
  BY <1>2 DEF TreeInv, TreeTypes
<1>7. \A w \in Keywords : B!Numbers(w) \subseteq B!Numbers(w)'
  BY <1>1 DEF B!Numbers, TreeInv, TreeTypes
<1>8. ASSUME NEW k \in DOMAIN tree PROVE IsEntry(k)'
  <2>1. IsEntry(k)
    BY DEF TreeInv, TreeEntries
  <2> QED BY <1>1, <1>5, <1>7, <2>1 DEF IsEntry
<1>9. ASSUME NEW w \in Words[f], NEW k, k = B!NextKey(w) PROVE IsEntry(k)' /\ k[1] = w
  <2>1. k = <<w, fcntbtree'[w]>> /\ tree'[k] = f /\ w \in Keywords
    BY <1>1, <1>9
  <2>2. fcntbtree'[w] \in B!Numbers(w)'
    BY <1>1, <2>1 DEF B!Numbers, TreeInv, TreeTypes
  <2>3. k[1] = w /\ k[2] = fcntbtree'[w]
    BY <2>1
  <2>4. k = <<k[1], k[2]>> /\ k[1] \in Keywords /\ k[2] \in B!Numbers(k[1])'
    BY <2>1, <2>2, <2>3 DEF B!Numbers
  <2>5. tree'[k] \in Files /\ k[1] \in Words[tree'[k]] /\ localBCNT'[tree'[k]] # 0
    BY <1>6, <2>1, <2>3
  <2> QED BY <2>3, <2>4, <2>5 DEF IsEntry
<1>10. ASSUME NEW k \in DOMAIN tree' PROVE IsEntry(k)'
  BY <1>1, <1>8, <1>9
<1>11. OneNumber'
  <2> SUFFICES ASSUME NEW k \in DOMAIN tree', NEW j \in DOMAIN tree', k[1] = j[1], tree'[k] = tree'[j]
               PROVE  k = j
    BY DEF OneNumber
  <2>1. CASE k \in DOMAIN tree /\ j \in DOMAIN tree
    BY <1>1, <2>1 DEF TreeInv, TreeEntries, OneNumber
  <2>2. CASE k \in DOMAIN tree /\ j \in new
    BY <1>1, <2>2
  <2>3. CASE k \in new /\ j \in DOMAIN tree
    BY <1>1, <2>3
  <2>4. CASE k \in new /\ j \in new
    BY <1>9, <2>4
  <2> QED BY <1>1, <2>1, <2>2, <2>3, <2>4
<1> QED BY <1>3, <1>4, <1>10, <1>11 DEF TreeInv, TreeEntries

\* A removal takes all the entries of its keyword out.
LEMMA TreeRemoveInv ==
  ASSUME TreeInv, NEW w \in Keywords, B!Remove(w)
  PROVE  /\ TreeInv'
         /\ DOMAIN tree' = {k \in DOMAIN tree : k[1] # w}
         /\ \A k \in DOMAIN tree' : tree'[k] = tree[k]
<1>1. /\ UNCHANGED <<ready, fcntbtree, localBCNT, stored>>
      /\ tree' = [k \in DOMAIN tree \ B!Removed(w) |-> tree[k]]
  BY DEF B!Remove
<1>2. ASSUME NEW k \in DOMAIN tree PROVE k \in B!Removed(w) <=> k[1] = w
  <2>1. IsEntry(k)
    BY DEF TreeInv, TreeEntries
  <2>2. k[1] = w => k = B!createBid(w, k[2]) /\ k[2] \in B!Numbers(w)
    BY <2>1 DEF IsEntry, B!createBid
  <2>3. \A i \in B!Numbers(w) : B!createBid(w, i)[1] = w
    BY DEF B!createBid
  <2> QED BY <2>2, <2>3 DEF B!Removed
<1>3. /\ DOMAIN tree' = {k \in DOMAIN tree : k[1] # w}
      /\ \A k \in DOMAIN tree' : tree'[k] = tree[k]
      /\ tree' = [k \in DOMAIN tree' |-> tree'[k]]
  BY <1>1, <1>2
<1>4. TreeTypes' /\ TreeBlocksCounted'
  BY <1>1, <1>3 DEF TreeInv, TreeTypes, TreeBlocksCounted
<1>5. ASSUME NEW k \in DOMAIN tree' PROVE IsEntry(k)'
  BY <1>1, <1>3 DEF TreeInv, TreeEntries, IsEntry, B!Numbers
<1>6. OneNumber'
  BY <1>3 DEF TreeInv, TreeEntries, OneNumber
<1> QED BY <1>3, <1>4, <1>5, <1>6 DEF TreeInv, TreeEntries

\* The calls that only read leave the invariant alone.
LEMMA TreeSameInv == TreeInv /\ UNCHANGED <<ready, fcntbtree, tree, localBCNT, stored>> => TreeInv'
BY DEF TreeInv, TreeTypes, TreeBlocksCounted, TreeEntries, IsEntry, OneNumber, B!Numbers

\* Setup's end moves the entries to the B-tree.
LEMMA TreeEndSetupInv == TreeInv /\ B!EndSetup => TreeInv'
BY DEF B!EndSetup, TreeInv, TreeTypes, TreeBlocksCounted, TreeEntries, IsEntry, OneNumber, B!Numbers
LEMMA TreeStepInv ==
  ASSUME B!BTreeIndexAssumption, TreeInv, [B!Next \/ B!BlocksNext]_B!vars
  PROVE  TreeInv'
<1>1. CASE \E f \in Files : B!Insert(f)
  BY <1>1, TreeInsertInv
<1>2. CASE \E w \in Keywords : B!Remove(w)
  BY <1>2, TreeRemoveInv
<1>3. CASE B!EndSetup
  BY <1>3, TreeEndSetupInv
<1>4. CASE \E w \in Keywords : B!Search(w) \/ B!BatchSearch(w) \/ B!SearchBlocks(w)
  BY <1>4, TreeSameInv DEF B!Search, B!BatchSearch, B!SearchBlocks
<1>5. CASE UNCHANGED B!vars
  BY <1>5, TreeSameInv DEF B!vars
<1> QED BY <1>1, <1>2, <1>3, <1>4, <1>5 DEF B!Next, B!BlocksNext, B!UpdateNext

LEMMA TreeInductive ==
  ASSUME B!BTreeIndexAssumption
  PROVE  (B!Spec => []TreeInv) /\ (B!BlocksSpec => []TreeInv)
<1>1. TreeInv /\ [B!Next]_B!vars => TreeInv'
  BY TreeStepInv
<1>2. TreeInv /\ [B!BlocksNext]_B!vars => TreeInv'
  BY TreeStepInv
<1>3. B!Init => TreeInv
  BY TreeInitInv
<1>4. B!Spec => []TreeInv
  BY <1>1, <1>3, PTL DEF B!Spec
<1>5. B!BlocksSpec => []TreeInv
  BY <1>2, <1>3, PTL DEF B!BlocksSpec
<1> QED BY <1>4, <1>5

\* The number a keyword's next file gets is not in the tree.
LEMMA NextIsFree == TreeInv => B!NextKeyIsFree
<1> SUFFICES ASSUME TreeInv, NEW w \in Keywords PROVE B!NextKey(w) \notin DOMAIN tree
  BY DEF B!NextKeyIsFree
<1>1. B!NextKey(w)[1] = w /\ B!NextKey(w)[2] = fcntbtree[w] + 1 /\ fcntbtree[w] \in Nat
  BY DEF B!NextKey, B!createBid, TreeInv, TreeTypes
<1>2. ~ (fcntbtree[w] + 1 \in 1 .. fcntbtree[w])
  BY <1>1
<1> QED BY <1>1, <1>2 DEF TreeInv, TreeEntries, IsEntry, B!Numbers

\* A search lists no file twice.
LEMMA NoneTwice == TreeInv => B!EachOnce
<1> SUFFICES ASSUME TreeInv, NEW w \in Keywords, NEW i \in B!Numbers(w), NEW j \in B!Numbers(w),
                    B!Results(w)[i] = B!Results(w)[j], B!Results(w)[i] # 0
             PROVE  i = j
  BY DEF B!EachOnce
<1>1. B!createBid(w, i) \in DOMAIN tree /\ B!createBid(w, j) \in DOMAIN tree
  BY DEF B!Results
<1>2. tree[B!createBid(w, i)] = tree[B!createBid(w, j)]
  BY <1>1 DEF B!Results
<1>3. B!createBid(w, i) = B!createBid(w, j)
  <2>1. B!createBid(w, i)[1] = B!createBid(w, j)[1]
    BY DEF B!createBid
  <2> QED BY <1>1, <1>2, <2>1 DEF TreeInv, TreeEntries, OneNumber
<1> QED BY <1>3 DEF B!createBid

\* The number a keyword's next file will get is not in the tree: Orion never
\* inserts a key that is there, which BTree takes for granted (insert,
\* setupInsert, remove).
THEOREM NextNumberIsFree ==
  ASSUME B!BTreeIndexAssumption
  PROVE  B!Spec => []B!NextKeyIsFree
BY NextIsFree, TreeInductive, PTL

\* A search lists no file twice, after any insertions and removals.
THEOREM ListedOnce ==
  ASSUME B!BTreeIndexAssumption
  PROVE  B!Spec => []B!EachOnce
BY NoneTwice, TreeInductive, PTL

(***************************************************************************)
(* What a search finds.                                                    *)
(***************************************************************************)
TreeFound == INSTANCE Postings WITH postings <- B!Posted

\* The results of the numbers given out are the files posted, and zeros.
LEMMA ResultsAre ==
  ASSUME B!BTreeIndexAssumption, TreeInv, NEW w \in Keywords
  PROVE  B!SearchResults(w) = B!Posted[w] /\ B!Ids(B!Results(w)) \in {B!Posted[w], B!Posted[w] \cup {0}}
<1>1. \A i \in B!Numbers(w) : B!Results(w)[i] =
        IF B!createBid(w, i) \in DOMAIN tree THEN tree[B!createBid(w, i)] ELSE 0
  BY DEF B!Results
<1>2. DOMAIN B!Results(w) = B!Numbers(w)
  BY DEF B!Results
<1>3. ASSUME NEW k \in DOMAIN tree, k[1] = w
      PROVE  k[2] \in B!Numbers(w) /\ B!createBid(w, k[2]) = k /\ tree[k] # 0
  <2>1. IsEntry(k)
    BY DEF TreeInv, TreeEntries
  <2> QED BY <1>3, <2>1 DEF IsEntry, B!createBid, B!BTreeIndexAssumption
<1>4. \A i \in B!Numbers(w) : B!createBid(w, i)[1] = w
  BY DEF B!createBid
<1>5. B!Posted[w] = {tree[k] : k \in {j \in DOMAIN tree : j[1] = w}}
  BY DEF B!Posted
<1>6. B!Posted[w] \subseteq B!Ids(B!Results(w)) /\ 0 \notin B!Posted[w]
  BY <1>1, <1>2, <1>3, <1>5 DEF B!Ids
<1>7. B!Ids(B!Results(w)) \subseteq B!Posted[w] \cup {0}
  BY <1>1, <1>2, <1>4, <1>5 DEF B!Ids
<1> QED BY <1>6, <1>7 DEF B!SearchResults

\* An insertion posts the file under its keywords, a removal empties its own.
LEMMA InsertPosts ==
  ASSUME B!BTreeIndexAssumption, TreeInv, NEW f \in Files, B!Insert(f)
  PROVE  TreeFound!Insert(f)
<1>1. /\ \A w \in Words[f] : B!NextKey(w)[1] = w /\ tree'[B!NextKey(w)] = f
      /\ DOMAIN tree' = DOMAIN tree \cup {B!NextKey(w) : w \in Words[f]}
      /\ \A k \in DOMAIN tree : tree'[k] = tree[k]
  BY TreeNewEntries DEF B!NextKey, B!createBid
<1>2. B!Posted' = [w \in Keywords |-> {tree'[k] : k \in {j \in DOMAIN tree' : j[1] = w}}]
  BY DEF B!Posted
<1>3. ASSUME NEW w \in Keywords
      PROVE  B!Posted'[w] = IF w \in Words[f] THEN B!Posted[w] \cup {f} ELSE B!Posted[w]
  <2>1. B!Posted'[w] = {tree'[k] : k \in {j \in DOMAIN tree' : j[1] = w}}
    BY <1>2
  <2>2. B!Posted[w] = {tree[k] : k \in {j \in DOMAIN tree : j[1] = w}}
    BY DEF B!Posted
  <2>3. CASE w \in Words[f]
    BY <1>1, <2>1, <2>2, <2>3
  <2>4. CASE w \notin Words[f]
    BY <1>1, <2>1, <2>2, <2>4
  <2> QED BY <2>3, <2>4
<1>4. B!Posted' = [w \in Keywords |-> IF w \in Words[f] THEN B!Posted[w] \cup {f} ELSE B!Posted[w]]
  BY <1>2, <1>3
<1>5. last' = B!Call("insert", f, {})
  BY DEF B!Insert
<1> QED BY <1>4, <1>5 DEF TreeFound!Insert, TreeFound!Call, B!Call

LEMMA RemoveUnposts ==
  ASSUME TreeInv, NEW w \in Keywords, B!Remove(w)
  PROVE  TreeFound!Remove(w)
<1>1. /\ DOMAIN tree' = {k \in DOMAIN tree : k[1] # w}
      /\ \A k \in DOMAIN tree' : tree'[k] = tree[k]
  BY TreeRemoveInv
<1>2. B!Posted' = [v \in Keywords |-> {tree'[k] : k \in {j \in DOMAIN tree' : j[1] = v}}]
  BY DEF B!Posted
<1>3. \A v \in Keywords : B!Posted'[v] = IF v = w THEN {} ELSE B!Posted[v]
  BY <1>1, <1>2 DEF B!Posted
<1>4. B!Posted' = [B!Posted EXCEPT ![w] = {}]
  BY <1>2, <1>3 DEF B!Posted
<1>5. last' = B!Call("remove", w, {})
  BY DEF B!Remove
<1> QED BY <1>4, <1>5 DEF TreeFound!Remove, TreeFound!Call, B!Call

LEMMA PostingsStep ==
  ASSUME B!BTreeIndexAssumption, TreeInv, [B!Next]_B!vars
  PROVE  [TreeFound!Next]_TreeFound!postingsVars
<1>1. CASE \E f \in Files : B!Insert(f)
  BY <1>1, InsertPosts DEF TreeFound!Next
<1>2. CASE \E w \in Keywords : B!Remove(w)
  BY <1>2, RemoveUnposts DEF TreeFound!Next
<1>3. ASSUME NEW w \in Keywords, B!Search(w) PROVE TreeFound!Next
  <2>1. B!Posted' = B!Posted
    BY <1>3 DEF B!Search, B!Posted
  <2>2. last' = B!Call("search", w, B!Posted[w])
    BY <1>3, ResultsAre DEF B!Search
  <2> QED BY <2>1, <2>2 DEF B!Call, TreeFound!Call, TreeFound!Search, TreeFound!Next
<1>4. ASSUME NEW w \in Keywords, B!BatchSearch(w) PROVE TreeFound!Next
  <2>1. B!Posted' = B!Posted
    BY <1>4 DEF B!BatchSearch, B!Posted
  <2>2. last' = B!Call("batchSearch", w, B!Ids(B!Results(w)))
    BY <1>4 DEF B!BatchSearch
  <2>3. \E zeros \in {{}, {0}} : B!Ids(B!Results(w)) = B!Posted[w] \cup zeros
    BY ResultsAre
  <2>4. TreeFound!BatchSearch(w)
    BY <2>1, <2>2, <2>3, {{}, {0}} \subseteq SUBSET {0} DEF B!Call, TreeFound!Call, TreeFound!BatchSearch
  <2> QED BY <2>4 DEF TreeFound!Next
<1>5. CASE B!EndSetup \/ UNCHANGED B!vars
  BY <1>5 DEF B!EndSetup, B!vars, B!Posted, TreeFound!postingsVars
<1> QED BY <1>1, <1>2, <1>3, <1>4, <1>5 DEF B!Next, B!UpdateNext

LEMMA PostingsInit == ASSUME B!Init PROVE TreeFound!Init
<1>1. DOMAIN tree = {}
  BY DEF B!Init, B!NoEntry
<1>2. B!Posted = [w \in Keywords |-> {}]
  BY <1>1 DEF B!Posted
<1> QED BY <1>2 DEF B!Init, B!Call, TreeFound!Init, TreeFound!Call

\* Whatever is inserted and removed, a search finds the files inserted with
\* the keyword since its last removal, and a batch search those and zeros:
\* Orion over its B-trees implements Postings.
THEOREM BehavesAsPostings ==
  ASSUME B!BTreeIndexAssumption
  PROVE  B!Spec => TreeFound!Spec
<1>1. B!Init => TreeFound!Init
  BY PostingsInit
<1>2. ASSUME TreeInv, [B!Next]_B!vars PROVE [TreeFound!Next]_TreeFound!postingsVars
  BY <1>2, PostingsStep
<1> QED BY <1>1, <1>2, TreeInductive, PTL DEF B!Spec, TreeFound!Spec

(***************************************************************************)
(* The variants with file blocks, which remove nothing.                    *)
(***************************************************************************)
TreeDocs == {f \in Files : localBCNT[f] # 0}

TreePromise == INSTANCE SearchIndex WITH
  docs <- TreeDocs, last <- [op |-> B!CallNamed(last.op), arg |-> last.arg, blocks |-> last.found]

\* Every file inserted is still posted under its keywords.
AllPosted ==
  \A f \in TreeDocs : \A w \in Words[f] : \E k \in DOMAIN tree : k[1] = w /\ tree[k] = f

LEMMA TreeInsertAdds ==
  ASSUME B!BTreeIndexAssumption, TreeInv, NEW f \in Files, B!Insert(f)
  PROVE  f \notin TreeDocs /\ TreeDocs' = TreeDocs \cup {f}
<1>1. /\ localBCNT[f] = 0 /\ localBCNT' = [localBCNT EXCEPT ![f] = Blocks[f]] /\ Blocks[f] # 0
      /\ localBCNT \in [Files -> Nat]
  BY DEF B!Insert, B!BTreeIndexAssumption, TreeInv, TreeTypes
<1> QED BY <1>1 DEF TreeDocs

LEMMA AllPostedStep ==
  ASSUME B!BTreeIndexAssumption, TreeInv, AllPosted, [B!BlocksNext]_B!vars
  PROVE  AllPosted'
<1>1. ASSUME NEW f \in Files, B!Insert(f) PROVE AllPosted'
  <2>1. TreeDocs' = TreeDocs \cup {f}
    BY <1>1, TreeInsertAdds
  <2>2. /\ DOMAIN tree' = DOMAIN tree \cup {B!NextKey(w) : w \in Words[f]}
        /\ \A k \in DOMAIN tree : tree'[k] = tree[k]
        /\ \A w \in Words[f] : tree'[B!NextKey(w)] = f /\ B!NextKey(w)[1] = w
    BY <1>1, TreeNewEntries DEF B!NextKey, B!createBid
  <2> SUFFICES ASSUME NEW g \in TreeDocs', NEW w \in Words[g]
               PROVE  \E k \in DOMAIN tree' : k[1] = w /\ tree'[k] = g
    BY DEF AllPosted
  <2>3. CASE g = f
    BY <2>2, <2>3
  <2>4. CASE g \in TreeDocs
    <3>1. PICK k \in DOMAIN tree : k[1] = w /\ tree[k] = g
      BY <2>4 DEF AllPosted
    <3> QED BY <2>2, <3>1
  <2> QED BY <2>1, <2>3, <2>4
<1>2. CASE UNCHANGED <<tree, localBCNT>>
  BY <1>2 DEF AllPosted, TreeDocs
<1> QED BY <1>1, <1>2 DEF B!BlocksNext, B!UpdateNext, B!EndSetup, B!SearchBlocks, B!vars

LEMMA AllPostedInv ==
  ASSUME B!BTreeIndexAssumption
  PROVE  B!BlocksSpec => []AllPosted
<1>1. ASSUME B!Init PROVE AllPosted
  <2>1. TreeDocs = {}
    BY <1>1 DEF TreeDocs, B!Init
  <2> QED BY <2>1 DEF AllPosted
<1>2. ASSUME TreeInv, AllPosted, [B!BlocksNext]_B!vars PROVE AllPosted'
  BY <1>2, AllPostedStep
<1> QED BY <1>1, <1>2, TreeInductive, PTL DEF B!BlocksSpec

\* The posted files of a keyword are the files that have it.
LEMMA PostedAre ==
  ASSUME B!BTreeIndexAssumption, TreeInv, AllPosted, NEW w \in Keywords
  PROVE  B!Posted[w] = {f \in TreeDocs : w \in Words[f]}
<1>1. B!Posted[w] = {tree[k] : k \in {j \in DOMAIN tree : j[1] = w}}
  BY DEF B!Posted
<1>2. B!Posted[w] \subseteq {f \in TreeDocs : w \in Words[f]}
  BY <1>1 DEF TreeInv, TreeEntries, IsEntry, TreeDocs
<1>3. {f \in TreeDocs : w \in Words[f]} \subseteq B!Posted[w]
  BY <1>1 DEF AllPosted
<1> QED BY <1>2, <1>3

LEMMA TreePromiseStep ==
  ASSUME B!BTreeIndexAssumption, TreeInv, AllPosted, [B!BlocksNext]_B!vars
  PROVE  [TreePromise!Next]_TreePromise!indexVars
<1>1. ASSUME NEW f \in Files, B!Insert(f) PROVE TreePromise!Next
  <2>1. last' = B!Call("insert", f, {})
    BY <1>1 DEF B!Insert
  <2>2. TreePromise!Add(f)
    BY <1>1, <2>1, TreeInsertAdds DEF B!Call, B!CallNamed, TreePromise!Add, TreePromise!Call
  <2> QED BY <2>2 DEF TreePromise!Next
<1>2. ASSUME NEW w \in Keywords, B!SearchBlocks(w) PROVE TreePromise!Next
  <2> DEFINE F == {f \in TreeDocs : w \in Words[f]}
  <2>1. B!SearchResults(w) = F
    BY ResultsAre, PostedAre
  <2>2. \A f \in F : stored[f] \cap (1 .. localBCNT[f]) = 1 .. Blocks[f]
    BY DEF TreeInv, TreeBlocksCounted, TreeDocs
  <2>3. last' = B!Call("searchBlocks", w, UNION {{f} \X (1 .. Blocks[f]) : f \in F})
    BY <1>2, <2>1, <2>2 DEF B!SearchBlocks
  <2>4. TreeDocs' = TreeDocs
    BY <1>2 DEF B!SearchBlocks, TreeDocs
  <2>5. TreePromise!Search(w)
    BY <2>3, <2>4 DEF B!Call, B!CallNamed, TreePromise!Search, TreePromise!Call, TreePromise!BlocksOf
  <2> QED BY <2>5 DEF TreePromise!Next
<1>3. CASE B!EndSetup \/ UNCHANGED B!vars
  BY <1>3 DEF B!EndSetup, B!vars, TreeDocs, TreePromise!indexVars
<1> QED BY <1>1, <1>2, <1>3 DEF B!BlocksNext, B!UpdateNext

\* A search returns the blocks of the files that were inserted with the
\* keyword, all of them and no others, before and after the end of setup:
\* the index of wfilebtree, twowfilebtree and eight implements SearchIndex.
THEOREM BehavesAsSearchIndex ==
  ASSUME B!BTreeIndexAssumption
  PROVE  B!BlocksSpec => TreePromise!Spec
<1>1. B!Init => TreePromise!Init
  BY DEF B!Init, B!Call, B!CallNamed, TreeDocs, TreePromise!Init
<1>2. ASSUME TreeInv, AllPosted, [B!BlocksNext]_B!vars PROVE [TreePromise!Next]_TreePromise!indexVars
  BY <1>2, TreePromiseStep
<1> QED BY <1>1, <1>2, AllPostedInv, TreeInductive, PTL DEF B!BlocksSpec, TreePromise!Spec
-----------------------------------------------------------------------------

(***************************************************************************)
(* "orion2": two maps and the client's counters.                           *)
(***************************************************************************)
\* The numbers of w are those of its live files.
CountedExact(w) ==
  LET n == totals[w] IN
  /\ n \in Nat /\ DOMAIN updated[w] \subseteq FirstFiles /\ 1 .. n \subseteq DOMAIN entries[w]
  /\ \A i \in 1 .. n : entries[w][i] \in O!Live(w) /\ updated[w][entries[w][i]] = i
  /\ \A f \in O!Live(w) : updated[w][f] \in 1 .. n /\ entries[w][updated[w][f]] = f
  /\ n > 0 => w \in DOMAIN counts /\ counts[w] = entries[w][n]
  /\ IsFiniteSet(O!Live(w)) /\ Cardinality(O!Live(w)) = n

CountedTypeOK ==
  /\ ready \in BOOLEAN
  /\ DOMAIN totals = Keywords /\ DOMAIN updated = Keywords /\ DOMAIN entries = Keywords
  /\ totals = [w \in Keywords |-> totals[w]] /\ updated = [w \in Keywords |-> updated[w]]
  /\ entries = [w \in Keywords |-> entries[w]]

\* The blocks of every file with an entry are stored.
AllStored ==
  /\ DOMAIN stored \subseteq FirstFiles /\ \A f \in DOMAIN stored : stored[f] = 1 .. FirstBlocks[f]
  /\ \A w \in Keywords : O!Live(w) \subseteq DOMAIN stored

CountedInv ==
  /\ CountedTypeOK /\ (\A w \in Keywords : CountedExact(w)) /\ AllStored
  /\ last.op = "search" => ready
  /\ O!FoundIsLive
-----------------------------------------------------------------------------
LEMMA SetIs ==
  ASSUME NEW f, NEW x, NEW v
  PROVE  /\ DOMAIN O!Set(f, x, v) = DOMAIN f \cup {x} /\ O!Set(f, x, v)[x] = v
         /\ \A y \in DOMAIN f : y # x => O!Set(f, x, v)[y] = f[y]
BY DEF O!Set, O!Override

\* A file is added to a keyword under the next number.
LEMMA CountedAddOne ==
  ASSUME NEW w \in Keywords, NEW f \in FirstFiles, CountedExact(w), f \notin O!Live(w),
         totals'[w] = totals[w] + 1,
         updated'[w] = O!Set(updated[w], f, totals[w] + 1), entries'[w] = O!Set(entries[w], totals[w] + 1, f),
         w \in DOMAIN counts', counts'[w] = f
  PROVE  CountedExact(w)' /\ O!Live(w)' = O!Live(w) \cup {f}
<1> DEFINE n == totals[w]
<1>1. /\ n \in Nat /\ DOMAIN updated[w] \subseteq FirstFiles /\ 1 .. n \subseteq DOMAIN entries[w]
      /\ \A i \in 1 .. n : entries[w][i] \in O!Live(w) /\ updated[w][entries[w][i]] = i
      /\ \A g \in O!Live(w) : updated[w][g] \in 1 .. n /\ entries[w][updated[w][g]] = g
      /\ IsFiniteSet(O!Live(w)) /\ Cardinality(O!Live(w)) = n
  BY DEF CountedExact
<1>2. /\ DOMAIN updated'[w] = DOMAIN updated[w] \cup {f} /\ updated'[w][f] = n + 1
      /\ \A g \in DOMAIN updated[w] : g # f => updated'[w][g] = updated[w][g]
  BY DEF O!Set, O!Override
<1>3. /\ DOMAIN entries'[w] = DOMAIN entries[w] \cup {n + 1} /\ entries'[w][n + 1] = f
      /\ \A i \in DOMAIN entries[w] : i # n + 1 => entries'[w][i] = entries[w][i]
  BY DEF O!Set, O!Override
<1> HIDE DEF n
<1>4. totals'[w] = n + 1
  BY DEF n
<1>5. O!Live(w)' = O!Live(w) \cup {f}
  BY <1>1, <1>2 DEF O!Live, O!Removed
<1>6. \A i \in 1 .. n : i # n + 1 /\ entries'[w][i] = entries[w][i] /\ entries[w][i] # f
  BY <1>1, <1>3
<1>7. \A g \in O!Live(w) : g # f /\ updated'[w][g] = updated[w][g]
  BY <1>2 DEF O!Live
<1>8. \A i \in 1 .. (n + 1) : entries'[w][i] \in O!Live(w)' /\ updated'[w][entries'[w][i]] = i
  <2> SUFFICES ASSUME NEW i \in 1 .. (n + 1)
               PROVE  entries'[w][i] \in O!Live(w)' /\ updated'[w][entries'[w][i]] = i
    OBVIOUS
  <2>1. CASE i = n + 1
    BY <2>1, <1>2, <1>3, <1>5
  <2>2. CASE i # n + 1
    <3>1. i \in 1 .. n
      BY <2>2, <1>1
    <3> QED BY <3>1, <1>1, <1>5, <1>6, <1>7
  <2> QED BY <2>1, <2>2
<1>9. \A g \in O!Live(w)' : updated'[w][g] \in 1 .. (n + 1) /\ entries'[w][updated'[w][g]] = g
  <2>1. updated'[w][f] \in 1 .. (n + 1) /\ entries'[w][updated'[w][f]] = f
    BY <1>1, <1>2, <1>3
  <2>2. \A g \in O!Live(w) : updated'[w][g] \in 1 .. (n + 1) /\ entries'[w][updated'[w][g]] = g
    BY <1>1, <1>6, <1>7
  <2> QED BY <2>1, <2>2, <1>5
<1>10. IsFiniteSet(O!Live(w)') /\ Cardinality(O!Live(w)') = n + 1
  BY <1>1, <1>5, FS_AddElement
<1>11. 1 .. (n + 1) \subseteq DOMAIN entries'[w]
  <2>1. \A i \in 1 .. (n + 1) : i \in 1 .. n \/ i = n + 1
    BY <1>1
  <2> QED BY <2>1, <1>1, <1>3
<1>12. n + 1 \in Nat
  BY <1>1
<1> QED BY <1>1, <1>2, <1>3, <1>4, <1>5, <1>8, <1>9, <1>10, <1>11, <1>12 DEF CountedExact

\* A keyword whose entries and counters stay as they are.
LEMMA CountedUntouched ==
  ASSUME NEW w \in Keywords, CountedExact(w), totals'[w] = totals[w], updated'[w] = updated[w], entries'[w] = entries[w],
         w \in DOMAIN counts => w \in DOMAIN counts' /\ counts'[w] = counts[w]
  PROVE  CountedExact(w)' /\ O!Live(w)' = O!Live(w)
BY DEF CountedExact, O!Live

LEMMA CountedFileStored ==
  ASSUME NEW f \in FirstFiles, AllStored, O!insertFile(f),
         \A w \in Keywords : O!Live(w)' \subseteq O!Live(w) \cup {f}
  PROVE  AllStored'
<1>1. /\ DOMAIN stored' = DOMAIN stored \cup {f} /\ stored'[f] = 1 .. FirstBlocks[f]
      /\ \A y \in DOMAIN stored : y # f => stored'[y] = stored[y]
  BY DEF O!insertFile, O!Set, O!Override
<1> QED BY <1>1 DEF AllStored

LEMMA CountedAddedInv ==
  ASSUME CountedInv, NEW f \in FirstFiles, NEW ws \in SUBSET Keywords, \A w \in ws : f \notin O!Live(w),
         O!Added(ws, f), O!insertFile(f), last' = O!Call("insert", f, {}), ready' = ready
  PROVE  CountedInv'
<1>1. /\ totals' = [w \in Keywords |-> IF w \in ws THEN totals[w] + 1 ELSE totals[w]]
      /\ updated' = [w \in Keywords |-> IF w \in ws THEN O!Set(updated[w], f, totals[w] + 1) ELSE updated[w]]
      /\ entries' = [w \in Keywords |-> IF w \in ws THEN O!Set(entries[w], totals[w] + 1, f) ELSE entries[w]]
  BY DEF O!Added
<1>2. /\ \A w \in ws : w \in DOMAIN counts' /\ counts'[w] = f
      /\ \A w \in DOMAIN counts \ ws : w \in DOMAIN counts' /\ counts'[w] = counts[w]
  BY DEF O!Added, O!Override
<1>3. CountedTypeOK'
  BY <1>1 DEF CountedInv, CountedTypeOK
<1>4. ASSUME NEW w \in Keywords PROVE CountedExact(w)' /\ O!Live(w)' \subseteq O!Live(w) \cup {f}
  <2>1. CountedExact(w)
    BY DEF CountedInv
  <2>2. CASE w \in ws
    <3>1. /\ f \notin O!Live(w) /\ totals'[w] = totals[w] + 1
          /\ updated'[w] = O!Set(updated[w], f, totals[w] + 1) /\ entries'[w] = O!Set(entries[w], totals[w] + 1, f)
          /\ w \in DOMAIN counts' /\ counts'[w] = f
      BY <1>1, <1>2, <2>2
    <3> QED BY <2>1, <3>1, CountedAddOne
  <2>3. CASE w \notin ws
    <3>1. /\ totals'[w] = totals[w] /\ updated'[w] = updated[w] /\ entries'[w] = entries[w]
          /\ w \in DOMAIN counts => w \in DOMAIN counts' /\ counts'[w] = counts[w]
      BY <1>1, <1>2, <2>3
    <3> QED BY <2>1, <3>1, CountedUntouched
  <2> QED BY <2>2, <2>3
<1>5. AllStored'
  BY <1>4, CountedFileStored DEF CountedInv
<1>6. last'.op # "search"
  BY DEF O!Call
<1> QED BY <1>3, <1>4, <1>5, <1>6 DEF CountedInv, O!FoundIsLive

\* The last file takes over the number of the one removed.
LEMMA CountedRemoveOne ==
  ASSUME NEW w \in Keywords, NEW f \in O!Live(w), CountedExact(w), totals'[w] = totals[w] - 1,
         updated'[w] = IF O!IsLast(w, f) THEN O!Set(updated[w], f, O!Removed) ELSE O!Renumbered(w, f),
         entries'[w] = IF O!IsLast(w, f) THEN entries[w] ELSE O!Set(entries[w], updated[w][f], counts[w]),
         totals'[w] > 0 => w \in DOMAIN counts' /\ counts'[w] = entries'[w][totals'[w]]
  PROVE  CountedExact(w)' /\ O!Live(w)' = O!Live(w) \ {f}
<1> DEFINE n == totals[w]
           k == updated[w][f]
           g == counts[w]
<1>1. /\ n \in Nat /\ DOMAIN updated[w] \subseteq FirstFiles /\ 1 .. n \subseteq DOMAIN entries[w]
      /\ \A i \in 1 .. n : entries[w][i] \in O!Live(w) /\ updated[w][entries[w][i]] = i
      /\ \A h \in O!Live(w) : updated[w][h] \in 1 .. n /\ entries[w][updated[w][h]] = h
      /\ n > 0 => w \in DOMAIN counts /\ g = entries[w][n]
      /\ IsFiniteSet(O!Live(w)) /\ Cardinality(O!Live(w)) = n
  BY DEF CountedExact
<1>2. /\ k \in 1 .. n /\ entries[w][k] = f /\ n \in 1 .. n /\ f \in DOMAIN updated[w]
      /\ g = entries[w][n] /\ g \in O!Live(w) /\ updated[w][g] = n /\ g \in DOMAIN updated[w]
  <2>1. k \in 1 .. n /\ entries[w][k] = f
    BY <1>1
  <2>2. n \in 1 .. n /\ n > 0
    BY <2>1, <1>1
  <2> QED BY <2>1, <2>2, <1>1 DEF O!Live
<1>3. \A h \in O!Live(w) : h \in DOMAIN updated[w] /\ updated[w][h] # O!Removed
  BY DEF O!Live
\* What both cases come to: f has no number, and the last file that of f.
<1>4. /\ DOMAIN updated'[w] = DOMAIN updated[w] /\ updated'[w][f] = O!Removed
      /\ f # g => updated'[w][g] = k
      /\ \A h \in DOMAIN updated[w] : h # f /\ h # g => updated'[w][h] = updated[w][h]
  <2>1. CASE O!IsLast(w, f)
    <3>1. f = g
      BY <1>2, <2>1 DEF O!IsLast
    <3> QED BY <3>1, <2>1, <1>2 DEF O!Set, O!Override
  <2>2. CASE ~O!IsLast(w, f)
    <3>1. f # g
      BY <1>2, <2>2 DEF O!IsLast
    <3>2. updated'[w] = O!Set(O!Set(updated[w], f, O!Removed), g, k)
      BY <2>2 DEF O!Renumbered
    <3> DEFINE u == O!Set(updated[w], f, O!Removed)
    <3>3. /\ DOMAIN u = DOMAIN updated[w] /\ u[f] = O!Removed
          /\ \A h \in DOMAIN updated[w] : h # f => u[h] = updated[w][h]
      BY <1>2 DEF O!Set, O!Override
    <3> HIDE DEF g, k, u
    <3>4. /\ DOMAIN O!Set(u, g, k) = DOMAIN u /\ O!Set(u, g, k)[g] = k
          /\ \A h \in DOMAIN u : h # g => O!Set(u, g, k)[h] = u[h]
      BY <1>2, <3>3 DEF O!Set, O!Override
    <3>5. updated'[w] = O!Set(u, g, k)
      BY <3>2 DEF u
    <3> QED BY <1>2, <3>1, <3>3, <3>4, <3>5
  <2> QED BY <2>1, <2>2
<1>5. /\ 1 .. n \subseteq DOMAIN entries'[w]
      /\ f # g => entries'[w][k] = g
      /\ \A i \in 1 .. n : i # k => entries'[w][i] = entries[w][i]
  <2>1. CASE O!IsLast(w, f)
    BY <2>1, <1>1, <1>2 DEF O!IsLast
  <2>2. CASE ~O!IsLast(w, f)
    <3>1. entries'[w] = O!Set(entries[w], k, g)
      BY <2>2
    <3> HIDE DEF g, k
    <3> QED BY <3>1, <1>1, <1>2 DEF O!Set, O!Override
  <2> QED BY <2>1, <2>2
<1>6. f = g => k = n
  BY <1>2
<1>7. O!Live(w)' = O!Live(w) \ {f}
  <2>1. ASSUME NEW h PROVE h \in O!Live(w)' <=> h \in O!Live(w) \ {f}
    <3>1. k # O!Removed
      BY <1>1, <1>2 DEF O!Removed
    <3>2. h \in O!Live(w)' <=> h \in DOMAIN updated[w] /\ updated'[w][h] # O!Removed
      BY <1>4 DEF O!Live
    <3>3. CASE h = f
      BY <3>2, <3>3, <1>4
    <3>4. CASE h # f /\ h = g
      BY <3>1, <3>2, <3>4, <1>2, <1>4
    <3>5. CASE h # f /\ h # g
      BY <3>2, <3>5, <1>4 DEF O!Live
    <3> QED BY <3>3, <3>4, <3>5
  <2> QED BY <2>1
<1> HIDE DEF n, k, g
<1>8. totals'[w] = n - 1 /\ n - 1 \in Nat
  BY <1>1, <1>2 DEF n
<1>9. ASSUME NEW i \in 1 .. (n - 1)
      PROVE  entries'[w][i] \in O!Live(w)' /\ updated'[w][entries'[w][i]] = i
  <2>1. i \in 1 .. n /\ i # n
    BY <1>1
  <2>2. CASE i = k
    <3>1. f # g
      BY <2>1, <2>2, <1>6
    <3> QED BY <3>1, <2>2, <1>2, <1>4, <1>5, <1>7
  <2>3. CASE i # k
    <3>1. entries'[w][i] = entries[w][i] /\ entries[w][i] \in O!Live(w) /\ updated[w][entries[w][i]] = i
      BY <2>1, <2>3, <1>1, <1>5
    <3>2. entries[w][i] # f /\ entries[w][i] # g
      BY <3>1, <2>1, <2>3, <1>2 DEF k
    <3> QED BY <3>1, <3>2, <1>3, <1>4, <1>7
  <2> QED BY <2>2, <2>3
<1>10. ASSUME NEW h \in O!Live(w)'
       PROVE  updated'[w][h] \in 1 .. (n - 1) /\ entries'[w][updated'[w][h]] = h
  <2>1. h \in O!Live(w) /\ h # f
    BY <1>7
  <2>2. CASE h = g
    <3>1. k # n /\ k \in 1 .. (n - 1)
      BY <2>1, <2>2, <1>1, <1>2 DEF k
    <3> QED BY <3>1, <2>1, <2>2, <1>4, <1>5
  <2>3. CASE h # g
    <3>1. updated'[w][h] = updated[w][h] /\ updated[w][h] \in 1 .. n /\ entries[w][updated[w][h]] = h
      BY <2>1, <2>3, <1>1, <1>3, <1>4
    <3>2. updated[w][h] # n /\ updated[w][h] # k
      BY <3>1, <2>1, <2>3, <1>2
    <3> QED BY <3>1, <3>2, <1>1, <1>5
  <2> QED BY <2>2, <2>3
<1>11. IsFiniteSet(O!Live(w)') /\ Cardinality(O!Live(w)') = n - 1
  <2>1. IsFiniteSet(O!Live(w)) /\ Cardinality(O!Live(w)) = n /\ f \in O!Live(w)
    BY <1>1
  <2>2. IsFiniteSet(O!Live(w) \ {f}) /\ Cardinality(O!Live(w) \ {f}) = n - 1
    BY ONLY <2>1, FS_RemoveElement
  <2> QED BY <2>2, <1>7
<1>12. 1 .. (n - 1) \subseteq DOMAIN entries'[w]
  <2>1. 1 .. (n - 1) \subseteq 1 .. n
    BY <1>1
  <2> QED BY <2>1, <1>5
<1> QED BY <1>1, <1>4, <1>7, <1>8, <1>9, <1>10, <1>11, <1>12 DEF CountedExact

LEMMA CountedRemoveInv ==
  ASSUME CountedInv, NEW w \in Keywords, NEW f \in FirstFiles, O!Remove(w, f)
  PROVE  CountedInv'
<1>1. /\ f \in O!Live(w) /\ CountedTypeOK /\ AllStored /\ \A v \in Keywords : CountedExact(v)
      /\ UNCHANGED <<ready, stored>> /\ last'.op # "search"
      /\ totals' = [totals EXCEPT ![w] = @ - 1]
      /\ updated' = [updated EXCEPT ![w] = IF O!IsLast(w, f) THEN O!Set(@, f, O!Removed) ELSE O!Renumbered(w, f)]
      /\ entries' = [entries EXCEPT ![w] = IF O!IsLast(w, f) THEN @ ELSE O!Set(@, updated[w][f], counts[w])]
  BY DEF O!Remove, CountedInv, O!Call
<1>2. /\ totals'[w] = totals[w] - 1
      /\ updated'[w] = IF O!IsLast(w, f) THEN O!Set(updated[w], f, O!Removed) ELSE O!Renumbered(w, f)
      /\ entries'[w] = IF O!IsLast(w, f) THEN entries[w] ELSE O!Set(entries[w], updated[w][f], counts[w])
  BY <1>1 DEF CountedTypeOK
<1>3. \A v \in Keywords \ {w} : totals'[v] = totals[v] /\ updated'[v] = updated[v] /\ entries'[v] = entries[v]
  BY <1>1 DEF CountedTypeOK
<1>4. counts' = IF totals'[w] > 0 THEN [counts EXCEPT ![w] = entries'[w][totals'[w]]]
                 ELSE [v \in DOMAIN counts \ {w} |-> counts[v]]
  BY DEF O!Remove
<1>5. \A v \in DOMAIN counts \ {w} : v \in DOMAIN counts' /\ counts'[v] = counts[v]
  BY <1>4
<1>6. w \in DOMAIN counts
  <2>1. totals[w] > 0
    BY <1>1 DEF CountedExact
  <2> QED BY <2>1, <1>1 DEF CountedExact
<1>7. totals'[w] > 0 => w \in DOMAIN counts' /\ counts'[w] = entries'[w][totals'[w]]
  BY <1>4, <1>6
<1>8. CountedExact(w)' /\ O!Live(w)' = O!Live(w) \ {f}
  BY <1>1, <1>2, <1>7, CountedRemoveOne
<1>9. \A v \in Keywords \ {w} : CountedExact(v)' /\ O!Live(v)' = O!Live(v)
  BY <1>1, <1>3, <1>5, CountedUntouched
<1>10. \A v \in Keywords : CountedExact(v)'
  BY <1>8, <1>9
<1>11. CountedTypeOK'
  BY <1>1 DEF CountedTypeOK
<1>12. AllStored'
  BY <1>1, <1>8, <1>9 DEF AllStored
<1> QED BY <1>1, <1>10, <1>11, <1>12 DEF CountedInv, O!FoundIsLive

\* A call that only answers.
LEMMA CountedSameIndex ==
  ASSUME UNCHANGED <<ready, totals, counts, updated, entries, stored>>, CountedTypeOK, AllStored,
         \A w \in Keywords : CountedExact(w)
  PROVE  CountedTypeOK' /\ AllStored' /\ \A w \in Keywords : CountedExact(w)' /\ O!Live(w)' = O!Live(w)
<1>1. \A w \in Keywords : O!Live(w)' = O!Live(w)
  BY DEF O!Live
<1>2. CountedTypeOK' /\ AllStored'
  BY <1>1 DEF CountedTypeOK, AllStored
<1>3. ASSUME NEW w \in Keywords PROVE CountedExact(w)'
  BY CountedUntouched
<1> QED BY <1>1, <1>2, <1>3

LEMMA CountedSearchInv ==
  ASSUME CountedInv, NEW w \in Keywords, O!Search(w)
  PROVE  CountedInv'
<1> DEFINE ids == {entries[w][i] : i \in 1 .. totals[w]}
<1>1. /\ ready /\ last' = O!Call("search", w, UNION {{f} \X stored[f] : f \in ids})
      /\ UNCHANGED <<ready, totals, counts, updated, entries, stored>>
  BY DEF O!Search
<1>2. CountedTypeOK /\ AllStored /\ \A v \in Keywords : CountedExact(v)
  BY DEF CountedInv
<1>3. ids = O!Live(w)
  BY <1>2 DEF CountedExact
<1>4. \A f \in O!Live(w) : stored[f] = 1 .. FirstBlocks[f]
  BY <1>2 DEF AllStored
<1>5. UNION {{f} \X stored[f] : f \in ids} = UNION {{f} \X (1 .. FirstBlocks[f]) : f \in O!Live(w)}
  BY <1>3, <1>4
<1>6. last'.op = "search" /\ last'.arg = w /\ last'.blocks = UNION {{f} \X (1 .. FirstBlocks[f]) : f \in O!Live(w)}
  BY <1>1, <1>5 DEF O!Call
<1>7. CountedTypeOK' /\ AllStored' /\ \A v \in Keywords : CountedExact(v)' /\ O!Live(v)' = O!Live(v)
  BY <1>1, <1>2, CountedSameIndex
<1> QED BY <1>1, <1>6, <1>7 DEF CountedInv, O!FoundIsLive

LEMMA CountedInitInv == O!Init => CountedInv
<1> SUFFICES ASSUME O!Init PROVE CountedInv
  OBVIOUS
<1>1. \A w \in Keywords : totals[w] = 0 /\ updated[w] = O!NoEntry /\ entries[w] = O!NoEntry
  BY DEF O!Init
<1>2. DOMAIN O!NoEntry = {}
  BY DEF O!NoEntry
<1>3. ASSUME NEW w \in Keywords PROVE CountedExact(w) /\ O!Live(w) = {}
  <2>1. O!Live(w) = {}
    BY <1>1, <1>2 DEF O!Live
  <2> QED BY <1>1, <1>2, <2>1, FS_EmptySet DEF CountedExact
<1>4. CountedTypeOK
  BY DEF O!Init, CountedTypeOK
<1>5. AllStored
  BY <1>2, <1>3 DEF O!Init, AllStored
<1>6. last.op # "search"
  BY DEF O!Init, O!Call
<1> QED BY <1>3, <1>4, <1>5, <1>6 DEF CountedInv, O!FoundIsLive

LEMMA CountedNextInv ==
  ASSUME O!Orion2Assumption, CountedInv, [O!Next]_O!vars
  PROVE  CountedInv'
<1>1. CASE O!EndSetup
  <2>1. /\ ready' = TRUE /\ UNCHANGED <<totals, counts, updated, entries, stored, last>> /\ last.op # "search"
        /\ CountedTypeOK /\ AllStored
    BY <1>1 DEF O!EndSetup, CountedInv
  <2>2. CountedTypeOK'
    BY <2>1 DEF CountedTypeOK
  <2>3. ASSUME NEW w \in Keywords PROVE CountedExact(w)' /\ O!Live(w)' = O!Live(w)
    BY <2>1, CountedUntouched DEF CountedInv
  <2>4. AllStored'
    BY <2>1, <2>3 DEF AllStored
  <2> QED BY <2>1, <2>2, <2>3, <2>4 DEF CountedInv, O!FoundIsLive
<1>2. ASSUME NEW f \in FirstFiles, O!Insert(f) PROVE CountedInv'
  <2>1. O!Insertable(f) \in SUBSET Keywords /\ \A w \in O!Insertable(f) : f \notin O!Live(w)
    BY DEF O!Insertable, O!Orion2Assumption, O!Live
  <2> QED BY <1>2, <2>1, CountedAddedInv DEF O!Insert
<1>3. ASSUME NEW f \in FirstFiles, O!SetupInsert(f) PROVE CountedInv'
  <2>1. FirstWords[f] \in SUBSET Keywords /\ \A w \in FirstWords[f] : f \notin O!Live(w)
    BY <1>3 DEF O!SetupInsert, O!Orion2Assumption
  <2> QED BY <1>3, <2>1, CountedAddedInv DEF O!SetupInsert
<1>4. ASSUME NEW w \in Keywords, O!Search(w) PROVE CountedInv'
  BY <1>4, CountedSearchInv
<1>5. ASSUME NEW w \in Keywords, NEW f \in FirstFiles, O!Remove(w, f) PROVE CountedInv'
  BY <1>5, CountedRemoveInv
<1>6. ASSUME NEW w \in Keywords, NEW f \in FirstFiles, O!RemoveAgain(w, f) PROVE CountedInv'
  <2>1. UNCHANGED <<ready, totals, counts, updated, entries, stored>> /\ last'.op # "search"
    BY <1>6 DEF O!RemoveAgain, O!Call
  <2> QED BY <2>1, CountedSameIndex DEF CountedInv, O!FoundIsLive
<1>7. CASE UNCHANGED O!vars
  <2>1. CountedTypeOK' /\ AllStored' /\ (\A w \in Keywords : CountedExact(w)') /\ O!FoundIsLive'
    <3>1. CountedTypeOK' /\ AllStored' /\ \A w \in Keywords : CountedExact(w)' /\ O!Live(w)' = O!Live(w)
      BY <1>7, CountedSameIndex DEF O!vars, CountedInv
    <3>2. updated' = updated /\ last' = last
      BY <1>7 DEF O!vars
    <3> QED BY <3>1, <3>2 DEF CountedInv, O!FoundIsLive, O!Live
  <2> QED BY <1>7, <2>1 DEF O!vars, CountedInv
<1> QED BY <1>1, <1>2, <1>3, <1>4, <1>5, <1>6, <1>7 DEF O!Next
-----------------------------------------------------------------------------
LEMMA CountedInductive ==
  ASSUME O!Orion2Assumption
  PROVE  O!Spec => []CountedInv
<1>1. CountedInv /\ [O!Next]_O!vars => CountedInv'
  BY CountedNextInv
<1> QED BY <1>1, CountedInitInv, PTL DEF O!Spec

LEMMA CountedAreExact == CountedInv => O!NumbersAreExact
<1> SUFFICES ASSUME CountedInv, NEW w \in Keywords
             PROVE  /\ O!Cardinality(O!Live(w)) = totals[w]
                    /\ \A f \in O!Live(w) : updated[w][f] \in DOMAIN entries[w] /\ entries[w][updated[w][f]] = f
                    /\ totals[w] > 0 => updated[w][counts[w]] = totals[w]
  BY DEF O!NumbersAreExact
<1>1. CountedExact(w)
  BY DEF CountedInv
<1>2. totals[w] > 0 => totals[w] \in 1 .. totals[w]
  BY <1>1 DEF CountedExact
<1>3. \A s : O!Cardinality(s) = Cardinality(s)
  BY DEF O!Cardinality, Cardinality
<1> QED BY <1>1, <1>2, <1>3 DEF CountedExact

\* Whatever is inserted and removed, and in whatever order, the files of a
\* keyword have the numbers 1 .. UpdtCnt[w], and LastIND is the last of them
\* (insert, remove, setupInsert, setupRemove).
THEOREM Numbering ==
  ASSUME O!Orion2Assumption
  PROVE  O!Spec => []O!NumbersAreExact
BY CountedAreExact, CountedInductive, PTL

\* A search returns the blocks of the files inserted with the keyword and
\* not removed, all of them and no others (search, searchFile).
THEOREM SearchIsExact ==
  ASSUME O!Orion2Assumption
  PROVE  O!Spec => []O!FoundIsLive
<1>1. CountedInv => O!FoundIsLive
  BY DEF CountedInv
<1> QED BY <1>1, CountedInductive, PTL
-----------------------------------------------------------------------------

(***************************************************************************)
(* "packorion" and "oriel".                                                *)
(***************************************************************************)
RP == INSTANCE OrielIndexProofs WITH I <- entries, ac <- acc
RP1 == INSTANCE OrielIndexProofs WITH COM <- 1, I <- entries, ac <- acc

LEMMA SameCounting == \A s : RP!Cardinality(s) = R!Cardinality(s) /\ RP1!Cardinality(s) = R1!Cardinality(s)
BY DEF RP!Cardinality, R!Cardinality, RP1!Cardinality, R1!Cardinality
LEMMA SameBlocks ==
  /\ R!OrielAssumption <=> RP!OrielAssumption
  /\ R!Init <=> RP!Init
  /\ [R!Next]_R!vars <=> [RP!Next]_RP!vars
  /\ R!FileAtItsCount <=> RP!FileAtItsCount
  /\ R!BlocksList <=> RP!BlocksList
<1> USE DEF R!get_block_num, RP!get_block_num, R!get_position, RP!get_position, R!Pad, RP!Pad, R!Count, RP!Count,
            R!KeysOf, RP!KeysOf, R!Call, RP!Call, R!Address, RP!Address, R!Override, RP!Override, R!NoEntry, RP!NoEntry
<1>1. \A w, o : R!filind(w, o) = RP!filind(w, o)
  BY SameCounting DEF R!filind, RP!filind
<1>2. \A w : R!SetToSeqs(R!KeysOf(w)) = RP!SetToSeqs(RP!KeysOf(w))
  BY SameCounting DEF R!SetToSeqs, RP!SetToSeqs
<1>3. \A w, ids : R!ReadFiles(w, ids) <=> RP!ReadFiles(w, ids)
  BY DEF R!ReadFiles, RP!ReadFiles, R!Moved, RP!Moved, R!Incremented, RP!Incremented
<1>4. \A w : (R!localbatchSearch(w) <=> RP!localbatchSearch(w)) /\ (R!batchSearch(w) <=> RP!batchSearch(w))
  BY <1>1, <1>2, <1>3 DEF R!localbatchSearch, RP!localbatchSearch, R!batchSearch, RP!batchSearch
<1>5. \A f : R!Insert(f) <=> RP!Insert(f)
  BY DEF R!Insert, RP!Insert, R!insertFile, RP!insertFile, R!setupInsertkw, RP!setupInsertkw
<1>6. R!Next <=> RP!Next
  BY <1>4, <1>5 DEF R!Next, RP!Next, R!endSetup, RP!endSetup
<1>7. R!OrielAssumption <=> RP!OrielAssumption
  BY DEF R!OrielAssumption, RP!OrielAssumption
<1>8. R!Init <=> RP!Init
  BY DEF R!Init, RP!Init
<1>9. R!FileAtItsCount <=> RP!FileAtItsCount
  BY DEF R!FileAtItsCount, RP!FileAtItsCount
<1>10. R!BlocksList <=> RP!BlocksList
  BY SameCounting DEF R!BlocksList, RP!BlocksList
<1>11. UNCHANGED R!vars <=> UNCHANGED RP!vars
  BY DEF R!vars, RP!vars
<1> QED BY <1>6, <1>7, <1>8, <1>9, <1>10, <1>11
LEMMA SameIds ==
  /\ R1!OrielAssumption <=> RP1!OrielAssumption
  /\ R1!Init <=> RP1!Init
  /\ [R1!Next]_R1!vars <=> [RP1!Next]_RP1!vars
  /\ R1!FileAtItsCount <=> RP1!FileAtItsCount
  /\ R1!BlocksList <=> RP1!BlocksList
<1> USE DEF R1!get_block_num, RP1!get_block_num, R1!get_position, RP1!get_position, R1!Pad, RP1!Pad, R1!Count, RP1!Count,
            R1!KeysOf, RP1!KeysOf, R1!Call, RP1!Call, R1!Address, RP1!Address, R1!Override, RP1!Override, R1!NoEntry, RP1!NoEntry
<1>1. \A w, o : R1!filind(w, o) = RP1!filind(w, o)
  BY SameCounting DEF R1!filind, RP1!filind
<1>2. \A w : R1!SetToSeqs(R1!KeysOf(w)) = RP1!SetToSeqs(RP1!KeysOf(w))
  BY SameCounting DEF R1!SetToSeqs, RP1!SetToSeqs
<1>3. \A w, ids : R1!ReadFiles(w, ids) <=> RP1!ReadFiles(w, ids)
  BY DEF R1!ReadFiles, RP1!ReadFiles, R1!Moved, RP1!Moved, R1!Incremented, RP1!Incremented
<1>4. \A w : (R1!localbatchSearch(w) <=> RP1!localbatchSearch(w)) /\ (R1!batchSearch(w) <=> RP1!batchSearch(w))
  BY <1>1, <1>2, <1>3 DEF R1!localbatchSearch, RP1!localbatchSearch, R1!batchSearch, RP1!batchSearch
<1>5. \A f : R1!Insert(f) <=> RP1!Insert(f)
  BY DEF R1!Insert, RP1!Insert, R1!insertFile, RP1!insertFile, R1!setupInsertkw, RP1!setupInsertkw
<1>6. R1!Next <=> RP1!Next
  BY <1>4, <1>5 DEF R1!Next, RP1!Next, R1!endSetup, RP1!endSetup
<1>7. R1!OrielAssumption <=> RP1!OrielAssumption
  BY DEF R1!OrielAssumption, RP1!OrielAssumption
<1>8. R1!Init <=> RP1!Init
  BY DEF R1!Init, RP1!Init
<1>9. R1!FileAtItsCount <=> RP1!FileAtItsCount
  BY DEF R1!FileAtItsCount, RP1!FileAtItsCount
<1>10. R1!BlocksList <=> RP1!BlocksList
  BY SameCounting DEF R1!BlocksList, RP1!BlocksList
<1>11. UNCHANGED R1!vars <=> UNCHANGED RP1!vars
  BY DEF R1!vars, RP1!vars
<1> QED BY <1>6, <1>7, <1>8, <1>9, <1>10, <1>11
-----------------------------------------------------------------------------

(***************************************************************************)
(* Ranks in a finite set with a strict order.                              *)
(***************************************************************************)
LEMMA Ranks ==
  ASSUME NEW T, IsFiniteSet(T), NEW lt,
         \A x \in T : <<x, x>> \notin lt,
         \A x, y \in T : x # y => <<x, y>> \in lt \/ <<y, x>> \in lt,
         \A x, y, z \in T : <<x, y>> \in lt /\ <<y, z>> \in lt => <<x, z>> \in lt
  PROVE  /\ Cardinality(T) \in Nat
         /\ \A i \in 1 .. Cardinality(T) : \E x \in T : Cardinality({y \in T : <<y, x>> \in lt}) = i - 1
         /\ \A x \in T : Cardinality({y \in T : <<y, x>> \in lt}) \in 0 .. Cardinality(T) - 1
         /\ \A x, z \in T :
              Cardinality({y \in T : <<y, x>> \in lt}) = Cardinality({y \in T : <<y, z>> \in lt}) => x = z
<1> DEFINE below(x) == {y \in T : <<y, x>> \in lt}
           rank == [x \in T |-> Cardinality(below(x))]
           n == Cardinality(T)
<1>1. n \in Nat
  BY FS_CardinalityType
<1>2. ASSUME NEW x \in T, NEW z \in T, <<x, z>> \in lt PROVE Cardinality(below(x)) < Cardinality(below(z))
  <2>1. IsFiniteSet(below(z)) /\ below(x) \subseteq below(z)
    <3>1. below(z) \subseteq T /\ below(x) \subseteq below(z)
      BY <1>2
    <3> QED BY <3>1, FS_Subset
  <2>2. x \in below(z) /\ x \notin below(x)
    BY <1>2
  <2> HIDE DEF below
  <2>3. IsFiniteSet(below(x)) /\ Cardinality(below(x)) <= Cardinality(below(z)) /\ (Cardinality(below(x)) = Cardinality(below(z)) => below(x) = below(z))
    BY <2>1, FS_Subset
  <2>4. Cardinality(below(x)) \in Nat /\ Cardinality(below(z)) \in Nat
    BY <2>1, <2>3, FS_CardinalityType
  <2> QED BY <2>2, <2>3, <2>4
<1>3. ASSUME NEW x \in T PROVE Cardinality(below(x)) \in 0 .. n - 1
  <2>1. below(x) \subseteq T /\ x \notin below(x)
    OBVIOUS
  <2> HIDE DEF below
  <2>2. IsFiniteSet(below(x)) /\ Cardinality(below(x)) <= n /\ (Cardinality(below(x)) = n => below(x) = T)
    BY <2>1, FS_Subset
  <2>3. Cardinality(below(x)) \in Nat
    BY <2>2, FS_CardinalityType
  <2> QED BY <1>1, <2>1, <2>2, <2>3
<1> HIDE DEF below
<1>4. ASSUME NEW x \in T, NEW z \in T, Cardinality(below(x)) = Cardinality(below(z)) PROVE x = z
  <2>1. Cardinality(below(x)) \in Nat /\ Cardinality(below(z)) \in Nat
    BY <1>1, <1>3
  <2>2. ASSUME <<x, z>> \in lt PROVE FALSE
    BY <1>2, <1>4, <2>1, <2>2
  <2>3. ASSUME <<z, x>> \in lt PROVE FALSE
    BY <1>2, <1>4, <2>1, <2>3
  <2> QED BY <2>2, <2>3
<1>5. rank \in Injection(T, 0 .. n - 1)
  BY <1>3, <1>4 DEF Injection, IsInjective
<1>6. IsFiniteSet(0 .. n - 1) /\ Cardinality(0 .. n - 1) = n
  <2> HIDE DEF n
  <2>1. n - 1 \in Int /\ (0 > n - 1 <=> n = 0)
    BY <1>1
  <2>2. IsFiniteSet(0 .. n - 1) /\ Cardinality(0 .. n - 1) = IF 0 > n - 1 THEN 0 ELSE (n - 1) - 0 + 1
    BY <2>1, FS_Interval
  <2> QED BY <1>1, <2>1, <2>2
<1>7. rank \in Surjection(T, 0 .. n - 1)
  <2> HIDE DEF rank, n
  <2> QED BY <1>5, <1>6, FS_Injection DEF n
<1>8. ASSUME NEW i \in 1 .. n PROVE \E x \in T : Cardinality(below(x)) = i - 1
  <2>1. i - 1 \in 0 .. n - 1
    BY <1>1
  <2> QED BY <1>7, <2>1 DEF Surjection
<1> QED BY <1>1, <1>3, <1>4, <1>8 DEF below

LEMMA SameClientCounting == \A s : M!Cardinality(s) = Cardinality(s) /\ (M!IsFiniteSet(s) <=> IsFiniteSet(s))
BY DEF M!Cardinality, Cardinality, M!IsFiniteSet, IsFiniteSet

\* The numbers of a set in ascending order: each once.
LEMMA AscendingIs ==
  ASSUME NEW ids \in SUBSET Nat, IsFiniteSet(ids)
  PROVE  /\ Cardinality(ids) \in Nat /\ DOMAIN M!Ascending(ids) = 1 .. Cardinality(ids)
         /\ \A i \in 1 .. Cardinality(ids) : M!Ascending(ids)[i] \in ids
         /\ \A x \in ids : \E i \in 1 .. Cardinality(ids) : M!Ascending(ids)[i] = x
         /\ \A i, j \in 1 .. Cardinality(ids) : M!Ascending(ids)[i] = M!Ascending(ids)[j] => i = j
<1> DEFINE lt == {p \in ids \X ids : p[1] < p[2]}
           rank(x) == Cardinality({y \in ids : y < x})
           n == Cardinality(ids)
<1>1. \A x \in ids : {y \in ids : <<y, x>> \in lt} = {y \in ids : y < x}
  OBVIOUS
<1>2. /\ \A x \in ids : <<x, x>> \notin lt
      /\ \A x, y \in ids : x # y => <<x, y>> \in lt \/ <<y, x>> \in lt
      /\ \A x, y, z \in ids : <<x, y>> \in lt /\ <<y, z>> \in lt => <<x, z>> \in lt
  OBVIOUS
<1>3. /\ n \in Nat
      /\ \A i \in 1 .. n : \E x \in ids : rank(x) = i - 1
      /\ \A x \in ids : rank(x) \in 0 .. n - 1
      /\ \A x, z \in ids : rank(x) = rank(z) => x = z
  <2> HIDE DEF lt
  <2>1. /\ n \in Nat
        /\ \A i \in 1 .. n : \E x \in ids : Cardinality({y \in ids : <<y, x>> \in lt}) = i - 1
        /\ \A x \in ids : Cardinality({y \in ids : <<y, x>> \in lt}) \in 0 .. n - 1
        /\ \A x, z \in ids :
             Cardinality({y \in ids : <<y, x>> \in lt}) = Cardinality({y \in ids : <<y, z>> \in lt}) => x = z
    BY <1>2, Ranks
  <2> QED BY <1>1, <2>1
<1>4. M!Ascending(ids) = [i \in 1 .. n |-> CHOOSE x \in ids : rank(x) = i - 1]
  BY DEF M!Ascending, M!Cardinality, Cardinality
<1> HIDE DEF rank, n
<1>5. ASSUME NEW i \in 1 .. n PROVE M!Ascending(ids)[i] \in ids /\ rank(M!Ascending(ids)[i]) = i - 1
  BY <1>3, <1>4
<1>6. ASSUME NEW x \in ids PROVE \E i \in 1 .. n : M!Ascending(ids)[i] = x
  <2>1. rank(x) + 1 \in 1 .. n /\ (rank(x) + 1) - 1 = rank(x)
    BY <1>3
  <2> QED BY <1>3, <1>5, <2>1
<1>7. ASSUME NEW i \in 1 .. n, NEW j \in 1 .. n, M!Ascending(ids)[i] = M!Ascending(ids)[j] PROVE i = j
  <2>1. i - 1 = j - 1
    BY <1>5, <1>7
  <2> QED BY <1>3, <2>1
<1>8. DOMAIN M!Ascending(ids) = 1 .. n
  BY <1>4
<1> QED BY <1>3, <1>5, <1>6, <1>7, <1>8 DEF n

(***************************************************************************)
(* "mitra".                                                                *)
(***************************************************************************)
AddedWith(w) == {f \in DOMAIN acc : w \in Words[f]}

MitraTypes ==
  /\ DOMAIN counts \subseteq Keywords /\ \A w \in DOMAIN counts : counts[w] \in [fc : Nat, sc : Nat]
  /\ DOMAIN acc \subseteq Files /\ \A f \in DOMAIN acc : acc[f] \in Nat

\* The entries under the current number of a keyword are its files, one each.
EntryOf(w, i) == DictW[M!Address(w, M!Count(w).sc, i)]
MitraEntries ==
  \A w \in Keywords :
    /\ \A i \in 1 .. M!Count(w).fc : EntryOf(w, i) \in AddedWith(w)
    /\ \A f \in AddedWith(w) : \E i \in 1 .. M!Count(w).fc : EntryOf(w, i) = f
    /\ \A i, j \in 1 .. M!Count(w).fc : EntryOf(w, i) = EntryOf(w, j) => i = j

MitraInv == MitraTypes /\ M!EntriesAreCurrent /\ MitraEntries /\ M!FileAtItsCount

LEMMA CountIs ==
  ASSUME MitraTypes, NEW w
  PROVE  M!Count(w) \in [fc : Nat, sc : Nat] /\ M!Count(w).fc \in Nat /\ M!Count(w).sc \in Nat
BY DEF MitraTypes, M!Count

LEMMA MitraInit == ASSUME M!Init PROVE MitraInv
<1>1. DOMAIN counts = {} /\ DOMAIN acc = {} /\ DOMAIN DictW = {} /\ DOMAIN DictF = {}
  BY DEF M!Init, M!NoEntry
<1>2. \A w : M!Count(w).fc = 0 /\ AddedWith(w) = {}
  BY <1>1 DEF M!Count, AddedWith
<1>3. 1 .. 0 = {}
  OBVIOUS
<1>4. \A w : M!Asked(w) = {}
  BY <1>2, <1>3 DEF M!Asked
<1>5. M!EntriesAreCurrent
  BY <1>1, <1>4 DEF M!EntriesAreCurrent
<1> QED BY <1>1, <1>2, <1>3, <1>5 DEF MitraInv, MitraTypes, MitraEntries, M!FileAtItsCount

LEMMA MitraInsertInv ==
  ASSUME M!MitraAssumption, PrefixesDiffer, MitraInv, NEW f \in Files, M!Insert(f)
  PROVE  MitraInv' /\ DOMAIN acc' = DOMAIN acc \cup {f} /\ f \notin DOMAIN acc
<1>1. /\ f \notin DOMAIN acc /\ Words[f] \subseteq Keywords
      /\ counts' = M!Override(counts, [w \in Words[f] |-> [M!Count(w) EXCEPT !.fc = @ + 1]])
      /\ DictW' = M!Override(DictW, [a \in {M!Entry(w) : w \in Words[f]} |-> f])
      /\ acc' = M!Override(acc, [g \in {f} |-> 1])
      /\ DictF' = M!Override(DictF, [a \in {<<f, 1>>} |-> 1 .. Blocks[f]])
  BY DEF M!Insert, M!MitraAssumption
<1>2. /\ DOMAIN acc' = DOMAIN acc \cup {f} /\ acc'[f] = 1
      /\ \A g \in DOMAIN acc : acc'[g] = acc[g]
  BY <1>1 DEF M!Override
<1>3. /\ DOMAIN counts' = DOMAIN counts \cup Words[f]
      /\ \A w : M!Count(w)' = IF w \in Words[f] THEN [fc |-> M!Count(w).fc + 1, sc |-> M!Count(w).sc] ELSE M!Count(w)
  <2>1. \A w : M!Count(w) \in [fc : Nat, sc : Nat]
    BY CountIs DEF MitraInv
  <2> QED BY <1>1, <2>1 DEF M!Override, M!Count
<1>4. MitraTypes'
  <2>1. \A w \in DOMAIN counts' : counts'[w] = M!Count(w)'
    BY DEF M!Count
  <2>2. \A w : M!Count(w)' \in [fc : Nat, sc : Nat]
    <3>1. \A w : M!Count(w) \in [fc : Nat, sc : Nat]
      BY CountIs DEF MitraInv
    <3> QED BY <1>3, <3>1
  <2>3. DOMAIN acc \subseteq Files /\ (\A g \in DOMAIN acc : acc[g] \in Nat) /\ DOMAIN counts \subseteq Keywords
    BY DEF MitraInv, MitraTypes
  <2>4. DOMAIN acc' \subseteq Files /\ (\A g \in DOMAIN acc' : acc'[g] \in Nat)
    BY <1>2, <2>3
  <2>5. DOMAIN counts' \subseteq Keywords /\ \A w \in DOMAIN counts' : counts'[w] \in [fc : Nat, sc : Nat]
    BY <1>1, <1>3, <2>1, <2>2, <2>3
  <2> QED BY <2>4, <2>5 DEF MitraTypes
<1>5. \A w : AddedWith(w)' = IF w \in Words[f] THEN AddedWith(w) \cup {f} ELSE AddedWith(w)
  BY <1>2 DEF AddedWith
<1> DEFINE new == {M!Entry(w) : w \in Words[f]}
<1>6. /\ DOMAIN DictW' = DOMAIN DictW \cup new
      /\ \A a \in new : DictW'[a] = f
      /\ \A a \in DOMAIN DictW : a \notin new => DictW'[a] = DictW[a]
  BY <1>1 DEF M!Override
<1>7. /\ DOMAIN DictW = UNION {M!Asked(w) : w \in Keywords}
      /\ \A w \in Keywords : M!Count(w).fc \in Nat /\ M!Count(w).sc \in Nat
  BY CountIs DEF MitraInv, M!EntriesAreCurrent
<1>8. \A w \in Keywords : M!Asked(w)' = IF w \in Words[f] THEN M!Asked(w) \cup {M!Entry(w)} ELSE M!Asked(w)
  <2> SUFFICES ASSUME NEW w \in Keywords
               PROVE  M!Asked(w)' = IF w \in Words[f] THEN M!Asked(w) \cup {M!Entry(w)} ELSE M!Asked(w)
    OBVIOUS
  <2>1. CASE w \in Words[f]
    <3> DEFINE c == M!Count(w)
    <3>1. c.fc \in Nat /\ M!Count(w)'.fc = c.fc + 1 /\ M!Count(w)'.sc = c.sc
      BY <1>3, <1>7, <2>1
    <3>2. M!Asked(w)' = {M!Address(w, c.sc, i) : i \in 1 .. c.fc + 1}
      BY <3>1 DEF M!Asked, M!Address
    <3>3. 1 .. c.fc + 1 = (1 .. c.fc) \cup {c.fc + 1}
      BY <3>1
    <3> QED BY <2>1, <3>2, <3>3 DEF M!Asked, M!Entry
  <2>2. CASE w \notin Words[f]
    BY <1>3, <2>2 DEF M!Asked, M!Address
  <2> QED BY <2>1, <2>2
<1>9. M!EntriesAreCurrent'
  <2>1. ASSUME NEW a \in DOMAIN DictW' PROVE \E w \in Keywords : a \in M!Asked(w)'
    <3>1. CASE a \in new
      <4>1. PICK w \in Words[f] : a = M!Entry(w)
        BY <3>1
      <4> QED BY <1>1, <1>8, <4>1
    <3>2. CASE a \notin new
      <4>1. PICK w \in Keywords : a \in M!Asked(w)
        BY <1>6, <1>7, <3>2
      <4> QED BY <1>8, <4>1
    <3> QED BY <3>1, <3>2
  <2>2. ASSUME NEW w \in Keywords, NEW a \in M!Asked(w)' PROVE a \in DOMAIN DictW'
    <3>1. a \in M!Asked(w) \/ (w \in Words[f] /\ a = M!Entry(w))
      BY <1>8
    <3>2. a \in M!Asked(w) => a \in DOMAIN DictW
      BY <1>7
    <3>3. w \in Words[f] => M!Entry(w) \in new
      OBVIOUS
    <3> QED BY <1>6, <3>1, <3>2, <3>3
  <2>3. DOMAIN DictW' = UNION {M!Asked(w)' : w \in Keywords}
    <3> HIDE DEF new
    <3> QED BY <2>1, <2>2
  <2> QED BY <2>3 DEF M!EntriesAreCurrent
<1>10. \A v, w \in Keywords : \A i : M!Address(v, M!Count(v).sc, i) = M!Entry(w) => v = w /\ i = M!Count(w).fc + 1
  BY DEF M!Address, M!Entry, PrefixesDiffer
<1>11. ASSUME NEW w \in Keywords, NEW i \in 1 .. M!Count(w).fc
       PROVE  EntryOf(w, i)' = EntryOf(w, i)
  <2>1. M!Address(w, M!Count(w).sc, i) \in DOMAIN DictW
    BY <1>7 DEF M!Asked
  <2>2. M!Address(w, M!Count(w).sc, i) \notin new
    <3>1. i # M!Count(w).fc + 1
      BY <1>7
    <3> QED BY <1>1, <1>10, <3>1
  <2>3. M!Count(w)'.sc = M!Count(w).sc
    BY <1>3
  <2> QED BY <1>6, <2>1, <2>2, <2>3 DEF EntryOf, M!Address
<1>12. ASSUME NEW w \in Words[f], NEW i, i = M!Count(w).fc + 1 PROVE EntryOf(w, i)' = f
  <2>1. M!Count(w)'.sc = M!Count(w).sc /\ M!Entry(w) \in new
    BY <1>3
  <2>2. EntryOf(w, i)' = DictW'[M!Entry(w)]
    BY <1>12, <2>1 DEF EntryOf, M!Address, M!Entry
  <2> QED BY <1>6, <2>1, <2>2
<1>13. MitraEntries'
  <2> SUFFICES ASSUME NEW w \in Keywords
               PROVE  /\ \A i \in 1 .. M!Count(w)'.fc : EntryOf(w, i)' \in AddedWith(w)'
                      /\ \A g \in AddedWith(w)' : \E i \in 1 .. M!Count(w)'.fc : EntryOf(w, i)' = g
                      /\ \A i, j \in 1 .. M!Count(w)'.fc : EntryOf(w, i)' = EntryOf(w, j)' => i = j
    BY DEF MitraEntries
  <2> DEFINE c == M!Count(w).fc
  <2>1. /\ \A i \in 1 .. c : EntryOf(w, i) \in AddedWith(w)
        /\ \A g \in AddedWith(w) : \E i \in 1 .. c : EntryOf(w, i) = g
        /\ \A i, j \in 1 .. c : EntryOf(w, i) = EntryOf(w, j) => i = j
    BY DEF MitraInv, MitraEntries
  <2>2. c \in Nat
    BY <1>7
  <2>3. CASE w \notin Words[f]
    BY <1>3, <1>5, <1>11, <2>1, <2>3
  <2>4. CASE w \in Words[f]
    <3>1. M!Count(w)'.fc = c + 1 /\ AddedWith(w)' = AddedWith(w) \cup {f} /\ f \notin AddedWith(w)
      BY <1>1, <1>3, <1>5, <2>4 DEF AddedWith
    <3>2. \A i : i = c + 1 => EntryOf(w, i)' = f
      BY <1>12, <2>4
    <3>3. \A i \in 1 .. c : EntryOf(w, i)' = EntryOf(w, i)
      BY <1>11
    <3>4. \A i \in 1 .. c + 1 : i \in 1 .. c \/ i = c + 1
      BY <2>2
    <3>5. \A i \in 1 .. c : i \in 1 .. c + 1
      BY <2>2
    <3>6. c + 1 \in 1 .. c + 1
      BY <2>2
    <3>7. \A i \in 1 .. c + 1 : EntryOf(w, i)' = IF i = c + 1 THEN f ELSE EntryOf(w, i)
      BY <3>2, <3>3, <3>4
    <3>8. \A i \in 1 .. c : i # c + 1 /\ EntryOf(w, i) # f
      BY <2>1, <2>2, <3>1
    <3> HIDE DEF c
    <3>9. \A i \in 1 .. c + 1 : EntryOf(w, i)' \in AddedWith(w) \cup {f}
      BY <2>1, <3>4, <3>7
    <3>10. \A g \in AddedWith(w) \cup {f} : \E i \in 1 .. c + 1 : EntryOf(w, i)' = g
      BY <2>1, <3>2, <3>3, <3>5, <3>6
    <3>11. \A i, j \in 1 .. c + 1 : EntryOf(w, i)' = EntryOf(w, j)' => i = j
      BY <2>1, <3>4, <3>7, <3>8
    <3> QED BY <3>1, <3>9, <3>10, <3>11
  <2> QED BY <2>3, <2>4
<1>14. M!FileAtItsCount'
  <2>1. /\ DOMAIN DictF = {<<g, acc[g]>> : g \in DOMAIN acc}
        /\ \A a \in DOMAIN DictF : DictF[a] = 1 .. Blocks[a[1]]
    BY DEF MitraInv, M!FileAtItsCount
  <2>2. /\ DOMAIN DictF' = DOMAIN DictF \cup {<<f, 1>>} /\ DictF'[<<f, 1>>] = 1 .. Blocks[f]
        /\ \A a \in DOMAIN DictF : a # <<f, 1>> => DictF'[a] = DictF[a]
    BY <1>1 DEF M!Override
  <2>3. \A a \in DOMAIN DictF' : DictF'[a] = 1 .. Blocks[a[1]]
    BY <2>1, <2>2
  <2>4. DOMAIN DictF' = {<<g, acc'[g]>> : g \in DOMAIN acc'}
    <3>1. \A g \in DOMAIN acc' : <<g, acc'[g]>> \in DOMAIN DictF'
      BY <1>2, <2>1, <2>2
    <3>2. ASSUME NEW a \in DOMAIN DictF' PROVE \E g \in DOMAIN acc' : a = <<g, acc'[g]>>
      BY <1>2, <2>1, <2>2
    <3> QED BY <3>1, <3>2
  <2> QED BY <2>3, <2>4 DEF M!FileAtItsCount
<1> QED BY <1>1, <1>2, <1>4, <1>9, <1>13, <1>14 DEF MitraInv

\* The server has an entry at every address it is asked for.
LEMMA FoundAre ==
  ASSUME M!MitraAssumption, MitraInv, NEW w \in Keywords
  PROVE  /\ M!Found(w) = AddedWith(w) /\ M!Asked(w) \subseteq DOMAIN DictW /\ M!Garbage(w) = {{}}
         /\ AddedWith(w) \in SUBSET Nat /\ AddedWith(w) \subseteq DOMAIN acc
         /\ IsFiniteSet(AddedWith(w)) /\ Cardinality(AddedWith(w)) = M!Count(w).fc
<1> DEFINE c == M!Count(w)
           A == AddedWith(w)
<1>1. c.fc \in Nat
  BY CountIs DEF MitraInv
<1>2. M!Asked(w) \subseteq DOMAIN DictW
  BY DEF MitraInv, M!EntriesAreCurrent
<1>3. /\ \A i \in 1 .. c.fc : EntryOf(w, i) \in A
      /\ \A f \in A : \E i \in 1 .. c.fc : EntryOf(w, i) = f
      /\ \A i, j \in 1 .. c.fc : EntryOf(w, i) = EntryOf(w, j) => i = j
  BY DEF MitraInv, MitraEntries
<1>4. M!Found(w) = {EntryOf(w, i) : i \in 1 .. c.fc}
  <2>1. M!Asked(w) \cap DOMAIN DictW = {M!Address(w, c.sc, i) : i \in 1 .. c.fc}
    BY <1>2 DEF M!Asked
  <2> QED BY <2>1 DEF M!Found, EntryOf
<1>5. A \subseteq DOMAIN acc /\ A \subseteq Nat
  BY DEF AddedWith, MitraInv, MitraTypes, M!MitraAssumption
<1>6. IsFiniteSet(A) /\ Cardinality(A) = c.fc
  <2> DEFINE entry == [i \in 1 .. c.fc |-> EntryOf(w, i)]
             n == c.fc
  <2> HIDE DEF A, n, c
  <2>1. entry \in [1 .. n -> A] /\ (\A i, j \in 1 .. n : entry[i] = entry[j] => i = j)
        /\ \A f \in A : \E i \in 1 .. n : entry[i] = f
    BY <1>3 DEF n
  <2> HIDE DEF entry
  <2>2. entry \in Bijection(1 .. n, A)
    BY <2>1 DEF Bijection, Injection, Surjection, IsInjective
  <2>3. ExistsBijection(1 .. n, A)
    BY <2>2 DEF ExistsBijection
  <2>4. IsFiniteSet(1 .. n) /\ Cardinality(1 .. n) = n
    BY <1>1, FS_Interval DEF n
  <2> QED BY <2>3, <2>4, FS_Bijection DEF n
<1>7. M!Found(w) = A
  <2> HIDE DEF A, c
  <2> QED BY <1>3, <1>4
<1> QED BY <1>2, <1>5, <1>6, <1>7 DEF M!Garbage

LEMMA MitraSearchInv ==
  ASSUME M!MitraAssumption, PrefixesDiffer, MitraInv, NEW w \in Keywords, M!Search(w)
  PROVE  /\ MitraInv' /\ DOMAIN acc' = DOMAIN acc
         /\ last' = M!Call("search", w, UNION {{f} \X (1 .. Blocks[f]) : f \in AddedWith(w)})
<1> DEFINE c == M!Count(w)
           ids == AddedWith(w)
<1>1. /\ M!Found(w) = ids /\ M!Asked(w) \subseteq DOMAIN DictW /\ M!Garbage(w) = {{}}
      /\ ids \in SUBSET Nat /\ ids \subseteq DOMAIN acc /\ IsFiniteSet(ids) /\ Cardinality(ids) = c.fc
  BY FoundAre
<1>2. c.fc \in Nat /\ c.sc \in Nat /\ c = [fc |-> c.fc, sc |-> c.sc]
  BY CountIs DEF MitraInv
<1>3. M!Accessed(ids) = ids /\ M!Found(w) \cup {} = ids
  BY <1>1 DEF M!Accessed
<1>4. /\ w \in DOMAIN counts
      /\ DictW' = M!Override(M!Erased(w), M!PutBack(w, ids))
      /\ counts' = [counts EXCEPT ![w] = [fc |-> IF local THEN @.fc ELSE M!Cardinality(ids), sc |-> @.sc + 1]]
      /\ acc' = M!Override(acc, [id \in ids |-> M!Acc(id) + 1])
      /\ M!MoveFiles(ids)
      /\ last' = M!Call("search", w, UNION {{a[1]} \X DictF[a] : a \in M!Contents(ids)})
  BY <1>1, <1>3 DEF M!Search
<1>5. M!Cardinality(ids) = c.fc
  BY <1>1, SameClientCounting
<1>6. /\ DOMAIN counts' = DOMAIN counts
      /\ \A v : M!Count(v)' = IF v = w THEN [fc |-> c.fc, sc |-> c.sc + 1] ELSE M!Count(v)
  <2> HIDE DEF ids
  <2>1. counts[w] = c
    BY <1>4 DEF M!Count
  <2>2. counts' = [counts EXCEPT ![w] = [fc |-> c.fc, sc |-> c.sc + 1]]
    BY <1>4, <1>5, <2>1
  <2> HIDE DEF c
  <2> QED BY <1>4, <2>2 DEF M!Count
<1>7. DOMAIN acc' = DOMAIN acc /\ \A f \in DOMAIN acc : acc'[f] = IF f \in ids THEN acc[f] + 1 ELSE acc[f]
  BY <1>1, <1>4 DEF M!Override, M!Acc
<1>8. \A v : AddedWith(v)' = AddedWith(v)
  BY <1>7 DEF AddedWith
<1>9. MitraTypes'
  <2>1. DOMAIN acc \subseteq Files /\ (\A g \in DOMAIN acc : acc[g] \in Nat) /\ DOMAIN counts \subseteq Keywords
    BY DEF MitraInv, MitraTypes
  <2>2. \A v : M!Count(v)' \in [fc : Nat, sc : Nat]
    <3>1. \A v : M!Count(v) \in [fc : Nat, sc : Nat]
      BY CountIs DEF MitraInv
    <3> QED BY <1>2, <1>6, <3>1
  <2>3. \A v \in DOMAIN counts' : counts'[v] = M!Count(v)'
    BY DEF M!Count
  <2>4. DOMAIN acc' \subseteq Files /\ (\A g \in DOMAIN acc' : acc'[g] \in Nat)
    BY <1>7, <2>1
  <2>5. DOMAIN counts' \subseteq Keywords /\ \A v \in DOMAIN counts' : counts'[v] \in [fc : Nat, sc : Nat]
    BY <1>6, <2>1, <2>2, <2>3
  <2> QED BY <2>4, <2>5 DEF MitraTypes
\* The entries of w move to the addresses of its next search.
<1> DEFINE new == {M!Address(w, c.sc + 1, i) : i \in 1 .. c.fc}
<1>10. /\ DOMAIN DictW' = (DOMAIN DictW \ M!Asked(w)) \cup new
       /\ \A i \in 1 .. c.fc : DictW'[M!Address(w, c.sc + 1, i)] = M!Ascending(ids)[i]
       /\ \A a \in DOMAIN DictW \ M!Asked(w) : a \notin new => DictW'[a] = DictW[a]
  <2>1. M!PutBack(w, ids) = [a \in new |-> M!Ascending(ids)[a[3]]]
    BY <1>5 DEF M!PutBack
  <2>2. \A i : M!Address(w, c.sc + 1, i)[3] = i
    BY DEF M!Address
  <2>3. \A i \in 1 .. c.fc : M!Address(w, c.sc + 1, i) \in new
    OBVIOUS
  <2>4. /\ DOMAIN DictW' = (DOMAIN DictW \ M!Asked(w)) \cup new
        /\ \A a \in new : DictW'[a] = M!Ascending(ids)[a[3]]
        /\ \A a \in DOMAIN DictW \ M!Asked(w) : a \notin new => DictW'[a] = DictW[a]
    <3> HIDE DEF new, ids
    <3> QED BY <1>4, <2>1 DEF M!Override, M!Erased
  <2> HIDE DEF new, ids, c
  <2> QED BY <2>2, <2>3, <2>4
<1>11. /\ M!Asked(w)' = new
       /\ \A v \in Keywords : v # w => M!Asked(v)' = M!Asked(v)
  BY <1>6 DEF M!Asked, M!Address
<1>12. /\ \A v \in Keywords : v # w => M!Asked(v) \cap M!Asked(w) = {} /\ M!Asked(v) \cap new = {}
  BY DEF M!Asked, M!Address, PrefixesDiffer
<1>13. DOMAIN DictW = UNION {M!Asked(v) : v \in Keywords}
  BY DEF MitraInv, M!EntriesAreCurrent
<1>14. M!EntriesAreCurrent'
  <2>1. ASSUME NEW a \in DOMAIN DictW' PROVE \E v \in Keywords : a \in M!Asked(v)'
    <3>1. CASE a \in new
      BY <1>11, <3>1
    <3>2. CASE a \notin new
      <4>1. PICK v \in Keywords : a \in M!Asked(v) /\ v # w
        BY <1>10, <1>13, <3>2
      <4> QED BY <1>11, <4>1
    <3> QED BY <3>1, <3>2
  <2>2. ASSUME NEW v \in Keywords, NEW a \in M!Asked(v)' PROVE a \in DOMAIN DictW'
    <3>1. CASE v = w
      BY <1>10, <1>11, <3>1
    <3>2. CASE v # w
      BY <1>10, <1>11, <1>12, <1>13, <3>2
    <3> QED BY <3>1, <3>2
  <2>3. DOMAIN DictW' = UNION {M!Asked(v)' : v \in Keywords}
    <3> HIDE DEF new
    <3> QED BY <2>1, <2>2
  <2> QED BY <2>3 DEF M!EntriesAreCurrent
<1>15. ASSUME NEW v \in Keywords
       PROVE  /\ \A i \in 1 .. M!Count(v)'.fc : EntryOf(v, i)' \in AddedWith(v)'
              /\ \A g \in AddedWith(v)' : \E i \in 1 .. M!Count(v)'.fc : EntryOf(v, i)' = g
              /\ \A i, j \in 1 .. M!Count(v)'.fc : EntryOf(v, i)' = EntryOf(v, j)' => i = j
  <2>1. CASE v = w
    <3>1. M!Count(v)'.fc = c.fc /\ M!Count(v)'.sc = c.sc + 1
      BY <1>6, <2>1
    <3>2. \A i \in 1 .. c.fc : EntryOf(v, i)' = M!Ascending(ids)[i]
      BY <1>10, <2>1, <3>1 DEF EntryOf, M!Address
    <3>3. /\ \A i \in 1 .. c.fc : M!Ascending(ids)[i] \in ids
          /\ \A x \in ids : \E i \in 1 .. c.fc : M!Ascending(ids)[i] = x
          /\ \A i, j \in 1 .. c.fc : M!Ascending(ids)[i] = M!Ascending(ids)[j] => i = j
      BY <1>1, AscendingIs
    <3>4. AddedWith(v)' = ids
      BY <1>8, <2>1
    <3> HIDE DEF ids, c
    <3> QED BY <3>1, <3>2, <3>3, <3>4
  <2>2. CASE v # w
    <3>1. M!Count(v)' = M!Count(v) /\ AddedWith(v)' = AddedWith(v)
      BY <1>6, <1>8, <2>2
    <3>2. ASSUME NEW i \in 1 .. M!Count(v).fc PROVE EntryOf(v, i)' = EntryOf(v, i)
      <4>1. M!Address(v, M!Count(v).sc, i) \in M!Asked(v)
        BY DEF M!Asked
      <4>2. DictW'[M!Address(v, M!Count(v).sc, i)] = DictW[M!Address(v, M!Count(v).sc, i)]
        BY <1>10, <1>12, <1>13, <2>2, <4>1
      <4> QED BY <3>1, <4>2 DEF EntryOf, M!Address
    <3>3. /\ \A i \in 1 .. M!Count(v).fc : EntryOf(v, i) \in AddedWith(v)
          /\ \A g \in AddedWith(v) : \E i \in 1 .. M!Count(v).fc : EntryOf(v, i) = g
          /\ \A i, j \in 1 .. M!Count(v).fc : EntryOf(v, i) = EntryOf(v, j) => i = j
      BY DEF MitraInv, MitraEntries
    <3> QED BY <3>1, <3>2, <3>3
  <2> QED BY <2>1, <2>2
<1>16. MitraEntries'
  BY <1>15 DEF MitraEntries
\* The files found move to the addresses of their next access.
<1>17. /\ DOMAIN DictF = {<<f, acc[f]>> : f \in DOMAIN acc}
       /\ \A a \in DOMAIN DictF : DictF[a] = 1 .. Blocks[a[1]]
       /\ \A f \in DOMAIN acc : acc[f] \in Nat
  BY DEF MitraInv, MitraTypes, M!FileAtItsCount
<1> DEFINE from == {<<f, acc[f]>> : f \in ids}
           to == {<<f, acc[f] + 1>> : f \in ids}
<1>18. M!Contents(ids) = from
  BY <1>1, <1>17 DEF M!Contents, M!Acc
<1>19. /\ DOMAIN DictF' = (DOMAIN DictF \ from) \cup to
       /\ \A a \in to : DictF'[a] = DictF[<<a[1], a[2] - 1>>]
       /\ \A a \in DOMAIN DictF \ from : a \notin to => DictF'[a] = DictF[a]
  <2>1. {<<a[1], a[2] + 1>> : a \in from} = to
    <3> HIDE DEF ids
    <3>1. \A f \in ids : <<f, acc[f]>> \in from /\ <<f, acc[f] + 1>> \in to
      OBVIOUS
    <3>2. ASSUME NEW a \in from PROVE <<a[1], a[2] + 1>> \in to
      <4>1. PICK f \in ids : a = <<f, acc[f]>>
        OBVIOUS
      <4> QED BY <4>1
    <3>3. ASSUME NEW b \in to PROVE \E a \in from : b = <<a[1], a[2] + 1>>
      <4>1. PICK f \in ids : b = <<f, acc[f] + 1>>
        OBVIOUS
      <4>2. b = <<<<f, acc[f]>>[1], <<f, acc[f]>>[2] + 1>>
        BY <4>1
      <4> QED BY <3>1, <4>2
    <3> HIDE DEF from, to
    <3> QED BY <3>2, <3>3
  <2> HIDE DEF from, to, ids
  <2> QED BY <1>4, <1>18, <2>1 DEF M!MoveFiles, M!Override, M!Remaining
<1>20. \A f \in DOMAIN acc : <<f, acc[f]>> \in DOMAIN DictF /\ DictF[<<f, acc[f]>>] = 1 .. Blocks[f]
  BY <1>17
<1>21. M!FileAtItsCount'
  <2>1. DOMAIN DictF' = {<<f, acc'[f]>> : f \in DOMAIN acc'}
    <3>1. \A f \in DOMAIN acc : f \in ids => <<f, acc'[f]>> \in to
      BY <1>7
    <3>2. \A f \in DOMAIN acc : f \notin ids => <<f, acc'[f]>> \in DOMAIN DictF \ from
      BY <1>7, <1>17
    <3>3. \A a \in to : \E f \in DOMAIN acc : a = <<f, acc'[f]>>
      BY <1>1, <1>7
    <3>4. \A a \in DOMAIN DictF \ from : \E f \in DOMAIN acc : a = <<f, acc'[f]>>
      BY <1>7, <1>17
    <3> HIDE DEF to, from
    <3> QED BY <1>7, <1>19, <3>1, <3>2, <3>3, <3>4
  <2>2. ASSUME NEW a \in to PROVE DictF'[a] = 1 .. Blocks[a[1]]
    <3>1. PICK f \in ids : a = <<f, acc[f] + 1>>
      OBVIOUS
    <3>2. a[1] = f /\ a[2] - 1 = acc[f] /\ f \in DOMAIN acc
      BY <1>1, <1>17, <3>1
    <3> QED BY <1>19, <1>20, <3>2
  <2>3. \A a \in DOMAIN DictF' : DictF'[a] = 1 .. Blocks[a[1]]
    BY <1>17, <1>19, <2>2
  <2> QED BY <2>1, <2>3 DEF M!FileAtItsCount
<1>22. UNION {{a[1]} \X DictF[a] : a \in M!Contents(ids)} = UNION {{f} \X (1 .. Blocks[f]) : f \in ids}
  <2>1. \A a \in from : a[1] \in ids /\ DictF[a] = 1 .. Blocks[a[1]]
    BY <1>1, <1>17, <1>20
  <2>2. \A f \in ids : \E a \in from : a[1] = f
    <3>1. \A f \in ids : <<f, acc[f]>> \in from /\ <<f, acc[f]>>[1] = f
      <4> HIDE DEF ids
      <4> QED OBVIOUS
    <3> HIDE DEF ids, from
    <3> QED BY <3>1
  <2> HIDE DEF from, ids
  <2>3. \A a \in from : {a[1]} \X DictF[a] = {a[1]} \X (1 .. Blocks[a[1]])
    BY <2>1
  <2>4. UNION {{a[1]} \X DictF[a] : a \in from} \subseteq UNION {{f} \X (1 .. Blocks[f]) : f \in ids}
    BY <2>1, <2>3
  <2>5. ASSUME NEW f \in ids, NEW b \in {f} \X (1 .. Blocks[f])
        PROVE  b \in UNION {{a[1]} \X DictF[a] : a \in from}
    <3>1. PICK a \in from : a[1] = f
      BY <2>2
    <3> QED BY <2>3, <3>1
  <2>6. UNION {{f} \X (1 .. Blocks[f]) : f \in ids} \subseteq UNION {{a[1]} \X DictF[a] : a \in from}
    BY <2>5
  <2> QED BY <1>18, <2>4, <2>6
<1> QED BY <1>4, <1>7, <1>9, <1>14, <1>16, <1>21, <1>22 DEF MitraInv

LEMMA MitraNextInv ==
  ASSUME M!MitraAssumption, PrefixesDiffer, MitraInv, [M!Next]_M!vars
  PROVE  MitraInv'
<1>1. ASSUME NEW f \in Files, M!Insert(f) PROVE MitraInv'
  BY <1>1, MitraInsertInv
<1>2. ASSUME NEW w \in Keywords, M!Search(w) PROVE MitraInv'
  BY <1>2, MitraSearchInv
<1>3. ASSUME UNCHANGED <<counts, acc, DictW, DictF>> PROVE MitraInv'
  <2>1. \A v : M!Count(v)' = M!Count(v) /\ M!Asked(v)' = M!Asked(v) /\ AddedWith(v)' = AddedWith(v)
    BY <1>3 DEF M!Count, M!Asked, M!Address, AddedWith
  <2>2. \A v, i : EntryOf(v, i)' = EntryOf(v, i)
    BY <1>3, <2>1 DEF EntryOf, M!Address
  <2>3. MitraTypes' /\ M!FileAtItsCount'
    BY <1>3 DEF MitraInv, MitraTypes, M!FileAtItsCount
  <2>4. MitraEntries'
    BY <2>1, <2>2 DEF MitraInv, MitraEntries
  <2>5. M!EntriesAreCurrent'
    BY <1>3, <2>1 DEF MitraInv, M!EntriesAreCurrent
  <2> QED BY <2>3, <2>4, <2>5 DEF MitraInv
<1> QED BY <1>1, <1>2, <1>3 DEF M!Next, M!EndSetup, M!SearchUnknown, M!vars

LEMMA MitraExact == ASSUME M!MitraAssumption, MitraInv PROVE M!EntriesAreCurrent /\ M!EntriesAreFiles /\ M!FileAtItsCount
<1>1. M!EntriesAreFiles
  BY FoundAre, SameClientCounting DEF M!EntriesAreFiles, AddedWith
<1> QED BY <1>1 DEF MitraInv
-----------------------------------------------------------------------------

(***************************************************************************)
(* "packseed".                                                             *)
(***************************************************************************)
CountedWith(w) == {f \in Files : localBCNT[f] # 0 /\ w \in Words[f]}

\* The client's counters.
ClientTypes ==
  /\ localFCNT = [w \in Keywords |-> localFCNT[w]] /\ localBCNT = [f \in Files |-> localBCNT[f]]
  /\ \A f \in Files : localBCNT[f] \in {0, Blocks[f]}

SeedTypes ==
  /\ ClientTypes
  /\ \A k \in DOMAIN stored : stored[k] = Q!RandomPath(k[1], Q!localAC, k[2], 3)
  /\ DOMAIN stored = UNION {{f} \X (1 .. localBCNT[f]) : f \in Files}

SeedBlocks(w) == [b \in 1 .. RP!get_block_num(localFCNT[w]) |-> entries[<<w, b>>].ids]
SeedNodes ==
  \A w \in Keywords :
    /\ {k \in DOMAIN entries : k[1] = w} = {<<w, b>> : b \in 1 .. RP!get_block_num(localFCNT[w])}
    /\ \A b \in 1 .. RP!get_block_num(localFCNT[w]) : entries[<<w, b>>].pos = Q!RandomSeedPath(w, Q!localSC, b)
    /\ RP!PackedAs(SeedBlocks(w), localFCNT[w], CountedWith(w))

SeedInv == SeedTypes /\ SeedNodes

LEMMA SameNumbers ==
  \A n : /\ Q!get_block_num(n) = RP!get_block_num(n) /\ Q!get_position(n) = RP!get_position(n)
         /\ P!get_block_num(n) = RP!get_block_num(n) /\ P!get_position(n) = RP!get_position(n)
BY DEF Q!get_block_num, RP!get_block_num, Q!get_position, RP!get_position, P!get_block_num, P!get_position

LEMMA SeedInit == ASSUME RP!OrielAssumption, Q!PackedSeedAssumption, Q!Init PROVE SeedInv
<1>1. /\ localFCNT = [w \in Keywords |-> 0] /\ localBCNT = [f \in Files |-> 0]
      /\ DOMAIN entries = {} /\ DOMAIN stored = {}
  BY DEF Q!Init, Q!NoEntry
<1>2. ClientTypes
  BY <1>1 DEF ClientTypes
<1>3. UNION {{f} \X (1 .. localBCNT[f]) : f \in Files} = {}
  BY <1>1
<1>4. SeedTypes
  BY <1>1, <1>2, <1>3 DEF SeedTypes
<1>5. ASSUME NEW w \in Keywords
      PROVE  /\ {k \in DOMAIN entries : k[1] = w} = {<<w, b>> : b \in 1 .. RP!get_block_num(localFCNT[w])}
             /\ 1 .. RP!get_block_num(localFCNT[w]) = {}
             /\ RP!PackedAs(SeedBlocks(w), localFCNT[w], CountedWith(w))
  <2>1. localFCNT[w] = 0 /\ CountedWith(w) = {}
    BY <1>1 DEF CountedWith
  <2>2. \A blocks : DOMAIN blocks = {} => RP!PackedAs(blocks, 0, {}) /\ RP!get_block_num(0) = 0
    BY RP!NonePacked
  <2>3. RP!get_block_num(0) = 0
    <3>1. DOMAIN entries = {}
      BY <1>1
    <3> QED BY <2>2, <3>1
  <2>4. 1 .. RP!get_block_num(localFCNT[w]) = {}
    BY <2>1, <2>3
  <2>5. DOMAIN SeedBlocks(w) = {}
    BY <2>4 DEF SeedBlocks
  <2> QED BY <1>1, <2>1, <2>2, <2>4, <2>5
<1> QED BY <1>4, <1>5 DEF SeedInv, SeedNodes

\* What one more file changes.
LEMMA CountsMore ==
  ASSUME ClientTypes, NEW f \in Files, localBCNT[f] = 0, Blocks[f] \in Nat \ {0}, Words[f] \subseteq Keywords,
         localFCNT' = [w \in Keywords |-> IF w \in Words[f] THEN localFCNT[w] + 1 ELSE localFCNT[w]],
         localBCNT' = [localBCNT EXCEPT ![f] = Blocks[f]]
  PROVE  /\ ClientTypes'
         /\ \A w \in Keywords : CountedWith(w)' = IF w \in Words[f] THEN CountedWith(w) \cup {f} ELSE CountedWith(w)
         /\ \A w \in Keywords : f \notin CountedWith(w)
         /\ \A g \in Files : localBCNT'[g] = IF g = f THEN Blocks[f] ELSE localBCNT[g]
<1>1. \A g \in Files : localBCNT'[g] = IF g = f THEN Blocks[f] ELSE localBCNT[g]
  BY DEF ClientTypes
<1>2. localBCNT' = [g \in Files |-> localBCNT'[g]] /\ localFCNT' = [w \in Keywords |-> localFCNT'[w]]
  BY DEF ClientTypes
<1>3. ClientTypes'
  BY <1>1, <1>2 DEF ClientTypes
<1> QED BY <1>1, <1>3 DEF CountedWith

LEMMA SeedInsertInv ==
  ASSUME RP!OrielAssumption, Q!PackedSeedAssumption, SeedInv, NEW f \in Files, Q!batchInsert(f)
  PROVE  /\ SeedInv' /\ localBCNT[f] = 0
         /\ \A g \in Files : localBCNT'[g] = IF g = f THEN Blocks[f] ELSE localBCNT[g]
<1>1. /\ localBCNT[f] = 0 /\ Words[f] \subseteq Keywords /\ Blocks[f] \in Nat \ {0} /\ f # RP!Pad
      /\ entries' = Q!Override(entries, [k \in {Q!KeyFor(w) : w \in Words[f]} |-> Q!kwnode(k[1], f)])
      /\ localFCNT' = [w \in Keywords |-> IF w \in Words[f] THEN localFCNT[w] + 1 ELSE localFCNT[w]]
      /\ localBCNT' = [localBCNT EXCEPT ![f] = Blocks[f]]
      /\ stored' = Q!Override(stored, [k \in {f} \X (1 .. Blocks[f]) |-> Q!RandomPath(f, Q!localAC, k[2], 3)])
  BY DEF Q!batchInsert, Q!PackedSeedAssumption, Q!Free, RP!Pad
<1>2. /\ ClientTypes'
      /\ \A w \in Keywords : CountedWith(w)' = IF w \in Words[f] THEN CountedWith(w) \cup {f} ELSE CountedWith(w)
      /\ \A w \in Keywords : f \notin CountedWith(w)
      /\ \A g \in Files : localBCNT'[g] = IF g = f THEN Blocks[f] ELSE localBCNT[g]
  BY <1>1, CountsMore DEF SeedInv, SeedTypes
<1> DEFINE new == {Q!KeyFor(w) : w \in Words[f]}
<1>3. /\ DOMAIN entries' = DOMAIN entries \cup new
      /\ \A k \in new : entries'[k] = Q!kwnode(k[1], f)
      /\ \A k \in DOMAIN entries : k \notin new => entries'[k] = entries[k]
  BY <1>1 DEF Q!Override
<1>4. \A w : Q!KeyFor(w) = <<w, RP!get_block_num(localFCNT[w] + 1)>>
  BY SameNumbers DEF Q!KeyFor, Q!createBid
<1>5. ASSUME NEW w \in Keywords
      PROVE  /\ {k \in DOMAIN entries' : k[1] = w} = {<<w, b>> : b \in 1 .. RP!get_block_num(localFCNT'[w])}
             /\ \A b \in 1 .. RP!get_block_num(localFCNT'[w]) : entries'[<<w, b>>].pos = Q!RandomSeedPath(w, Q!localSC, b)
             /\ RP!PackedAs(SeedBlocks(w)', localFCNT'[w], CountedWith(w)')
  <2> DEFINE c == localFCNT[w]
             d == RP!get_block_num(c)
             q == RP!get_block_num(c + 1)
             p == RP!get_position(c + 1)
  <2>1. /\ {k \in DOMAIN entries : k[1] = w} = {<<w, b>> : b \in 1 .. d}
        /\ \A b \in 1 .. d : entries[<<w, b>>].pos = Q!RandomSeedPath(w, Q!localSC, b)
        /\ RP!PackedAs(SeedBlocks(w), c, CountedWith(w))
    BY DEF SeedInv, SeedNodes
  <2>2. CASE w \notin Words[f]
    <3>1. localFCNT'[w] = c /\ CountedWith(w)' = CountedWith(w)
      BY <1>1, <1>2, <2>2
    <3>2. \A k \in new : k[1] # w
      BY <1>4, <2>2
    <3>3. {k \in DOMAIN entries' : k[1] = w} = {k \in DOMAIN entries : k[1] = w}
      BY <1>3, <3>2
    <3>4. \A b \in 1 .. d : <<w, b>> \in DOMAIN entries /\ <<w, b>> \notin new
      BY <2>1, <3>2
    <3>5. \A b \in 1 .. d : entries'[<<w, b>>] = entries[<<w, b>>]
      BY <1>3, <3>4
    <3>6. SeedBlocks(w)' = SeedBlocks(w)
      BY <3>1, <3>5 DEF SeedBlocks
    <3> QED BY <2>1, <3>1, <3>3, <3>5, <3>6
  <2>3. CASE w \in Words[f]
    <3>1. localFCNT'[w] = c + 1 /\ CountedWith(w)' = CountedWith(w) \cup {f} /\ f \notin CountedWith(w)
      BY <1>1, <1>2, <2>3
    <3>2. c \in Nat /\ d \in Nat /\ q = (IF p = 1 THEN d + 1 ELSE d) /\ q \in Nat \ {0} /\ p \in 1 .. COM
      <4>1. c \in Nat
        BY <2>1 DEF RP!PackedAs
      <4>2. c + 1 \in Nat \ {0}
        BY <4>1
      <4> HIDE DEF c
      <4> QED BY <4>1, <4>2, RP!BlockCount, RP!PlaceOf
    <3>3. (\A k \in new : k[1] = w => k = <<w, q>>) /\ <<w, q>> \in new
      BY <1>4, <2>3
    <3>4. {k \in DOMAIN entries' : k[1] = w} = {<<w, b>> : b \in 1 .. q}
      <4> HIDE DEF c, d, q, p
      <4>1. 1 .. q = (1 .. d) \cup {q}
        BY <3>2
      <4> HIDE DEF new
      <4>2. {k \in DOMAIN entries' : k[1] = w} = {k \in DOMAIN entries : k[1] = w} \cup {<<w, q>>}
        BY <1>3, <3>3
      <4>3. {<<w, b>> : b \in 1 .. q} = {<<w, b>> : b \in 1 .. d} \cup {<<w, q>>}
        BY <4>1
      <4> QED BY <2>1, <4>2, <4>3
    <3>5. entries'[<<w, q>>] =
            [ids |-> [(IF p = 1 THEN [i \in 1 .. COM |-> RP!Pad] ELSE entries[<<w, q>>].ids) EXCEPT ![p] = f],
             pos |-> Q!RandomSeedPath(w, Q!localSC, q)]
      BY <1>3, <1>4, <3>3, SameNumbers DEF Q!kwnode, Q!Free, RP!Pad
    <3>6. \A b \in 1 .. q : b # q => b \in 1 .. d /\ entries'[<<w, b>>] = entries[<<w, b>>]
      <4> SUFFICES ASSUME NEW b \in 1 .. q, b # q PROVE b \in 1 .. d /\ entries'[<<w, b>>] = entries[<<w, b>>]
        OBVIOUS
      <4>1. b \in 1 .. d
        BY <3>2
      <4>2. <<w, b>> \in DOMAIN entries
        BY <2>1, <4>1
      <4>3. <<w, b>> \notin new
        BY <3>3
      <4> QED BY <1>3, <4>1, <4>2, <4>3
    <3>7. \A b \in 1 .. q : entries'[<<w, b>>].pos = Q!RandomSeedPath(w, Q!localSC, b)
      BY <2>1, <3>5, <3>6
    <3>8. DOMAIN SeedBlocks(w)' = 1 .. q
      BY <3>1 DEF SeedBlocks
    <3>9. ASSUME NEW b \in 1 .. q
          PROVE  SeedBlocks(w)'[b] =
                   IF b = q THEN [(IF p = 1 THEN [i \in 1 .. COM |-> RP!Pad] ELSE SeedBlocks(w)[b]) EXCEPT ![p] = f]
                   ELSE SeedBlocks(w)[b]
      <4>1. SeedBlocks(w)'[b] = entries'[<<w, b>>].ids
        BY <3>1 DEF SeedBlocks
      <4>2. b \in 1 .. d => SeedBlocks(w)[b] = entries[<<w, b>>].ids
        BY DEF SeedBlocks
      <4>3. p # 1 => q \in 1 .. d
        BY <3>2
      <4>4. CASE b = q
        <5>1. p # 1 => SeedBlocks(w)[q] = entries[<<w, q>>].ids
          BY <4>2, <4>3, <4>4
        <5>2. SeedBlocks(w)'[q] = [(IF p = 1 THEN [i \in 1 .. COM |-> RP!Pad] ELSE entries[<<w, q>>].ids) EXCEPT ![p] = f]
          <6> DEFINE ids == [(IF p = 1 THEN [i \in 1 .. COM |-> RP!Pad] ELSE entries[<<w, q>>].ids) EXCEPT ![p] = f]
          <6>1. entries'[<<w, q>>] = [ids |-> ids, pos |-> Q!RandomSeedPath(w, Q!localSC, q)]
            BY <3>5
          <6> HIDE DEF ids
          <6>2. entries'[<<w, q>>].ids = ids
            BY <6>1
          <6> QED BY <4>1, <4>4, <6>2 DEF ids
        <5> HIDE DEF q, d, p
        <5> QED BY <4>4, <5>1, <5>2
      <4>5. CASE b # q
        BY <3>6, <4>1, <4>2, <4>5
      <4> QED BY <4>4, <4>5
    <3>10. RP!PackedAs(SeedBlocks(w)', c + 1, CountedWith(w) \cup {f})
      <4>1. RP!PackedAs(SeedBlocks(w), c, CountedWith(w)) /\ f \notin CountedWith(w) /\ f # RP!Pad
        BY <1>1, <2>1, <3>1
      <4> QED BY ONLY RP!OrielAssumption, <3>8, <3>9, <4>1, RP!OneMorePacked
    <3> QED BY <3>1, <3>4, <3>7, <3>10
  <2> QED BY <2>2, <2>3
<1>6. SeedTypes'
  <2> DEFINE more == {f} \X (1 .. Blocks[f])
  <2>1. /\ DOMAIN stored' = DOMAIN stored \cup more
        /\ \A k \in more : stored'[k] = Q!RandomPath(k[1], Q!localAC, k[2], 3)
        /\ \A k \in DOMAIN stored : k \notin more => stored'[k] = stored[k]
    BY <1>1 DEF Q!Override
  <2>2. /\ \A k \in DOMAIN stored : stored[k] = Q!RandomPath(k[1], Q!localAC, k[2], 3)
        /\ DOMAIN stored = UNION {{g} \X (1 .. localBCNT[g]) : g \in Files}
    BY DEF SeedInv, SeedTypes
  <2>3. \A k \in DOMAIN stored' : stored'[k] = Q!RandomPath(k[1], Q!localAC, k[2], 3)
    BY <2>1, <2>2
  <2>4. DOMAIN stored' = UNION {{g} \X (1 .. localBCNT'[g]) : g \in Files}
    <3>1. \A k : k \in DOMAIN stored' <=> \E g \in Files : k \in {g} \X (1 .. localBCNT'[g])
      BY <1>1, <1>2, <2>1, <2>2
    <3> QED BY <3>1
  <2> QED BY <1>2, <2>3, <2>4 DEF SeedTypes
<1>7. SeedNodes'
  BY <1>5 DEF SeedNodes
<1> QED BY <1>1, <1>2, <1>6, <1>7 DEF SeedInv

\* A search reads the ids packed into the nodes of its keyword.
LEMMA SeedResult ==
  ASSUME RP!OrielAssumption, SeedInv, NEW w \in Keywords
  PROVE  Q!result(w) = CountedWith(w)
<1> DEFINE c == localFCNT[w]
           d == RP!get_block_num(c)
           ids == CountedWith(w)
           blocks == SeedBlocks(w)
<1>1. RP!PackedAs(blocks, c, ids)
  BY DEF SeedInv, SeedNodes
<1>2. c \in Nat /\ d \in Nat /\ COM \in Nat \ {0}
  BY <1>1, RP!BlockCount DEF RP!PackedAs, RP!OrielAssumption
<1>3. Q!result(w) = UNION {{entries[<<w, n>>].ids[i] : i \in Q!Places(w, n)} : n \in 1 .. d}
  BY SameNumbers DEF Q!result, Q!createBid
<1>4. \A n \in 1 .. d : blocks[n] = entries[<<w, n>>].ids
  BY DEF SeedBlocks
<1>5. \A n \in 1 .. d : Q!Places(w, n) = {i \in 1 .. COM : (n - 1) * COM + i <= c}
  BY DEF Q!Places
<1> HIDE DEF blocks, ids, c
<1>6. ASSUME NEW n \in 1 .. d, NEW i \in Q!Places(w, n) PROVE entries[<<w, n>>].ids[i] \in ids
  <2>1. i \in 1 .. COM /\ (n - 1) * COM + i <= c
    BY <1>5
  <2>2. n \in Nat \ {0}
    BY <1>2
  <2> DEFINE m == (n - 1) * COM + i
  <2>3. m \in Nat \ {0} /\ RP!get_block_num(m) = n /\ RP!get_position(m) = i
    BY <2>1, <2>2, RP!OnePlace
  <2> HIDE DEF m
  <2>4. m <= c
    BY <2>1 DEF m
  <2>5. m \in 1 .. c
    BY <1>2, <2>3, <2>4
  <2>6. RP!IdAt(blocks, m) \in ids
    BY <1>1, <2>5 DEF RP!PackedAs
  <2> QED BY <1>4, <2>3, <2>6 DEF RP!IdAt
<1>7. ASSUME NEW f \in ids PROVE \E n \in 1 .. d : \E i \in Q!Places(w, n) : entries[<<w, n>>].ids[i] = f
  <2>1. PICK m \in 1 .. c : RP!IdAt(blocks, m) = f
    BY <1>1 DEF RP!PackedAs
  <2>2. m \in Nat \ {0} /\ m <= c
    BY <1>2
  <2>3. RP!get_block_num(m) \in 1 .. d
    BY <1>2, <2>1, RP!BlockCount
  <2>4. RP!get_position(m) \in 1 .. COM /\ m = (RP!get_block_num(m) - 1) * COM + RP!get_position(m)
    BY <2>2, RP!PlaceOf
  <2>5. RP!get_position(m) \in Q!Places(w, RP!get_block_num(m))
    BY <1>5, <2>2, <2>3, <2>4
  <2> QED BY <1>4, <2>1, <2>3, <2>5 DEF RP!IdAt
<1> HIDE DEF d
<1>8. UNION {{entries[<<w, n>>].ids[i] : i \in Q!Places(w, n)} : n \in 1 .. d} = ids
  <2> DEFINE read(n) == {entries[<<w, n>>].ids[i] : i \in Q!Places(w, n)}
  <2>1. \A n \in 1 .. d : read(n) \subseteq ids
    BY <1>6
  <2>2. \A f \in ids : \E n \in 1 .. d : f \in read(n)
    BY <1>7
  <2> HIDE DEF read
  <2>3. UNION {read(n) : n \in 1 .. d} = ids
    BY <2>1, <2>2
  <2> QED BY <2>3 DEF read
<1> QED BY <1>3, <1>8 DEF ids

LEMMA SeedExact == ASSUME RP!OrielAssumption, SeedInv PROVE Q!NodesAreFound
<1>1. \A s : Q!Cardinality(s) = RP!Cardinality(s)
  BY DEF Q!Cardinality, RP!Cardinality
<1> SUFFICES ASSUME NEW w \in Keywords
             PROVE  LET n == Q!get_block_num(localFCNT[w]) IN
                    /\ {k \in DOMAIN entries : k[1] = w} = {Q!createBid(w, b) : b \in 1 .. n}
                    /\ \A b \in 1 .. n : entries[Q!createBid(w, b)].pos = Q!RandomSeedPath(w, Q!localSC, b)
                    /\ Q!result(w) = {f \in Files : localBCNT[f] # 0 /\ w \in Words[f]}
                    /\ Q!Cardinality(Q!result(w)) = localFCNT[w]
  BY DEF Q!NodesAreFound
<1>2. /\ {k \in DOMAIN entries : k[1] = w} = {<<w, b>> : b \in 1 .. RP!get_block_num(localFCNT[w])}
      /\ \A b \in 1 .. RP!get_block_num(localFCNT[w]) : entries[<<w, b>>].pos = Q!RandomSeedPath(w, Q!localSC, b)
      /\ RP!Cardinality(CountedWith(w)) = localFCNT[w]
  BY DEF SeedInv, SeedNodes, RP!PackedAs
<1> QED BY <1>1, <1>2, SeedResult, SameNumbers DEF Q!createBid, CountedWith

\* It finds all their blocks.
LEMMA SeedFound ==
  ASSUME SeedInv, NEW w \in Keywords
  PROVE  Q!conts(CountedWith(w)) = UNION {{f} \X (1 .. Blocks[f]) : f \in CountedWith(w)}
<1> DEFINE ids == CountedWith(w)
<1>1. ids \subseteq Files /\ \A f \in ids : localBCNT[f] = Blocks[f]
  BY DEF CountedWith, SeedInv, SeedTypes, ClientTypes
<1>2. /\ \A k \in DOMAIN stored : stored[k] = Q!RandomPath(k[1], Q!localAC, k[2], 3)
      /\ DOMAIN stored = UNION {{f} \X (1 .. localBCNT[f]) : f \in Files}
  BY DEF SeedInv, SeedTypes
<1> DEFINE asked == UNION {{f} \X (1 .. localBCNT[f]) : f \in ids}
<1>3. asked \subseteq DOMAIN stored
  BY <1>1, <1>2
<1>4. Q!conts(ids) = asked
  BY <1>2, <1>3 DEF Q!conts
<1>5. asked = UNION {{f} \X (1 .. Blocks[f]) : f \in ids}
  BY <1>1
<1> QED BY <1>4, <1>5

LEMMA SeedSameInv == SeedInv /\ UNCHANGED <<localFCNT, localBCNT, entries, stored>> => SeedInv'
<1> SUFFICES ASSUME SeedInv, UNCHANGED <<localFCNT, localBCNT, entries, stored>> PROVE SeedInv'
  OBVIOUS
<1>1. \A w : SeedBlocks(w)' = SeedBlocks(w) /\ CountedWith(w)' = CountedWith(w)
  BY DEF SeedBlocks, CountedWith
<1>2. SeedTypes'
  BY DEF SeedInv, SeedTypes, ClientTypes
<1>3. SeedNodes'
  BY <1>1 DEF SeedInv, SeedNodes
<1> QED BY <1>2, <1>3 DEF SeedInv

LEMMA SeedNextInv ==
  ASSUME RP!OrielAssumption, Q!PackedSeedAssumption, SeedInv, [Q!Next]_Q!vars
  PROVE  SeedInv'
<1>1. ASSUME NEW f \in Files, Q!batchInsert(f) PROVE SeedInv'
  BY <1>1, SeedInsertInv
<1> QED BY <1>1, SeedSameInv DEF Q!Next, Q!endSetup, Q!simplebatchSearch, Q!vars
-----------------------------------------------------------------------------
LEMMA LeastNumber ==
  ASSUME NEW T, T \subseteq Nat, T # {}
  PROVE  \E n \in T : \A m \in T : n <= m
<1> DEFINE less == OpToRel(<, Nat)
<1>1. IsWellFoundedOn(less, Nat)
  BY NatLessThanWellFounded
<1>2. \A m, l \in Nat : m < l => <<m, l>> \in less
  BY DEF OpToRel
<1> HIDE DEF less
<1>3. PICK n \in T : \A m \in T : ~ (<<m, n>> \in less)
  BY <1>1, WFMin
<1>4. ASSUME NEW m \in T PROVE n <= m
  <2>1. ~ (m < n) /\ m \in Nat /\ n \in Nat
    BY <1>2, <1>3
  <2> QED BY <2>1
<1> QED BY <1>4

(***************************************************************************)
(* The walk through the tree of the sorted keys meets each of them once.   *)
(***************************************************************************)
Mid(r) == (r[1] + r[2]) \div 2
WalkFrom(s, w, r) == <<s[Mid(r)]>> \o w[<<r[1], Mid(r) - 1>>] \o w[<<Mid(r) + 1, r[2]>>]
RangesOf(n) == (1 .. n + 1) \X (0 .. n)
IsWalk(s, w) == w = [r \in RangesOf(Len(s)) |-> IF r[1] > r[2] THEN <<>> ELSE WalkFrom(s, w, r)]

LEMMA PreorderIs == ASSUME NEW s PROVE P!Preorder(s) = (CHOOSE w : IsWalk(s, w))[<<1, Len(s)>>]
BY DEF P!Preorder, IsWalk, WalkFrom, Mid, RangesOf

LEMMA Halves ==
  ASSUME NEW n \in Nat, NEW r \in RangesOf(n), r[1] <= r[2]
  PROVE  /\ Mid(r) \in r[1] .. r[2] /\ Mid(r) \in 1 .. n /\ r[1] \in Nat /\ r[2] \in Nat
         /\ <<r[1], Mid(r) - 1>> \in RangesOf(n) /\ <<Mid(r) + 1, r[2]>> \in RangesOf(n)
         /\ (Mid(r) - 1) - r[1] < r[2] - r[1] /\ r[2] - (Mid(r) + 1) < r[2] - r[1]
<1> DEFINE a == r[1]
           b == r[2]
<1>1. a \in 1 .. n + 1 /\ b \in 0 .. n /\ a <= b
  BY DEF RangesOf
<1> HIDE DEF a, b
<1>2. (a + b) \div 2 \in a .. b
  BY <1>1
<1>3. Mid(r) = (a + b) \div 2
  BY DEF Mid, a, b
<1>4. Mid(r) \in a .. b
  BY <1>2, <1>3
<1> QED BY <1>1, <1>4 DEF RangesOf, a, b

\* A function that satisfies the recursive definition of the walk: for ranges
\* of n keys at first, then of all.
LEMMA WalkExists ==
  ASSUME NEW s, Len(s) \in Nat
  PROVE  IsWalk(s, CHOOSE w : IsWalk(s, w))
<1> DEFINE L == Len(s)
           Short(w, n) == w = [r \in RangesOf(L) |->
                                 IF r[1] > r[2] \/ r[2] - r[1] >= n THEN <<>> ELSE WalkFrom(s, w, r)]
<1>1. ASSUME NEW m \in Nat PROVE \E w : Short(w, m)
  <2> DEFINE Bad == {j \in Nat : ~ \E w : Short(w, j)}
  <2>1. SUFFICES ASSUME m \in Bad PROVE FALSE
    OBVIOUS
  <2>2. Bad \subseteq Nat
    <3> HIDE DEF Short
    <3> QED OBVIOUS
  <2> HIDE DEF Bad
  <2>3. PICK j \in Bad : \A k \in Bad : j <= k
    BY <2>1, <2>2, LeastNumber
  <2>4. j \in Nat /\ ~ \E w : Short(w, j)
    BY <2>3 DEF Bad
  <2>5. CASE j = 0
    <3>1. Short([r \in RangesOf(L) |-> <<>>], 0)
      <4>1. \A r \in RangesOf(L) : r[1] > r[2] \/ r[2] - r[1] >= 0
        BY DEF RangesOf
      <4> QED BY <4>1
    <3> QED BY <2>4, <2>5, <3>1
  <2>6. CASE j # 0
    <3>1. j - 1 \in Nat /\ j - 1 \notin Bad
      BY <2>3, <2>4, <2>6
    <3>2. PICK g : Short(g, j - 1)
      BY <3>1 DEF Bad
    <3> DEFINE w == [r \in RangesOf(L) |->
                       IF r[1] > r[2] \/ r[2] - r[1] >= j THEN <<>> ELSE WalkFrom(s, g, r)]
    <3>3. ASSUME NEW r \in RangesOf(L), r[2] - r[1] < j - 1 PROVE w[r] = g[r]
      <4>1. r[1] \in Nat /\ r[2] \in Nat
        BY DEF RangesOf
      <4>2. g[r] = IF r[1] > r[2] \/ r[2] - r[1] >= j - 1 THEN <<>> ELSE WalkFrom(s, g, r)
        BY <3>2
      <4>3. w[r] = IF r[1] > r[2] \/ r[2] - r[1] >= j THEN <<>> ELSE WalkFrom(s, g, r)
        OBVIOUS
      <4>4. ~ (r[2] - r[1] >= j - 1) /\ ~ (r[2] - r[1] >= j)
        BY <2>4, <3>3, <4>1
      <4> HIDE DEF w
      <4> QED BY <4>2, <4>3, <4>4
    <3>4. ASSUME NEW r \in RangesOf(L), ~ (r[1] > r[2] \/ r[2] - r[1] >= j)
          PROVE  WalkFrom(s, g, r) = WalkFrom(s, w, r)
      <4>1. r[1] \in Nat /\ r[2] \in Nat
        BY DEF RangesOf
      <4>2. r[1] <= r[2] /\ r[2] - r[1] < j
        BY <2>4, <3>4, <4>1
      <4>3. /\ Mid(r) \in Nat
            /\ <<r[1], Mid(r) - 1>> \in RangesOf(L) /\ <<Mid(r) + 1, r[2]>> \in RangesOf(L)
            /\ (Mid(r) - 1) - r[1] < r[2] - r[1] /\ r[2] - (Mid(r) + 1) < r[2] - r[1]
        BY <4>2, Halves
      <4>4. (Mid(r) - 1) - r[1] < j - 1 /\ r[2] - (Mid(r) + 1) < j - 1
        BY <2>4, <4>1, <4>2, <4>3
      <4> HIDE DEF w
      <4>5. w[<<r[1], Mid(r) - 1>>] = g[<<r[1], Mid(r) - 1>>]
        BY <3>3, <4>3, <4>4
      <4>6. w[<<Mid(r) + 1, r[2]>>] = g[<<Mid(r) + 1, r[2]>>]
        BY <3>3, <4>3, <4>4
      <4> QED BY <4>5, <4>6 DEF WalkFrom
    <3>5. Short(w, j)
      <4> DEFINE v == [r \in RangesOf(L) |->
                         IF r[1] > r[2] \/ r[2] - r[1] >= j THEN <<>> ELSE WalkFrom(s, w, r)]
      <4>1. \A r \in RangesOf(L) : w[r] = v[r]
        <5> HIDE DEF RangesOf
        <5> QED BY <3>4
      <4> QED BY <4>1
    <3> QED BY <2>4, <3>5
  <2> QED BY <2>5, <2>6
<1>2. PICK w : Short(w, L)
  BY <1>1
<1>3. IsWalk(s, w)
  <2>1. \A r \in RangesOf(L) : ~ (r[2] - r[1] >= L)
    BY DEF RangesOf
  <2>2. [r \in RangesOf(L) |-> IF r[1] > r[2] \/ r[2] - r[1] >= L THEN <<>> ELSE WalkFrom(s, w, r)]
          = [r \in RangesOf(L) |-> IF r[1] > r[2] THEN <<>> ELSE WalkFrom(s, w, r)]
    BY <2>1
  <2> QED BY <1>2, <2>2 DEF IsWalk
<1> HIDE DEF L
<1> QED BY <1>3

\* v has the keys a .. b of s, each once.
Meets(v, T, s, a, b) ==
  /\ v \in Seq(T)
  /\ \A j \in 1 .. Len(v) : \E i \in a .. b : v[j] = s[i]
  /\ \A i \in a .. b : \E j \in 1 .. Len(v) : v[j] = s[i]
  /\ \A j, k \in 1 .. Len(v) : v[j] = v[k] => j = k

LEMMA NodeBeforeChildren ==
  ASSUME NEW T, NEW s \in Seq(T), \A i, j \in 1 .. Len(s) : s[i] = s[j] => i = j,
         NEW a \in 1 .. Len(s), NEW b \in 1 .. Len(s), NEW m \in a .. b, NEW x, NEW y,
         Meets(x, T, s, a, m - 1), Meets(y, T, s, m + 1, b)
  PROVE  Meets(<<s[m]>> \o x \o y, T, s, a, b)
<1> DEFINE v == <<s[m]>> \o x \o y
<1>1. /\ x \in Seq(T) /\ y \in Seq(T) /\ s[m] \in T /\ m \in 1 .. Len(s)
      /\ a \in Nat /\ b \in Nat /\ m \in Nat /\ Len(s) \in Nat /\ Len(x) \in Nat /\ Len(y) \in Nat
  BY DEF Meets
<1>2. /\ v \in Seq(T) /\ Len(v) = 1 + Len(x) + Len(y) /\ v[1] = s[m]
      /\ \A j \in 1 .. Len(x) : v[1 + j] = x[j]
      /\ \A j \in 1 .. Len(y) : v[1 + Len(x) + j] = y[j]
  <2> DEFINE u == <<s[m]>> \o x
  <2>1. u \in Seq(T) /\ Len(u) = 1 + Len(x) /\ u[1] = s[m] /\ \A j \in 1 .. Len(x) : u[1 + j] = x[j]
    BY <1>1
  <2>2. v = u \o y
    OBVIOUS
  <2> HIDE DEF u, v
  <2>3. v \in Seq(T) /\ Len(v) = Len(u) + Len(y) /\ (\A j \in 1 .. Len(u) : v[j] = u[j])
        /\ \A j \in 1 .. Len(y) : v[Len(u) + j] = y[j]
    <3>1. u \in Seq(T) /\ y \in Seq(T) /\ v = u \o y
      BY <1>1, <2>1, <2>2
    <3> QED BY ONLY <3>1
  <2>4. 1 \in 1 .. Len(u) /\ \A j \in 1 .. Len(x) : 1 + j \in 1 .. Len(u)
    BY <1>1, <2>1
  <2> QED BY <1>1, <2>1, <2>3, <2>4
<1> HIDE DEF v
<1>3. ASSUME NEW j \in 1 .. Len(v)
      PROVE  \/ j = 1
             \/ \E l \in 1 .. Len(x) : j = 1 + l /\ v[j] = x[l]
             \/ \E l \in 1 .. Len(y) : j = 1 + Len(x) + l /\ v[j] = y[l]
  <2>1. CASE j = 1
    BY <2>1
  <2>2. CASE j # 1 /\ j <= 1 + Len(x)
    <3>1. j - 1 \in 1 .. Len(x) /\ j = 1 + (j - 1)
      BY <1>1, <1>2, <2>2
    <3>2. PICK l \in 1 .. Len(x) : j = 1 + l
      BY <3>1
    <3> QED BY <1>2, <3>2
  <2>3. CASE j > 1 + Len(x)
    <3>1. j - 1 - Len(x) \in 1 .. Len(y) /\ j = 1 + Len(x) + (j - 1 - Len(x))
      BY <1>1, <1>2, <2>3
    <3>2. PICK l \in 1 .. Len(y) : j = 1 + Len(x) + l
      BY <3>1
    <3> QED BY <1>2, <3>2
  <2> QED BY <1>1, <1>2, <2>1, <2>2, <2>3
<1>4. /\ \A j \in 1 .. Len(x) : \E i \in a .. m - 1 : x[j] = s[i]
      /\ \A i \in a .. m - 1 : \E j \in 1 .. Len(x) : x[j] = s[i]
      /\ \A j, k \in 1 .. Len(x) : x[j] = x[k] => j = k
      /\ \A j \in 1 .. Len(y) : \E i \in m + 1 .. b : y[j] = s[i]
      /\ \A i \in m + 1 .. b : \E j \in 1 .. Len(y) : y[j] = s[i]
      /\ \A j, k \in 1 .. Len(y) : y[j] = y[k] => j = k
  BY DEF Meets
<1>5. /\ \A i \in a .. m - 1 : i \in a .. b /\ i \in 1 .. Len(s) /\ i < m
      /\ \A i \in m + 1 .. b : i \in a .. b /\ i \in 1 .. Len(s) /\ i > m
      /\ \A i \in a .. b : i = m \/ i \in a .. m - 1 \/ i \in m + 1 .. b
  BY <1>1
<1>6. ASSUME NEW j \in 1 .. Len(v) PROVE \E i \in a .. b : v[j] = s[i]
  <2>1. CASE j = 1
    BY <1>2, <2>1
  <2>2. CASE \E l \in 1 .. Len(x) : v[j] = x[l]
    BY <1>4, <1>5, <2>2
  <2>3. CASE \E l \in 1 .. Len(y) : v[j] = y[l]
    BY <1>4, <1>5, <2>3
  <2> QED BY <1>3, <2>1, <2>2, <2>3
<1>7. ASSUME NEW i \in a .. b PROVE \E j \in 1 .. Len(v) : v[j] = s[i]
  <2>1. CASE i = m
    <3>1. 1 \in 1 .. Len(v)
      BY <1>1, <1>2
    <3> QED BY <1>2, <2>1, <3>1
  <2>2. CASE i \in a .. m - 1
    <3>1. PICK j \in 1 .. Len(x) : x[j] = s[i]
      BY <1>4, <2>2
    <3>2. 1 + j \in 1 .. Len(v)
      BY <1>1, <1>2
    <3> QED BY <1>2, <3>1, <3>2
  <2>3. CASE i \in m + 1 .. b
    <3>1. PICK j \in 1 .. Len(y) : y[j] = s[i]
      BY <1>4, <2>3
    <3>2. 1 + Len(x) + j \in 1 .. Len(v)
      BY <1>1, <1>2
    <3> QED BY <1>2, <3>1, <3>2
  <2> QED BY <1>5, <2>1, <2>2, <2>3
\* The key a place has says in which part it is.
<1>8. /\ \A l \in 1 .. Len(x) : x[l] # s[m]
      /\ \A l \in 1 .. Len(y) : y[l] # s[m]
      /\ \A k \in 1 .. Len(x), l \in 1 .. Len(y) : x[k] # y[l]
  <2>1. \A i, j \in 1 .. Len(s) : s[i] = s[j] => i = j
    OBVIOUS
  <2>2. \A i \in a .. m - 1 : s[i] # s[m]
    BY <1>1, <1>5, <2>1
  <2>3. \A i \in m + 1 .. b : s[i] # s[m]
    BY <1>1, <1>5, <2>1
  <2>4. \A i \in a .. m - 1, j \in m + 1 .. b : s[i] # s[j]
    <3>1. \A i \in a .. m - 1, j \in m + 1 .. b : i # j
      BY <1>1
    <3> QED BY <1>5, <2>1, <3>1
  <2> QED BY <1>4, <2>2, <2>3, <2>4
<1>10. ASSUME NEW j \in 1 .. Len(v), NEW k \in 1 .. Len(v), v[j] = v[k] PROVE j = k
  <2>1. CASE j = 1
    <3>1. ~ (\E l \in 1 .. Len(x) : v[k] = x[l]) /\ ~ (\E l \in 1 .. Len(y) : v[k] = y[l])
      BY <1>2, <1>8, <1>10, <2>1
    <3> QED BY <1>3, <2>1, <3>1
  <2>2. CASE \E l \in 1 .. Len(x) : j = 1 + l /\ v[j] = x[l]
    <3>1. PICK l \in 1 .. Len(x) : j = 1 + l /\ v[j] = x[l]
      BY <2>2
    <3>2. k # 1 /\ ~ (\E h \in 1 .. Len(y) : v[k] = y[h])
      BY <1>2, <1>8, <1>10, <3>1
    <3>3. PICK h \in 1 .. Len(x) : k = 1 + h /\ v[k] = x[h]
      BY <1>3, <3>2
    <3>4. l = h
      BY <1>4, <1>10, <3>1, <3>3
    <3> QED BY <3>1, <3>3, <3>4
  <2>3. CASE \E l \in 1 .. Len(y) : j = 1 + Len(x) + l /\ v[j] = y[l]
    <3>1. PICK l \in 1 .. Len(y) : j = 1 + Len(x) + l /\ v[j] = y[l]
      BY <2>3
    <3>2. k # 1 /\ ~ (\E h \in 1 .. Len(x) : v[k] = x[h])
      BY <1>2, <1>8, <1>10, <3>1
    <3>3. PICK h \in 1 .. Len(y) : k = 1 + Len(x) + h /\ v[k] = y[h]
      BY <1>3, <3>2
    <3>4. l = h
      BY <1>4, <1>10, <3>1, <3>3
    <3> QED BY <3>1, <3>3, <3>4
  <2> QED BY <1>3, <2>1, <2>2, <2>3
<1> QED BY <1>2, <1>6, <1>7, <1>10 DEF Meets, v

LEMMA WalkMeetsAll ==
  ASSUME NEW T, NEW s \in Seq(T), \A i, j \in 1 .. Len(s) : s[i] = s[j] => i = j
  PROVE  Meets(P!Preorder(s), T, s, 1, Len(s))
<1> DEFINE w == CHOOSE x : IsWalk(s, x)
           L == Len(s)
<1>1. L \in Nat
  OBVIOUS
<1>2. IsWalk(s, w)
  BY <1>1, WalkExists
<1> HIDE DEF w
<1>3. \A r \in RangesOf(L) : w[r] = IF r[1] > r[2] THEN <<>> ELSE WalkFrom(s, w, r)
  BY <1>2 DEF IsWalk
<1> DEFINE Bad == {n \in 0 .. L + 1 : \E r \in RangesOf(L) : r[2] + 1 - r[1] <= n /\ ~ Meets(w[r], T, s, r[1], r[2])}
<1>4. ASSUME Bad # {} PROVE FALSE
  <2>2. Bad \subseteq Nat
    <3> HIDE DEF RangesOf
    <3> QED BY <1>1
  <2> HIDE DEF Bad
  <2>3. PICK n \in Bad : \A k \in Bad : n <= k
    BY <1>4, <2>2, LeastNumber
  <2>4. PICK r \in RangesOf(L) : r[2] + 1 - r[1] <= n /\ ~ Meets(w[r], T, s, r[1], r[2])
    BY <2>3 DEF Bad
  <2>5. n \in 0 .. L + 1 /\ r[1] \in 1 .. L + 1 /\ r[2] \in 0 .. L
    BY <2>3 DEF Bad, RangesOf
  <2>6. CASE r[1] > r[2]
    <3>1. w[r] = <<>>
      BY <1>3, <2>6
    <3>2. r[1] .. r[2] = {} /\ <<>> \in Seq(T) /\ Len(<<>>) = 0 /\ 1 .. 0 = {}
      BY <2>5, <2>6
    <3> QED BY <2>4, <3>1, <3>2 DEF Meets
  <2>7. CASE ~ (r[1] > r[2])
    <3>1. r[1] <= r[2] /\ r[1] \in 1 .. L /\ r[2] \in 1 .. L
      BY <1>1, <2>5, <2>7
    <3>2. /\ Mid(r) \in r[1] .. r[2]
          /\ <<r[1], Mid(r) - 1>> \in RangesOf(L) /\ <<Mid(r) + 1, r[2]>> \in RangesOf(L)
          /\ (Mid(r) - 1) - r[1] < r[2] - r[1] /\ r[2] - (Mid(r) + 1) < r[2] - r[1]
      BY <1>1, <3>1, Halves
    <3>3. n - 1 \in 0 .. L + 1 /\ n - 1 \notin Bad
      BY <1>1, <2>3, <2>4, <2>5, <3>1
    <3>4. \A q \in RangesOf(L) : q[2] + 1 - q[1] <= n - 1 => Meets(w[q], T, s, q[1], q[2])
      BY <3>3 DEF Bad
    <3>5. Mid(r) \in Nat
      BY <2>5, <3>2
    <3>6. Meets(w[<<r[1], Mid(r) - 1>>], T, s, r[1], Mid(r) - 1)
      <4>1. (Mid(r) - 1) + 1 - r[1] <= n - 1
        BY <2>4, <2>5, <3>2, <3>5
      <4> QED BY <3>2, <3>4, <4>1
    <3>7. Meets(w[<<Mid(r) + 1, r[2]>>], T, s, Mid(r) + 1, r[2])
      <4>1. r[2] + 1 - (Mid(r) + 1) <= n - 1
        BY <2>4, <2>5, <3>2, <3>5
      <4> QED BY <3>2, <3>4, <4>1
    <3>8. Meets(WalkFrom(s, w, r), T, s, r[1], r[2])
      BY <3>1, <3>2, <3>6, <3>7, NodeBeforeChildren DEF WalkFrom
    <3>9. w[r] = WalkFrom(s, w, r)
      BY <1>3, <2>7
    <3> QED BY <2>4, <3>8, <3>9
  <2> QED BY <2>6, <2>7
<1>5. <<1, L>> \in RangesOf(L) /\ <<1, L>>[2] + 1 - <<1, L>>[1] <= L + 1 /\ L + 1 \in 0 .. L + 1
  BY <1>1 DEF RangesOf
<1>6. L + 1 \notin Bad
  BY <1>4
<1>7. Meets(w[<<1, L>>], T, s, 1, L)
  <2> HIDE DEF L
  <2> QED BY <1>5, <1>6
<1> QED BY <1>7, PreorderIs DEF w

\* The keys of a map in their order: each once.
LEMMA SortedIs ==
  ASSUME NEW T, IsFiniteSet(T), \A k \in T : k = <<k[1], k[2]>> /\ k[1] \in Nat /\ k[2] \in Nat
  PROVE  LET s == P!Sorted(T) IN
         /\ s \in Seq(T) /\ Len(s) = Cardinality(T)
         /\ \A k \in T : \E i \in 1 .. Len(s) : s[i] = k
         /\ \A i, j \in 1 .. Len(s) : s[i] = s[j] => i = j
<1> DEFINE lt == {p \in T \X T : P!Before(p[1], p[2])}
           rank(k) == Cardinality({j \in T : P!Before(j, k)})
           n == Cardinality(T)
           s == P!Sorted(T)
<1>1. \A k \in T : {j \in T : <<j, k>> \in lt} = {j \in T : P!Before(j, k)}
  OBVIOUS
<1>2. /\ \A x \in T : <<x, x>> \notin lt
      /\ \A x, y \in T : x # y => <<x, y>> \in lt \/ <<y, x>> \in lt
      /\ \A x, y, z \in T : <<x, y>> \in lt /\ <<y, z>> \in lt => <<x, z>> \in lt
  <2>1. \A x, y \in T : <<x, y>> \in lt <=> x[1] < y[1] \/ (x[1] = y[1] /\ x[2] < y[2])
    BY DEF P!Before
  <2>2. \A x, y \in T : x # y => x[1] # y[1] \/ x[2] # y[2]
    OBVIOUS
  <2> HIDE DEF lt
  <2> QED BY <2>1, <2>2
<1>3. /\ n \in Nat
      /\ \A i \in 1 .. n : \E x \in T : rank(x) = i - 1
      /\ \A x \in T : rank(x) \in 0 .. n - 1
      /\ \A x, z \in T : rank(x) = rank(z) => x = z
  <2> HIDE DEF lt
  <2>1. /\ n \in Nat
        /\ \A i \in 1 .. n : \E x \in T : Cardinality({y \in T : <<y, x>> \in lt}) = i - 1
        /\ \A x \in T : Cardinality({y \in T : <<y, x>> \in lt}) \in 0 .. n - 1
        /\ \A x, z \in T :
             Cardinality({y \in T : <<y, x>> \in lt}) = Cardinality({y \in T : <<y, z>> \in lt}) => x = z
    BY <1>2, Ranks
  <2> QED BY <1>1, <2>1
<1>4. s = [i \in 1 .. n |-> CHOOSE k \in T : rank(k) = i - 1]
  BY DEF P!Sorted, P!Cardinality, Cardinality
<1> HIDE DEF rank, n, s
<1>5. ASSUME NEW i \in 1 .. n PROVE s[i] \in T /\ rank(s[i]) = i - 1
  BY <1>3, <1>4
<1>6. s \in Seq(T) /\ Len(s) = n
  <2>1. s \in [1 .. n -> T]
    BY <1>4, <1>5
  <2> QED BY <1>3, <2>1
<1>7. ASSUME NEW k \in T PROVE \E i \in 1 .. n : s[i] = k
  <2>1. rank(k) + 1 \in 1 .. n /\ (rank(k) + 1) - 1 = rank(k)
    BY <1>3
  <2> QED BY <1>3, <1>5, <2>1
<1>8. ASSUME NEW i \in 1 .. n, NEW j \in 1 .. n, s[i] = s[j] PROVE i = j
  <2>1. i - 1 = j - 1
    BY <1>5, <1>8
  <2> QED BY <1>3, <2>1
<1> QED BY <1>6, <1>7, <1>8 DEF n, s
-----------------------------------------------------------------------------

(***************************************************************************)
(* "morion" and "borion".                                                  *)
(***************************************************************************)
IdBlocks(w) == [b \in 1 .. RP!get_block_num(localFCNT[w]) |-> entries[<<w, b>>]]

\* The keys of the map are numbered as the client's counters say.
KeysOfMap == [k \in Keywords \cup Files |-> IF k \in Keywords THEN RP!get_block_num(localFCNT[k]) ELSE localBCNT[k]]
PackedTypes ==
  /\ ClientTypes
  /\ DOMAIN entries = UNION {{k} \X (1 .. KeysOfMap[k]) : k \in Keywords \cup Files}
PackedBlocks == \A w \in Keywords : RP!PackedAs(IdBlocks(w), localFCNT[w], CountedWith(w))

PackedInv == PackedTypes /\ PackedBlocks

LEMMA PackedInit == ASSUME RP!OrielAssumption, P!PackedAssumption, P!Init PROVE PackedInv
<1>1. /\ localFCNT = [w \in Keywords |-> 0] /\ localBCNT = [f \in Files |-> 0]
      /\ DOMAIN entries = {}
  BY DEF P!Init, P!NoEntry
<1>2. ClientTypes
  BY <1>1 DEF ClientTypes
<1>3. \A blocks : DOMAIN blocks = {} => RP!PackedAs(blocks, 0, {}) /\ RP!get_block_num(0) = 0
  BY RP!NonePacked
<1>4. RP!get_block_num(0) = 0 /\ 1 .. 0 = {}
  BY <1>1, <1>3
<1>5. ASSUME NEW w \in Keywords PROVE RP!PackedAs(IdBlocks(w), localFCNT[w], CountedWith(w))
  <2>1. localFCNT[w] = 0 /\ CountedWith(w) = {}
    BY <1>1 DEF CountedWith
  <2>2. DOMAIN IdBlocks(w) = {}
    BY <1>4, <2>1 DEF IdBlocks
  <2> QED BY <1>3, <2>1, <2>2
<1>6. \A k \in Keywords \cup Files : {k} \X (1 .. KeysOfMap[k]) = {}
  BY <1>1, <1>4 DEF KeysOfMap
<1>7. UNION {{k} \X (1 .. KeysOfMap[k]) : k \in Keywords \cup Files} = {}
  BY <1>6
<1> QED BY <1>1, <1>2, <1>5, <1>7 DEF PackedInv, PackedTypes, PackedBlocks

LEMMA PackedInsertInv ==
  ASSUME RP!OrielAssumption, P!PackedAssumption, PackedInv, NEW f \in Files, P!setupinsert(f)
  PROVE  /\ PackedInv' /\ localBCNT[f] = 0
         /\ \A g \in Files : localBCNT'[g] = IF g = f THEN Blocks[f] ELSE localBCNT[g]
<1> DEFINE new == {<<w, RP!get_block_num(localFCNT[w] + 1)>> : w \in Words[f]}
           blocks == {f} \X (1 .. Blocks[f])
<1>1. /\ localBCNT[f] = 0 /\ Words[f] \subseteq Keywords /\ Blocks[f] \in Nat \ {0} /\ f # RP!Pad
      /\ \A w \in Keywords : w \notin Files
      /\ localFCNT' = [w \in Keywords |-> IF w \in Words[f] THEN localFCNT[w] + 1 ELSE localFCNT[w]]
      /\ localBCNT' = [localBCNT EXCEPT ![f] = Blocks[f]]
  BY DEF P!setupinsert, P!PackedAssumption, P!Pad, RP!Pad
<1>2. /\ DOMAIN entries' = DOMAIN entries \cup new \cup blocks
      /\ \A k \in new : entries'[k] = P!Packed(k[1], f, localFCNT[k[1]] + 1)
      /\ \A k \in DOMAIN entries : k \notin new /\ k \notin blocks => entries'[k] = entries[k]
  <2>1. new = {<<w, P!get_block_num(localFCNT[w] + 1)>> : w \in Words[f]}
    BY SameNumbers
  <2>2. entries' = [k \in DOMAIN entries \cup new \cup blocks |->
                       IF k \in new THEN P!Packed(k[1], f, localFCNT[k[1]] + 1)
                       ELSE IF k \in blocks THEN <<f>> ELSE entries[k]]
    <3> HIDE DEF new
    <3> QED BY <2>1 DEF P!setupinsert
  <2> HIDE DEF new, blocks
  <2> QED BY <2>2
<1>3. /\ ClientTypes'
      /\ \A w \in Keywords : CountedWith(w)' = IF w \in Words[f] THEN CountedWith(w) \cup {f} ELSE CountedWith(w)
      /\ \A w \in Keywords : f \notin CountedWith(w)
      /\ \A g \in Files : localBCNT'[g] = IF g = f THEN Blocks[f] ELSE localBCNT[g]
  BY <1>1, CountsMore DEF PackedInv, PackedTypes
<1>4. \A w \in Keywords :
        /\ localFCNT[w] \in Nat /\ RP!get_block_num(localFCNT[w]) \in Nat
        /\ RP!PackedAs(IdBlocks(w), localFCNT[w], CountedWith(w))
  BY RP!BlockCount DEF PackedInv, PackedBlocks, RP!PackedAs
<1>5. ASSUME NEW w \in Keywords, w \in Words[f]
      PROVE  LET c == localFCNT[w]
                 d == RP!get_block_num(c)
                 q == RP!get_block_num(c + 1)
                 p == RP!get_position(c + 1)
             IN  localFCNT'[w] = c + 1 /\ c \in Nat /\ d \in Nat /\ q = (IF p = 1 THEN d + 1 ELSE d) /\ q \in Nat \ {0} /\ p \in 1 .. COM
  <2> DEFINE c == localFCNT[w]
  <2>1. c \in Nat /\ c + 1 \in Nat \ {0} /\ localFCNT'[w] = c + 1
    BY <1>1, <1>4, <1>5
  <2> HIDE DEF c
  <2>2. RP!get_block_num(c) \in Nat
    BY <2>1, RP!BlockCount
  <2>3. RP!get_block_num(c + 1) = IF RP!get_position(c + 1) = 1 THEN RP!get_block_num(c) + 1 ELSE RP!get_block_num(c)
    BY <2>1, RP!BlockCount
  <2>4. RP!get_block_num(c + 1) \in Nat \ {0} /\ RP!get_position(c + 1) \in 1 .. COM
    BY <2>1, RP!PlaceOf
  <2> QED BY <2>1, <2>2, <2>3, <2>4 DEF c
<1>6. ASSUME NEW w \in Keywords PROVE RP!PackedAs(IdBlocks(w)', localFCNT'[w], CountedWith(w)')
  <2> DEFINE c == localFCNT[w]
             d == RP!get_block_num(c)
             q == RP!get_block_num(c + 1)
             p == RP!get_position(c + 1)
  <2>1. RP!PackedAs(IdBlocks(w), c, CountedWith(w)) /\ d \in Nat
    BY <1>4
  <2>2. \A b \in 1 .. d : <<w, b>> \in DOMAIN entries /\ <<w, b>> \notin blocks
    <3>1. \A b \in 1 .. d : <<w, b>> \in {w} \X (1 .. KeysOfMap[w])
      BY DEF KeysOfMap
    <3> QED BY <1>1, <3>1 DEF PackedInv, PackedTypes
  <2>3. CASE w \notin Words[f]
    <3>1. localFCNT'[w] = c /\ CountedWith(w)' = CountedWith(w)
      BY <1>1, <1>3, <2>3
    <3>2. \A k \in new : k[1] # w
      BY <2>3
    <3>3. \A b \in 1 .. d : entries'[<<w, b>>] = entries[<<w, b>>]
      BY <1>2, <2>2, <3>2
    <3>4. IdBlocks(w)' = IdBlocks(w)
      BY <3>1, <3>3 DEF IdBlocks
    <3> QED BY <2>1, <3>1, <3>4
  <2>4. CASE w \in Words[f]
    <3>1. localFCNT'[w] = c + 1 /\ CountedWith(w)' = CountedWith(w) \cup {f} /\ f \notin CountedWith(w)
      BY <1>3, <1>5, <2>4
    <3>2. c \in Nat /\ d \in Nat /\ q = (IF p = 1 THEN d + 1 ELSE d) /\ q \in Nat \ {0} /\ p \in 1 .. COM
      BY <1>5, <2>4
    <3>3. (\A k \in new : k[1] = w => k = <<w, q>>) /\ <<w, q>> \in new
      BY <2>4
    <3>5. entries'[<<w, q>>] = [(IF p = 1 THEN [i \in 1 .. COM |-> RP!Pad] ELSE entries[<<w, q>>]) EXCEPT ![p] = f]
      BY <1>2, <3>3, SameNumbers DEF P!Packed, P!Pad, RP!Pad
    <3>6. \A b \in 1 .. q : b # q => b \in 1 .. d /\ entries'[<<w, b>>] = entries[<<w, b>>]
      <4> SUFFICES ASSUME NEW b \in 1 .. q, b # q PROVE b \in 1 .. d /\ entries'[<<w, b>>] = entries[<<w, b>>]
        OBVIOUS
      <4>1. b \in 1 .. d
        BY <3>2
      <4>2. <<w, b>> \notin new
        BY <3>3
      <4> QED BY <1>2, <2>2, <4>1, <4>2
    <3>8. DOMAIN IdBlocks(w)' = 1 .. q
      BY <3>1 DEF IdBlocks
    <3>9. ASSUME NEW b \in 1 .. q
          PROVE  IdBlocks(w)'[b] =
                   IF b = q THEN [(IF p = 1 THEN [i \in 1 .. COM |-> RP!Pad] ELSE IdBlocks(w)[b]) EXCEPT ![p] = f]
                   ELSE IdBlocks(w)[b]
      <4>1. IdBlocks(w)'[b] = entries'[<<w, b>>]
        BY <3>1 DEF IdBlocks
      <4>2. b \in 1 .. d => IdBlocks(w)[b] = entries[<<w, b>>]
        BY DEF IdBlocks
      <4>3. p # 1 => q \in 1 .. d
        BY <3>2
      <4>4. CASE b = q
        <5>1. p # 1 => IdBlocks(w)[q] = entries[<<w, q>>]
          BY <4>2, <4>3, <4>4
        <5>2. IdBlocks(w)'[q] = [(IF p = 1 THEN [i \in 1 .. COM |-> RP!Pad] ELSE entries[<<w, q>>]) EXCEPT ![p] = f]
          BY <3>5, <4>1, <4>4
        <5> HIDE DEF q, d, p
        <5> QED BY <4>4, <5>1, <5>2
      <4>5. CASE b # q
        BY <3>6, <4>1, <4>2, <4>5
      <4> QED BY <4>4, <4>5
    <3>10. RP!PackedAs(IdBlocks(w)', c + 1, CountedWith(w) \cup {f})
      <4>1. RP!PackedAs(IdBlocks(w), c, CountedWith(w)) /\ f \notin CountedWith(w) /\ f # RP!Pad
        BY <1>1, <2>1, <3>1
      <4> QED BY ONLY RP!OrielAssumption, <3>8, <3>9, <4>1, RP!OneMorePacked
    <3> QED BY <3>1, <3>10
  <2> QED BY <2>3, <2>4
<1>7. DOMAIN entries' = UNION {{k} \X (1 .. KeysOfMap'[k]) : k \in Keywords \cup Files}
  <2>1. DOMAIN entries = UNION {{k} \X (1 .. KeysOfMap[k]) : k \in Keywords \cup Files}
    BY DEF PackedInv, PackedTypes
  <2>2. \A w \in Keywords :
          /\ KeysOfMap[w] = RP!get_block_num(localFCNT[w])
          /\ KeysOfMap'[w] = RP!get_block_num(localFCNT'[w])
    BY DEF KeysOfMap
  <2>3. \A g \in Files : KeysOfMap[g] = localBCNT[g] /\ KeysOfMap'[g] = localBCNT'[g]
    BY <1>1 DEF KeysOfMap
  <2>4. ASSUME NEW k \in DOMAIN entries' PROVE \E x \in Keywords \cup Files : k \in {x} \X (1 .. KeysOfMap'[x])
    <3>1. CASE k \in new
      <4>1. PICK w \in Words[f] : k = <<w, RP!get_block_num(localFCNT[w] + 1)>>
        BY <3>1
      <4>2. w \in Keywords
        BY <1>1
      <4>3. localFCNT'[w] = localFCNT[w] + 1 /\ RP!get_block_num(localFCNT[w] + 1) \in Nat \ {0}
        BY <1>5, <4>2
      <4> QED BY <2>2, <4>1, <4>2, <4>3
    <3>2. CASE k \in blocks
      BY <1>3, <2>3, <3>2
    <3>3. CASE k \in DOMAIN entries
      <4>1. PICK x \in Keywords \cup Files : k \in {x} \X (1 .. KeysOfMap[x])
        BY <2>1, <3>3
      <4>2. CASE x \in Files
        <5>1. x = f => 1 .. KeysOfMap[x] = {}
          BY <1>1, <2>3, <4>2
        <5> QED BY <1>3, <2>3, <4>1, <4>2, <5>1
      <4>3. CASE x \in Keywords
        <5>1. CASE x \in Words[f]
          <6>1. KeysOfMap[x] <= KeysOfMap'[x] /\ KeysOfMap[x] \in Nat /\ KeysOfMap'[x] \in Nat
            BY <1>5, <2>2, <4>3, <5>1
          <6> QED BY <4>1, <6>1
        <5>2. CASE x \notin Words[f]
          BY <1>1, <2>2, <4>1, <4>3, <5>2
        <5> QED BY <5>1, <5>2
      <4> QED BY <4>2, <4>3
    <3> QED BY <1>2, <3>1, <3>2, <3>3
  <2>5. ASSUME NEW x \in Keywords \cup Files, NEW i \in 1 .. KeysOfMap'[x] PROVE <<x, i>> \in DOMAIN entries'
    <3>1. CASE x \in Files
      <4>1. x = f => <<x, i>> \in blocks
        BY <1>3, <2>3, <3>1
      <4>2. x # f => i \in 1 .. KeysOfMap[x]
        BY <1>3, <2>3, <3>1
      <4>3. x # f => <<x, i>> \in DOMAIN entries
        BY <2>1, <4>2
      <4> QED BY <1>2, <4>1, <4>3
    <3>2. CASE x \in Keywords
      <4>1. CASE x \in Words[f]
        <5>1. i \in 1 .. KeysOfMap[x] \/ <<x, i>> \in new
          BY <1>5, <2>2, <3>2, <4>1
        <5>2. i \in 1 .. KeysOfMap[x] => <<x, i>> \in DOMAIN entries
          BY <2>1
        <5> QED BY <1>2, <5>1, <5>2
      <4>2. CASE x \notin Words[f]
        <5>1. i \in 1 .. KeysOfMap[x]
          BY <1>1, <2>2, <3>2, <4>2
        <5>2. <<x, i>> \in DOMAIN entries
          BY <2>1, <5>1
        <5> QED BY <1>2, <5>2
      <4> QED BY <4>1, <4>2
    <3> QED BY <3>1, <3>2
  <2> HIDE DEF new, blocks
  <2> QED BY <2>4, <2>5
<1> QED BY <1>1, <1>3, <1>6, <1>7 DEF PackedInv, PackedTypes, PackedBlocks

LEMMA MapIsFinite ==
  ASSUME RP!OrielAssumption, P!PackedAssumption, PackedInv
  PROVE  IsFiniteSet(DOMAIN entries) /\ \A k \in DOMAIN entries : k = <<k[1], k[2]>> /\ k[1] \in Nat /\ k[2] \in Nat
<1> DEFINE K == Keywords \cup Files
           of(k) == {k} \X (1 .. KeysOfMap[k])
<1>1. IsFiniteSet(K) /\ K \subseteq Nat
  <2>1. \A s : P!IsFiniteSet(s) <=> IsFiniteSet(s)
    BY DEF P!IsFiniteSet, IsFiniteSet
  <2> QED BY <2>1 DEF P!PackedAssumption
<1>2. \A k \in K : KeysOfMap[k] \in Nat
  <2>1. \A w \in Keywords : KeysOfMap[w] \in Nat
    BY RP!BlockCount DEF KeysOfMap, PackedInv, PackedBlocks, RP!PackedAs
  <2>2. \A f \in Files : f \notin Keywords
    BY DEF P!PackedAssumption
  <2>3. \A f \in Files : KeysOfMap[f] \in Nat
    BY <2>2 DEF KeysOfMap, PackedInv, PackedTypes, ClientTypes, P!PackedAssumption
  <2> QED BY <2>1, <2>3
<1>3. \A k \in K : IsFiniteSet(of(k))
  <2> SUFFICES ASSUME NEW k \in K PROVE IsFiniteSet(of(k))
    OBVIOUS
  <2>1. IsFiniteSet(1 .. KeysOfMap[k])
    BY <1>2, FS_Interval
  <2>2. IsFiniteSet({k})
    BY FS_Singleton
  <2> QED BY <2>1, <2>2, FS_Product
<1>4. DOMAIN entries = UNION {of(k) : k \in K}
  BY DEF PackedInv, PackedTypes
<1>5. IsFiniteSet({of(k) : k \in K})
  <2> DEFINE f == [k \in K |-> of(k)]
             T == {of(k) : k \in K}
  <2> HIDE DEF K, of
  <2>1. f \in [K -> T] /\ \A t \in T : \E k \in K : f[k] = t
    OBVIOUS
  <2>2. f \in Surjection(K, T)
    <3> HIDE DEF f, T
    <3> QED BY <2>1 DEF Surjection
  <2>3. IsFiniteSet(T)
    <3> HIDE DEF f, T
    <3> QED BY <1>1, <2>2, FS_Surjection
  <2> QED BY <2>3
<1>6. IsFiniteSet(DOMAIN entries)
  <2> HIDE DEF of
  <2> QED BY <1>3, <1>4, <1>5, FS_UNION
<1>7. \A k \in DOMAIN entries : k = <<k[1], k[2]>> /\ k[1] \in Nat /\ k[2] \in Nat
  BY <1>1, <1>2, <1>4
<1> QED BY <1>6, <1>7

\* The walk meets the blocks of a keyword in some order, each once.
LEMMA KeysMetAre ==
  ASSUME RP!OrielAssumption, P!PackedAssumption, PackedInv, NEW w \in Keywords
  PROVE  LET keys == P!KeysMet(w) IN
         /\ Len(keys) = RP!get_block_num(localFCNT[w]) /\ DOMAIN keys = 1 .. Len(keys)
         /\ RP!InSomeOrder([x \in DOMAIN keys |-> keys[x][2]], localFCNT[w])
         /\ \A x \in DOMAIN keys : entries[keys[x]] = IdBlocks(w)[keys[x][2]]
<1> DEFINE c == localFCNT[w]
           d == RP!get_block_num(c)
           K == {w} \X (1 .. d)
           sorted == P!Sorted(DOMAIN entries)
           walk == P!Preorder(sorted)
           steps == {i \in DOMAIN walk : walk[i] \in K}
           n == Cardinality(steps)
           keys == P!KeysMet(w)
           at == M!Ascending(steps)
<1>1. d \in Nat
  BY RP!BlockCount DEF PackedInv, PackedBlocks, RP!PackedAs
<1>2. K \subseteq DOMAIN entries
  BY DEF PackedInv, PackedTypes, KeysOfMap
<1>3. /\ sorted \in Seq(DOMAIN entries)
      /\ \A k \in DOMAIN entries : \E i \in 1 .. Len(sorted) : sorted[i] = k
      /\ \A i, j \in 1 .. Len(sorted) : sorted[i] = sorted[j] => i = j
  BY MapIsFinite, SortedIs
<1>4. Meets(walk, DOMAIN entries, sorted, 1, Len(sorted))
  <2> HIDE DEF sorted
  <2> QED BY <1>3, WalkMeetsAll
<1>5. /\ walk \in Seq(DOMAIN entries)
      /\ \A k \in DOMAIN entries : \E j \in 1 .. Len(walk) : walk[j] = k
      /\ \A j, k \in 1 .. Len(walk) : walk[j] = walk[k] => j = k
  <2> HIDE DEF sorted, walk
  <2>1. /\ walk \in Seq(DOMAIN entries)
        /\ \A i \in 1 .. Len(sorted) : \E j \in 1 .. Len(walk) : walk[j] = sorted[i]
        /\ \A j, k \in 1 .. Len(walk) : walk[j] = walk[k] => j = k
    BY <1>4 DEF Meets
  <2>2. \A k \in DOMAIN entries : \E j \in 1 .. Len(walk) : walk[j] = k
    BY <1>3, <2>1
  <2> QED BY <2>1, <2>2
<1>6. keys = [i \in 1 .. n |-> walk[at[i]]]
  <2>1. P!get_block_num(localFCNT[w]) = d
    BY SameNumbers
  <2>2. keys = [i \in 1 .. P!Cardinality(steps) |-> walk[P!Ascending(steps)[i]]]
    BY <2>1 DEF P!KeysMet
  <2>3. \A s : P!Cardinality(s) = Cardinality(s)
    BY DEF P!Cardinality, Cardinality
  <2>4. \A s : P!Ascending(s) = M!Ascending(s)
    BY DEF P!Ascending, M!Ascending, P!Cardinality, M!Cardinality
  <2> HIDE DEF steps, keys, walk
  <2> QED BY <2>2, <2>3, <2>4
<1> HIDE DEF walk, keys, K
<1>7. DOMAIN walk = 1 .. Len(walk) /\ Len(walk) \in Nat
  BY <1>5
<1>8. steps \in SUBSET Nat /\ IsFiniteSet(steps)
  <2>1. IsFiniteSet(1 .. Len(walk)) /\ steps \subseteq 1 .. Len(walk)
    BY <1>7, FS_Interval
  <2>2. 1 .. Len(walk) \subseteq Nat
    BY <1>7
  <2> HIDE DEF steps
  <2> QED BY <2>1, <2>2, FS_Subset
<1>9. /\ n \in Nat
      /\ \A i \in 1 .. n : at[i] \in steps
      /\ \A x \in steps : \E i \in 1 .. n : at[i] = x
      /\ \A i, j \in 1 .. n : at[i] = at[j] => i = j
  <2> HIDE DEF steps
  <2> QED BY <1>8, AscendingIs
<1>10. \A i \in steps : i \in 1 .. Len(walk) /\ walk[i] \in K
  BY <1>7
<1>11. \A k \in K : \E i \in steps : walk[i] = k
  BY <1>2, <1>5, <1>7
<1> HIDE DEF steps, at, n
<1>12. /\ \A i \in 1 .. n : keys[i] \in K
       /\ \A k \in K : \E i \in 1 .. n : keys[i] = k
       /\ \A i, j \in 1 .. n : keys[i] = keys[j] => i = j
  <2>1. \A i \in 1 .. n : keys[i] = walk[at[i]] /\ at[i] \in steps
    BY <1>6, <1>9
  <2>2. \A i \in 1 .. n : keys[i] \in K
    BY <1>10, <2>1
  <2>3. ASSUME NEW k \in K PROVE \E i \in 1 .. n : keys[i] = k
    <3>1. PICK j \in steps : walk[j] = k
      BY <1>11
    <3>2. PICK i \in 1 .. n : at[i] = j
      BY <1>9
    <3> QED BY <2>1, <3>1, <3>2
  <2>4. ASSUME NEW i \in 1 .. n, NEW j \in 1 .. n, keys[i] = keys[j] PROVE i = j
    <3>1. at[i] = at[j]
      BY <1>5, <1>10, <2>1, <2>4
    <3> QED BY <1>9, <3>1
  <2> QED BY <2>2, <2>3, <2>4
<1> DEFINE second == [x \in DOMAIN keys |-> keys[x][2]]
<1>13. /\ DOMAIN second = 1 .. n
       /\ \A i \in 1 .. n : second[i] \in 1 .. d /\ keys[i] = <<w, second[i]>>
  BY <1>6, <1>12 DEF K
<1>14. \A b \in 1 .. d : \E i \in 1 .. n : second[i] = b
  <2> SUFFICES ASSUME NEW b \in 1 .. d PROVE \E i \in 1 .. n : second[i] = b
    OBVIOUS
  <2>1. <<w, b>> \in K
    BY DEF K
  <2>2. PICK i \in 1 .. n : keys[i] = <<w, b>>
    BY <1>12, <2>1
  <2> QED BY <1>13, <2>2
<1> HIDE DEF second, d
<1>15. n = d
  <2>1. second \in [1 .. n -> 1 .. d]
    <3>1. second = [i \in 1 .. n |-> second[i]]
      BY <1>13 DEF second
    <3> QED BY <1>13, <3>1
  <2>2. \A i, j \in 1 .. n : second[i] = second[j] => i = j
    BY <1>12, <1>13
  <2>3. second \in Bijection(1 .. n, 1 .. d)
    BY <1>14, <2>1, <2>2 DEF Bijection, Injection, Surjection, IsInjective
  <2>4. ExistsBijection(1 .. n, 1 .. d)
    BY <2>3 DEF ExistsBijection
  <2>5. IsFiniteSet(1 .. n) /\ Cardinality(1 .. n) = n /\ Cardinality(1 .. d) = d
    BY <1>1, <1>9, FS_Interval
  <2> QED BY <2>4, <2>5, FS_Bijection
<1>16. RP!InSomeOrder(second, c)
  <2>1. \A x, y \in 1 .. n : second[x] = second[y] => x = y
    BY <1>12, <1>13
  <2> QED BY <1>13, <1>14, <1>15, <2>1 DEF RP!InSomeOrder, d
<1>17. \A x \in 1 .. n : entries[keys[x]] = IdBlocks(w)[second[x]]
  BY <1>13 DEF IdBlocks, d
<1>18. DOMAIN keys = 1 .. n /\ Len(keys) = n
  <2>1. keys = [i \in 1 .. n |-> keys[i]]
    BY <1>6
  <2>2. keys \in Seq(K)
    BY <1>9, <1>12, <2>1
  <2> QED BY <1>9, <2>1, <2>2
<1> QED BY <1>15, <1>16, <1>17, <1>18 DEF second, keys, d
-----------------------------------------------------------------------------
LEMMA PackedExact ==
  ASSUME RP!OrielAssumption, P!PackedAssumption, PackedInv
  PROVE  P!BlocksAreFull
<1> SUFFICES ASSUME NEW w \in Keywords
             PROVE  LET n == P!get_block_num(localFCNT[w])
                        with == {f \in Files : localBCNT[f] # 0 /\ w \in Words[f]}
                    IN  /\ localFCNT[w] = P!Cardinality(with)
                        /\ {b \in 1 .. P!Cardinality(Files) : <<w, b>> \in DOMAIN entries} = 1 .. n
                        /\ UNION {P!Ids(<<w, b>>) : b \in 1 .. n} = with
                        /\ \A b \in 1 .. n - 1 : P!Pad \notin P!Range(entries[<<w, b>>])
  BY DEF P!BlocksAreFull
<1> DEFINE c == localFCNT[w]
           n == RP!get_block_num(c)
           with == CountedWith(w)
           blocks == IdBlocks(w)
<1>1. n = P!get_block_num(c) /\ with = {f \in Files : localBCNT[f] # 0 /\ w \in Words[f]}
  BY SameNumbers DEF CountedWith
<1>2. RP!PackedAs(blocks, c, with)
  BY DEF PackedInv, PackedBlocks
<1>3. c \in Nat /\ n \in Nat /\ P!Pad = RP!Pad /\ RP!Pad \notin with /\ DOMAIN blocks = 1 .. n
  BY <1>2, RP!BlockCount DEF RP!PackedAs, P!Pad, RP!Pad
<1>4. \A b \in 1 .. n : blocks[b] = entries[<<w, b>>] /\ DOMAIN entries[<<w, b>>] = 1 .. COM
  <2>1. \A b \in 1 .. n : blocks[b] = entries[<<w, b>>]
    BY DEF IdBlocks
  <2>2. \A b \in 1 .. n : blocks[b] = [i \in 1 .. COM |-> blocks[b][i]]
    <3> HIDE DEF blocks
    <3> QED BY <1>2, <1>3 DEF RP!PackedAs
  <2> HIDE DEF blocks, n
  <2> SUFFICES ASSUME NEW b \in 1 .. n PROVE blocks[b] = entries[<<w, b>>] /\ DOMAIN entries[<<w, b>>] = 1 .. COM
    OBVIOUS
  <2>3. DOMAIN blocks[b] = 1 .. COM
    BY <2>2
  <2> QED BY <2>1, <2>3
<1>5. Cardinality(with) = c /\ \A s : P!Cardinality(s) = Cardinality(s)
  <2>1. RP!Cardinality(with) = Cardinality(with)
    BY DEF RP!Cardinality, Cardinality
  <2>2. \A s : P!Cardinality(s) = Cardinality(s)
    BY DEF P!Cardinality, Cardinality
  <2> QED BY <1>2, <2>1, <2>2 DEF RP!PackedAs
<1>6. c <= Cardinality(Files) /\ Cardinality(Files) \in Nat
  <2>1. \A s : P!IsFiniteSet(s) <=> IsFiniteSet(s)
    BY DEF P!IsFiniteSet, IsFiniteSet
  <2>2. IsFiniteSet(Keywords \cup Files)
    BY <2>1 DEF P!PackedAssumption
  <2>3. IsFiniteSet(Files) /\ with \subseteq Files
    BY <2>2, FS_Subset DEF CountedWith
  <2> HIDE DEF with
  <2> QED BY <1>5, <2>3, FS_Subset, FS_CardinalityType
<1>7. \A b : <<w, b>> \in DOMAIN entries <=> b \in 1 .. n
  <2>1. KeysOfMap[w] = n
    BY DEF KeysOfMap
  <2>2. DOMAIN entries = UNION {{k} \X (1 .. KeysOfMap[k]) : k \in Keywords \cup Files}
    BY DEF PackedInv, PackedTypes
  <2> HIDE DEF n
  <2> SUFFICES ASSUME NEW b PROVE <<w, b>> \in DOMAIN entries <=> b \in 1 .. n
    OBVIOUS
  <2>3. <<w, b>> \in DOMAIN entries <=> \E k \in Keywords \cup Files : <<w, b>> \in {k} \X (1 .. KeysOfMap[k])
    BY <2>2
  <2> QED BY <2>1, <2>3
<1> HIDE DEF blocks, c, with
<1>8. /\ \A b \in 1 .. n : \A i \in 1 .. COM : blocks[b][i] \in with \cup {RP!Pad}
      /\ \A f \in with : \E b \in 1 .. n : \E i \in 1 .. COM : blocks[b][i] = f
      /\ \A b \in 1 .. n - 1 : \A i \in 1 .. COM : blocks[b][i] # RP!Pad
      /\ n <= c
  BY <1>2, RP!PackedBlocksList
<1> HIDE DEF n
<1>9. {b \in 1 .. P!Cardinality(Files) : <<w, b>> \in DOMAIN entries} = 1 .. n
  BY <1>3, <1>5, <1>6, <1>7, <1>8
<1>10. UNION {P!Ids(<<w, b>>) : b \in 1 .. n} = with
  <2>1. \A b \in 1 .. n : P!Ids(<<w, b>>) = {blocks[b][i] : i \in 1 .. COM} \ {RP!Pad}
    BY <1>3, <1>4 DEF P!Ids
  <2>2. \A b \in 1 .. n : P!Ids(<<w, b>>) \subseteq with
    BY <1>8, <2>1
  <2>3. \A f \in with : \E b \in 1 .. n : f \in P!Ids(<<w, b>>)
    BY <1>3, <1>8, <2>1
  <2> QED BY <2>2, <2>3
<1>11. \A b \in 1 .. n - 1 : P!Pad \notin P!Range(entries[<<w, b>>])
  <2> SUFFICES ASSUME NEW b \in 1 .. n - 1 PROVE P!Pad \notin P!Range(entries[<<w, b>>])
    OBVIOUS
  <2>1. b \in 1 .. n
    BY <1>3
  <2>2. \A i \in DOMAIN entries[<<w, b>>] : entries[<<w, b>>][i] # P!Pad
    <3>1. blocks[b] = entries[<<w, b>>] /\ DOMAIN entries[<<w, b>>] = 1 .. COM
      BY <1>4, <2>1
    <3>2. \A i \in 1 .. COM : blocks[b][i] # RP!Pad
      BY <1>8
    <3> QED BY <1>3, <3>1, <3>2
  <2> QED BY <2>2 DEF P!Range
<1> QED BY <1>1, <1>5, <1>9, <1>10, <1>11 DEF c

\* What the places read, in whatever order the walk meets the blocks.
LEMMA PlacesAre ==
  ASSUME RP!OrielAssumption, P!PackedAssumption, PackedInv, NEW w \in Keywords
  PROVE  LET keys == P!KeysMet(w)
             order == [x \in DOMAIN keys |-> keys[x][2]]
             places == P!Places(w)
         IN  /\ RP!InSomeOrder(order, localFCNT[w])
             /\ DOMAIN places = 1 .. COM * RP!get_block_num(localFCNT[w])
             /\ \A n \in DOMAIN places : places[n] = RP!ReadAt(IdBlocks(w), order, n)
<1> DEFINE c == localFCNT[w]
           keys == P!KeysMet(w)
           order == [x \in DOMAIN keys |-> keys[x][2]]
           places == P!Places(w)
           N == COM * RP!get_block_num(c)
<1>1. /\ Len(keys) = RP!get_block_num(c) /\ DOMAIN keys = 1 .. Len(keys)
      /\ RP!InSomeOrder(order, c)
      /\ \A x \in DOMAIN keys : entries[keys[x]] = IdBlocks(w)[keys[x][2]]
  BY KeysMetAre
<1>2. RP!PackedAs(IdBlocks(w), c, CountedWith(w))
  BY DEF PackedInv, PackedBlocks
<1>3. places = [n \in 1 .. COM * Len(keys) |-> entries[keys[RP!get_block_num(n)]][RP!get_position(n)]]
  BY SameNumbers DEF P!Places
<1> HIDE DEF c, keys
<1>4. ASSUME NEW n \in 1 .. N PROVE places[n] = RP!ReadAt(IdBlocks(w), order, n)
  <2>1. RP!get_block_num(n) \in DOMAIN order
    <3> HIDE DEF order
    <3> QED BY <1>1, <1>2, RP!PlaceRead
  <2>2. RP!get_block_num(n) \in DOMAIN keys
    BY <2>1
  <2>3. places[n] = entries[keys[RP!get_block_num(n)]][RP!get_position(n)]
    BY <1>1, <1>3
  <2> QED BY <1>1, <2>2, <2>3 DEF RP!ReadAt
<1> QED BY <1>1, <1>3, <1>4 DEF c, keys

LEMMA MorionFound ==
  ASSUME RP!OrielAssumption, P!PackedAssumption, PackedInv, NEW w \in Keywords
  PROVE  P!FirstIds(P!Places(w), P!Filled(P!Places(w)), localFCNT[w]) = CountedWith(w)
<1> DEFINE c == localFCNT[w]
           keys == P!KeysMet(w)
           order == [x \in DOMAIN keys |-> keys[x][2]]
           places == P!Places(w)
           filled == RP!FilledPlaces(IdBlocks(w), order, c)
<1>1. /\ RP!InSomeOrder(order, c) /\ DOMAIN places = 1 .. COM * RP!get_block_num(c)
      /\ \A n \in DOMAIN places : places[n] = RP!ReadAt(IdBlocks(w), order, n)
  BY PlacesAre
<1>2. RP!PackedAs(IdBlocks(w), c, CountedWith(w))
  BY DEF PackedInv, PackedBlocks
<1> HIDE DEF order
<1>3. P!Filled(places) = filled /\ filled \subseteq DOMAIN places
  BY <1>1 DEF P!Filled, RP!FilledPlaces, P!Pad, RP!Pad
<1>4. \A s : P!Cardinality(s) = RP!Cardinality(s)
  BY DEF P!Cardinality, RP!Cardinality
<1> HIDE DEF filled, places, c
<1>5. P!FirstIds(places, filled, c) =
        {places[i] : i \in {j \in filled : RP!Cardinality({k \in filled : k <= j}) <= c}}
  BY <1>4 DEF P!FirstIds
<1>6. /\ {j \in filled : RP!Cardinality({k \in filled : k <= j}) <= c} = filled
      /\ \A n \in filled : RP!ReadAt(IdBlocks(w), order, n) \in CountedWith(w)
      /\ \A f \in CountedWith(w) : \E n \in filled : RP!ReadAt(IdBlocks(w), order, n) = f
  BY <1>1, <1>2, RP!AllPackedAreRead DEF filled
<1>7. P!FirstIds(places, filled, c) = {places[i] : i \in filled}
  BY <1>5, <1>6
<1>8. {places[i] : i \in filled} = CountedWith(w)
  BY <1>1, <1>3, <1>6
<1> QED BY <1>3, <1>7, <1>8 DEF places, c

LEMMA BorionFound ==
  ASSUME RP!OrielAssumption, P!PackedAssumption, PackedInv, NEW w \in Keywords
  PROVE  P!FirstIds(P!Places(w), DOMAIN P!Places(w), localFCNT[w]) \subseteq CountedWith(w) \cup {P!Pad}
<1> DEFINE c == localFCNT[w]
           keys == P!KeysMet(w)
           order == [x \in DOMAIN keys |-> keys[x][2]]
           places == P!Places(w)
<1>1. /\ RP!InSomeOrder(order, c) /\ DOMAIN places = 1 .. COM * RP!get_block_num(c)
      /\ \A n \in DOMAIN places : places[n] = RP!ReadAt(IdBlocks(w), order, n)
  BY PlacesAre
<1>2. RP!PackedAs(IdBlocks(w), c, CountedWith(w)) /\ P!Pad = RP!Pad
  BY DEF PackedInv, PackedBlocks, P!Pad, RP!Pad
<1> HIDE DEF order, places, c
<1>3. \A n \in 1 .. COM * RP!get_block_num(c) : RP!ReadAt(IdBlocks(w), order, n) \in CountedWith(w) \cup {RP!Pad}
  BY <1>1, <1>2, RP!OnlyPackedAreRead
<1>4. \A n \in DOMAIN places : places[n] \in CountedWith(w) \cup {P!Pad}
  BY <1>1, <1>2, <1>3
<1> QED BY <1>4 DEF P!FirstIds, places

\* The blocks an answer asks for are in the map.
LEMMA PackedAnswer ==
  ASSUME RP!OrielAssumption, P!PackedAssumption, PackedInv, NEW w \in Keywords, NEW ids,
         ids \subseteq CountedWith(w) \cup {P!Pad}, P!Answer(w, ids)
  PROVE  /\ UNCHANGED <<ready, localFCNT, localBCNT, entries>>
         /\ ids \cap Files \subseteq CountedWith(w)
         /\ last' = P!Call("search", w, UNION {{f} \X (1 .. Blocks[f]) : f \in ids \cap Files})
<1>1. P!Pad \notin Files /\ \A f \in Files : f \notin Keywords
  BY DEF P!PackedAssumption
<1>2. ids \cap Files \subseteq CountedWith(w)
  BY <1>1
<1>3. \A f \in ids \cap Files : f \in Files /\ localBCNT[f] = Blocks[f]
  BY <1>2 DEF CountedWith, PackedInv, PackedTypes, ClientTypes
<1> DEFINE keys == UNION {{f} \X (1 .. localBCNT[f]) : f \in ids \cap Files}
<1>4. keys \subseteq DOMAIN entries
  <2>1. \A f \in Files : KeysOfMap[f] = localBCNT[f]
    BY <1>1 DEF KeysOfMap
  <2>2. \A k \in keys : \E f \in Files : k \in {f} \X (1 .. KeysOfMap[f])
    BY <2>1
  <2> HIDE DEF keys
  <2> QED BY <2>2 DEF PackedInv, PackedTypes
<1>5. keys = UNION {{f} \X (1 .. Blocks[f]) : f \in ids \cap Files}
  BY <1>3
<1>6. last' = P!Call("search", w, keys)
  BY <1>4 DEF P!Answer
<1> QED BY <1>2, <1>5, <1>6 DEF P!Answer

LEMMA PackedSameInv == PackedInv /\ UNCHANGED <<localFCNT, localBCNT, entries>> => PackedInv'
<1> SUFFICES ASSUME PackedInv, UNCHANGED <<localFCNT, localBCNT, entries>> PROVE PackedInv'
  OBVIOUS
<1>1. \A w : IdBlocks(w)' = IdBlocks(w) /\ CountedWith(w)' = CountedWith(w)
  BY DEF IdBlocks, CountedWith
<1>2. PackedTypes'
  BY DEF PackedInv, PackedTypes, ClientTypes, KeysOfMap
<1>3. PackedBlocks'
  BY <1>1 DEF PackedInv, PackedBlocks
<1> QED BY <1>2, <1>3 DEF PackedInv

LEMMA PackedNextInv ==
  ASSUME RP!OrielAssumption, P!PackedAssumption, PackedInv, P!MorionNext \/ P!BorionNext \/ UNCHANGED P!vars
  PROVE  PackedInv'
<1>1. ASSUME NEW f \in Files, P!setupinsert(f) PROVE PackedInv'
  BY <1>1, PackedInsertInv
<1>2. ASSUME NEW w \in Keywords, P!simplebatchSearch(w) \/ P!batchSearch(w)
      PROVE  UNCHANGED <<localFCNT, localBCNT, entries>>
  BY <1>2 DEF P!simplebatchSearch, P!batchSearch, P!Answer
<1>3. P!endSetup \/ UNCHANGED P!vars => UNCHANGED <<localFCNT, localBCNT, entries>>
  BY DEF P!endSetup, P!vars
<1> QED BY <1>1, <1>2, <1>3, PackedSameInv DEF P!MorionNext, P!BorionNext, P!SetupNext

\* borion: a search may miss files, and finds no other keyword's.
LEMMA NothingElseInit == P!Init => P!NothingElseIsFound
BY DEF P!Init, P!NothingElseIsFound, P!Call, P!NoEntry

LEMMA NothingElseInv ==
  ASSUME RP!OrielAssumption, P!PackedAssumption, PackedInv, P!NothingElseIsFound,
         P!BorionNext \/ UNCHANGED P!vars
  PROVE  P!NothingElseIsFound'
<1>1. ASSUME NEW f \in Files, P!setupinsert(f) PROVE P!NothingElseIsFound'
  <2>1. last'.op = "add"
    BY <1>1 DEF P!setupinsert, P!Call
  <2> QED BY <2>1 DEF P!NothingElseIsFound
<1>2. ASSUME NEW w \in Keywords, P!batchSearch(w) PROVE P!NothingElseIsFound'
  <2> DEFINE ids == P!FirstIds(P!Places(w), DOMAIN P!Places(w), localFCNT[w])
             found == ids \cap Files
  <2>1. P!Answer(w, ids)
    BY <1>2 DEF P!batchSearch
  <2>2. ids \subseteq CountedWith(w) \cup {P!Pad}
    BY BorionFound
  <2> HIDE DEF ids
  <2>3. /\ UNCHANGED <<ready, localFCNT, localBCNT, entries>> /\ found \subseteq CountedWith(w)
        /\ last' = P!Call("search", w, UNION {{f} \X (1 .. Blocks[f]) : f \in found})
    BY <2>1, <2>2, PackedAnswer
  <2> HIDE DEF found
  <2>4. /\ last'.arg = w /\ last'.blocks = UNION {{f} \X (1 .. Blocks[f]) : f \in found}
        /\ found \in SUBSET {f \in Files : localBCNT'[f] # 0 /\ w \in Words[f]}
    BY <2>3 DEF P!Call, CountedWith
  <2> QED BY <2>4 DEF P!NothingElseIsFound
<1>3. CASE P!endSetup \/ UNCHANGED P!vars
  <2>1. UNCHANGED <<localBCNT, last>>
    BY <1>3 DEF P!endSetup, P!vars
  <2> QED BY <2>1 DEF P!NothingElseIsFound
<1> QED BY <1>1, <1>2, <1>3 DEF P!BorionNext, P!SetupNext
-----------------------------------------------------------------------------

(***************************************************************************)
(* All the kinds of index.                                                 *)
(***************************************************************************)
Kinds == {"dynamic", "static", "morion", "borion", "mitra", "btree", "blocks", "orion2", "packorion", "oriel", "packseed"}

IndexesInv ==
  /\ kind \in Kinds
  /\ IF kind = "dynamic" THEN IndexInv ELSE NoDynamic
  /\ kind = "static" => StaticInv
  /\ kind \in {"morion", "borion"} => PackedInv
  /\ kind = "borion" => P!NothingElseIsFound
  /\ kind = "mitra" => MitraInv
  /\ kind \in {"btree", "blocks"} => TreeInv
  /\ kind = "blocks" => AllPosted
  /\ kind = "orion2" => CountedInv
  /\ kind = "packorion" => RP!IInv
  /\ kind = "oriel" => RP1!IInv
  /\ kind = "packseed" => SeedInv

LEMMA Assumptions ==
  /\ P!PackedAssumption /\ M!MitraAssumption /\ B!BTreeIndexAssumption /\ O!Orion2Assumption
  /\ RP!OrielAssumption /\ RP1!OrielAssumption /\ Q!PackedSeedAssumption /\ PrefixesDiffer
BY MCIndexesAssumption, SameBlocks, SameIds

MCNext == Dynamic \/ Static \/ Packed \/ Mitra \/ Btree \/ Orion2 \/ Oriel \/ PackSeed

\* A step is one of the kind's own index.
LEMMA StepOfKind ==
  ASSUME kind \in Kinds, [MCNext]_allVars
  PROVE  /\ kind' = kind
         /\ kind = "dynamic" => [UpdateNext]_vars
         /\ kind # "dynamic" => UNCHANGED dynamic
         /\ kind = "static" => [S!StaticNext]_S!vars
         /\ kind = "morion" => P!MorionNext \/ UNCHANGED P!vars
         /\ kind = "borion" => P!BorionNext \/ UNCHANGED P!vars
         /\ kind = "mitra" => [M!Next]_M!vars
         /\ kind = "btree" => [B!Next]_B!vars
         /\ kind = "blocks" => [B!BlocksNext]_B!vars
         /\ kind = "orion2" => [O!Next]_O!vars
         /\ kind = "packorion" => [RP!Next]_RP!vars
         /\ kind = "oriel" => [RP1!Next]_RP1!vars
         /\ kind = "packseed" => [Q!Next]_Q!vars
<1>1. CASE Dynamic
  BY <1>1 DEF Dynamic
<1>2. CASE Static
  BY <1>2 DEF Static
<1>3. CASE Packed
  BY <1>3 DEF Packed
<1>4. CASE Mitra
  BY <1>4 DEF Mitra
<1>5. CASE Btree
  <2>1. kind' = kind /\ UNCHANGED dynamic /\ ((kind = "btree" /\ B!Next) \/ (kind = "blocks" /\ B!BlocksNext))
    BY <1>5 DEF Btree
  <2> QED BY <2>1
<1>6. CASE Orion2
  BY <1>6 DEF Orion2
<1>7. CASE Oriel
  <2>1. kind' = kind /\ UNCHANGED dynamic /\ ((kind = "packorion" /\ R!Next) \/ (kind = "oriel" /\ R1!Next))
    BY <1>7 DEF Oriel
  <2>2. CASE kind = "packorion" /\ R!Next
    <3>1. [RP!Next]_RP!vars
      BY <2>2, SameBlocks
    <3> QED BY <2>1, <2>2, <3>1
  <2>3. CASE kind = "oriel" /\ R1!Next
    <3>1. [RP1!Next]_RP1!vars
      BY <2>3, SameIds
    <3> QED BY <2>1, <2>3, <3>1
  <2> QED BY <2>1, <2>2, <2>3
<1>8. CASE PackSeed
  BY <1>8 DEF PackSeed
<1>9. CASE UNCHANGED allVars
  <2>1. UNCHANGED <<kind, local, ready, localFCNT, localBCNT, fcnt, last, fcntbids, UpdtCnt, srch, file,
                    entries, stored, totals, updated, counts, acc, DictW, DictF, fcntbtree, tree>>
    BY <1>9 DEF allVars, shared, dynamic, maps2, mitra, btree
  <2> QED BY <2>1 DEF dynamic, vars, counters, maps, S!vars, S!counters, S!maps, P!vars, M!vars, B!vars, O!vars,
                      RP!vars, RP1!vars, Q!vars
<1> QED BY <1>1, <1>2, <1>3, <1>4, <1>5, <1>6, <1>7, <1>8, <1>9 DEF MCNext

LEMMA IndexesInit == ASSUME MCInit PROVE IndexesInv
<1>1. ASSUME kind = "dynamic", Init PROVE IndexesInv
  BY <1>1, DynamicInit DEF IndexesInv, Kinds
<1>2. ASSUME kind = "static", S!Init, NoDynamic PROVE IndexesInv
  BY <1>2, StaticInit DEF IndexesInv, Kinds
<1>3. ASSUME kind \in {"morion", "borion"}, P!Init, NoDynamic PROVE IndexesInv
  <2>1. PackedInv /\ P!NothingElseIsFound
    BY <1>3, Assumptions, PackedInit, NothingElseInit
  <2> QED BY <1>3, <2>1 DEF IndexesInv, Kinds
<1>4. ASSUME kind = "mitra", M!Init, NoDynamic PROVE IndexesInv
  BY <1>4, MitraInit DEF IndexesInv, Kinds
<1>5. ASSUME kind \in {"btree", "blocks"}, B!Init, NoDynamic PROVE IndexesInv
  <2>1. TreeInv
    BY <1>5, Assumptions, TreeInitInv
  <2>2. AllPosted
    <3>1. TreeDocs = {}
      BY <1>5 DEF TreeDocs, B!Init
    <3> QED BY <3>1 DEF AllPosted
  <2> QED BY <1>5, <2>1, <2>2 DEF IndexesInv, Kinds
<1>6. ASSUME kind = "orion2", O!Init, NoDynamic PROVE IndexesInv
  BY <1>6, CountedInitInv DEF IndexesInv, Kinds
<1>7. ASSUME kind \in {"packorion", "oriel"}, R!Init, NoDynamic PROVE IndexesInv
  <2>1. RP!IInv
    BY <1>7, Assumptions, SameBlocks, RP!InitInv
  <2>2. RP1!IInv
    <3>1. R1!Init
      BY <1>7 DEF R!Init, R1!Init, R!NoEntry, R1!NoEntry, R!Call, R1!Call
    <3> QED BY <3>1, Assumptions, SameIds, RP1!InitInv
  <2> QED BY <1>7, <2>1, <2>2 DEF IndexesInv, Kinds
<1>8. ASSUME kind = "packseed", Q!Init, NoDynamic PROVE IndexesInv
  <2>1. SeedInv
    BY <1>8, Assumptions, SeedInit
  <2> QED BY <1>8, <2>1 DEF IndexesInv, Kinds
<1> QED BY <1>1, <1>2, <1>3, <1>4, <1>5, <1>6, <1>7, <1>8 DEF MCInit

LEMMA IndexesNext == ASSUME IndexesInv, [MCNext]_allVars PROVE IndexesInv'
<1>1. kind \in Kinds /\ kind' = kind
  BY StepOfKind DEF IndexesInv
<1>2. IF kind = "dynamic" THEN IndexInv' ELSE NoDynamic'
  <2>1. CASE kind = "dynamic"
    BY <2>1, StepOfKind, DynamicNextInv DEF IndexesInv
  <2>2. CASE kind # "dynamic"
    <3>1. NoDynamic /\ UNCHANGED dynamic
      BY <2>2, StepOfKind DEF IndexesInv
    <3> QED BY <2>2, <3>1 DEF NoDynamic, dynamic
  <2> QED BY <2>1, <2>2
<1>3. kind = "static" => StaticInv'
  BY StepOfKind, StaticStep DEF IndexesInv
<1>4. kind \in {"morion", "borion"} => PackedInv'
  BY Assumptions, StepOfKind, PackedNextInv DEF IndexesInv
<1>5. kind = "borion" => P!NothingElseIsFound'
  BY Assumptions, StepOfKind, NothingElseInv DEF IndexesInv
<1>6. kind = "mitra" => MitraInv'
  BY Assumptions, StepOfKind, MitraNextInv DEF IndexesInv
<1>7. kind \in {"btree", "blocks"} => TreeInv'
  <2>1. kind \in {"btree", "blocks"} => TreeInv /\ [B!Next \/ B!BlocksNext]_B!vars
    BY StepOfKind DEF IndexesInv
  <2> QED BY <2>1, Assumptions, TreeStepInv
<1>8. kind = "blocks" => AllPosted'
  BY Assumptions, StepOfKind, AllPostedStep DEF IndexesInv
<1>9. kind = "orion2" => CountedInv'
  BY Assumptions, StepOfKind, CountedNextInv DEF IndexesInv
<1>10. kind = "packorion" => RP!IInv'
  BY Assumptions, StepOfKind, RP!NextInv DEF IndexesInv
<1>11. kind = "oriel" => RP1!IInv'
  BY Assumptions, StepOfKind, RP1!NextInv DEF IndexesInv
<1>12. kind = "packseed" => SeedInv'
  BY Assumptions, StepOfKind, SeedNextInv DEF IndexesInv
<1> QED BY <1>1, <1>2, <1>3, <1>4, <1>5, <1>6, <1>7, <1>8, <1>9, <1>10, <1>11, <1>12 DEF IndexesInv

LEMMA IndexesInductive == MCSpec => []IndexesInv
<1>1. IndexesInv /\ [MCNext]_allVars => IndexesInv'
  BY IndexesNext
<1>2. MCInit => IndexesInv
  BY IndexesInit
<1> QED BY <1>1, <1>2, PTL DEF MCSpec, MCNext
-----------------------------------------------------------------------------
\* Whatever files are inserted and removed, in whatever order, the numbers of
\* a keyword are those of its files, one each, without a gap (insert, remove).
THEOREM PostingsStayExact == MCSpec => []PostingsExact
<1>1. IndexesInv => PostingsExact
  <2> SUFFICES ASSUME IndexesInv PROVE PostingsExact
    OBVIOUS
  <2>1. CASE kind = "dynamic"
    BY <2>1 DEF IndexesInv, IndexInv
  <2>2. CASE kind # "dynamic"
    <3>1. NoDynamic
      BY <2>2 DEF IndexesInv
    <3>2. \A w \in Keywords : fcntbids[w] = 0 /\ srch[w] = NoEntry /\ \A f \in Files : UpdtCnt[w][f] = 0
      BY <3>1 DEF NoDynamic
    <3>3. DOMAIN NoEntry = 1 .. 0 /\ Live = {}
      BY <3>1 DEF NoEntry, NoDynamic, Live
    <3> QED BY <3>2, <3>3 DEF PostingsExact
  <2> QED BY <2>1, <2>2
<1> QED BY <1>1, IndexesInductive, PTL

\* The number a keyword's next file gets is not in the B-tree, which inserts
\* no key twice, and a search lists no file twice (insert, setupInsert, remove).
THEOREM NextKeysAreFree == MCSpec => []NextKeyIsFree
<1>1. IndexesInv => NextKeyIsFree
  BY NextIsFree, NoneTwice DEF IndexesInv, NextKeyIsFree
<1> QED BY <1>1, IndexesInductive, PTL

\* The entries of every kind's maps are those of the files that were added
\* and not removed, at the places the client's counts give.
THEOREM EntriesStayCurrent == MCSpec => []EntriesAreCurrent
<1>1. ASSUME IndexesInv PROVE EntriesAreCurrent
  <2>1. kind \in {"morion", "borion"} => P!BlocksAreFull
    BY <1>1, Assumptions, PackedExact DEF IndexesInv
  <2>2. kind = "borion" => P!NothingElseIsFound
    BY <1>1 DEF IndexesInv
  <2>3. kind = "mitra" => M!EntriesAreCurrent /\ M!EntriesAreFiles /\ M!FileAtItsCount
    BY <1>1, Assumptions, MitraExact DEF IndexesInv
  <2>4. kind = "orion2" => O!NumbersAreExact /\ O!FoundIsLive
    BY <1>1, CountedAreExact DEF IndexesInv, CountedInv
  <2>5. kind = "packorion" => R!FileAtItsCount /\ R!BlocksList
    <3>1. kind = "packorion" => RP!FileAtItsCount /\ RP!BlocksList
      BY <1>1, Assumptions, RP!BlocksListInv DEF IndexesInv, RP!IInv
    <3> QED BY <3>1, SameBlocks
  <2>6. kind = "oriel" => R1!FileAtItsCount /\ R1!BlocksList
    <3>1. kind = "oriel" => RP1!FileAtItsCount /\ RP1!BlocksList
      BY <1>1, Assumptions, RP1!BlocksListInv DEF IndexesInv, RP1!IInv
    <3> QED BY <3>1, SameIds
  <2>7. kind = "packseed" => Q!NodesAreFound
    BY <1>1, Assumptions, SeedExact DEF IndexesInv
  <2> QED BY <2>1, <2>2, <2>3, <2>4, <2>5, <2>6, <2>7 DEF EntriesAreCurrent
<1>2. IndexesInv => EntriesAreCurrent
  BY <1>1
<1> QED BY <1>2, IndexesInductive, PTL

\* A search of the B-tree's index finds the files inserted with the keyword
\* since its last removal: it implements Postings (search, batchSearch).
THEOREM TreeBehavesAsPostings == MCSpec => PostingsSpec
<1>1. ASSUME MCInit PROVE Ids!Init
  <2>1. CASE kind = "btree"
    <3>1. B!Init
      BY <1>1, <2>1 DEF MCInit
    <3>2. TreeFound!Init
      BY <3>1, PostingsInit
    <3> QED BY <2>1, <3>2 DEF TreeFound!Init, TreeFound!Call, Ids!Init, Ids!Call, Posted
  <2>2. CASE kind # "btree"
    BY <2>2 DEF Ids!Init, Ids!Call, Posted, NoCall
  <2> QED BY <2>1, <2>2
<1>2. ASSUME IndexesInv, [MCNext]_allVars PROVE [Ids!Next]_Ids!postingsVars
  <2>1. kind \in Kinds /\ kind' = kind
    BY <1>2, StepOfKind DEF IndexesInv
  <2>2. CASE kind = "btree"
    <3>1. TreeInv /\ [B!Next]_B!vars
      BY <1>2, <2>2, StepOfKind DEF IndexesInv
    <3>2. [TreeFound!Next]_TreeFound!postingsVars
      BY <3>1, Assumptions, PostingsStep
    <3>3. Posted = B!Posted /\ Posted' = B!Posted'
      BY <2>1, <2>2 DEF Posted
    <3> QED BY <2>1, <2>2, <3>2, <3>3 DEF TreeFound!Next, TreeFound!postingsVars, TreeFound!Insert, TreeFound!Remove,
              TreeFound!Search, TreeFound!BatchSearch, TreeFound!Call, Ids!Next, Ids!postingsVars, Ids!Insert,
              Ids!Remove, Ids!Search, Ids!BatchSearch, Ids!Call
  <2>3. CASE kind # "btree"
    BY <2>1, <2>3 DEF Ids!postingsVars, Posted, NoCall
  <2> QED BY <2>2, <2>3
<1> QED BY <1>1, <1>2, IndexesInductive, PTL DEF MCSpec, MCNext, PostingsSpec, Ids!Spec
-----------------------------------------------------------------------------

(***************************************************************************)
(* Every kind keeps the promise of SearchIndex.                            *)
(***************************************************************************)
AllBlocks(ids) == UNION {{f} \X (1 .. Blocks[f]) : f \in ids}

PromisedStep(docs, next, called) ==
  \/ \E f \in Files : f \notin docs /\ next = docs \cup {f} /\ called = Call("add", f, {})
  \/ \E f \in Files : f \in docs /\ next = docs \ {f} /\ called = Call("remove", f, {})
  \/ \E w \in Keywords : next = docs /\ called = Call("search", w, AllBlocks({f \in docs : w \in Words[f]}))

LEMMA PromiseKept == ASSUME PromisedStep(Docs, Docs', LastCall') PROVE Promise!Next
BY DEF PromisedStep, AllBlocks, Call, Promise!Next, Promise!Add, Promise!Remove, Promise!Search, Promise!Call, Promise!BlocksOf

LEMMA DynamicStep ==
  ASSUME IndexInv, [UpdateNext]_vars
  PROVE  PromisedStep(Live, Live', last') \/ UNCHANGED <<Live, last>>
<1>1. ASSUME NEW f \in Files, Insert(f) PROVE f \notin Live /\ Live' = Live \cup {f} /\ last' = Call("add", f, {})
  <2>1. /\ file[f] = {} /\ file' = [file EXCEPT ![f] = 1 .. Blocks[f]] /\ Blocks[f] \in Nat \ {0}
        /\ DOMAIN file = Files /\ last' = Call("add", f, {})
    BY <1>1, IndexAssumption DEF Insert, IndexInv, TypeOK
  <2>2. \A g \in Files : file'[g] = IF g = f THEN 1 .. Blocks[f] ELSE file[g]
    BY <2>1
  <2>3. 1 \in 1 .. Blocks[f]
    BY <2>1
  <2> QED BY <2>1, <2>2, <2>3 DEF Live
<1>2. ASSUME NEW f \in Files, Remove(f) PROVE f \in Live /\ Live' = Live \ {f} /\ last' = Call("remove", f, {})
  <2>1. /\ localBCNT[f] \in Nat \ {0} /\ file' = [file EXCEPT ![f] = @ \ (1 .. localBCNT[f])]
        /\ file[f] = 1 .. localBCNT[f] /\ DOMAIN file = Files /\ last' = Call("remove", f, {})
    BY <1>2 DEF Remove, IndexInv, TypeOK, BlocksCounted
  <2>2. \A g \in Files : file'[g] = IF g = f THEN {} ELSE file[g]
    BY <2>1
  <2>3. 1 \in 1 .. localBCNT[f]
    BY <2>1
  <2> QED BY <2>1, <2>2, <2>3 DEF Live
<1>3. UNCHANGED vars => UNCHANGED <<Live, last>>
  BY DEF vars, maps, Live
<1> QED BY <1>1, <1>2, <1>3 DEF UpdateNext, PromisedStep

LEMMA MorionStep ==
  ASSUME RP!OrielAssumption, P!PackedAssumption, PackedInv, P!MorionNext \/ UNCHANGED P!vars
  PROVE  PromisedStep(TreeDocs, TreeDocs', last') \/ UNCHANGED <<TreeDocs, last>>
<1>1. ASSUME NEW f \in Files, P!setupinsert(f)
      PROVE  f \notin TreeDocs /\ TreeDocs' = TreeDocs \cup {f} /\ last' = Call("add", f, {})
  <2>1. localBCNT[f] = 0 /\ \A g \in Files : localBCNT'[g] = IF g = f THEN Blocks[f] ELSE localBCNT[g]
    BY <1>1, PackedInsertInv
  <2>2. Blocks[f] # 0 /\ last' = Call("add", f, {})
    BY <1>1 DEF P!setupinsert, P!PackedAssumption, P!Call, Call
  <2> QED BY <2>1, <2>2 DEF TreeDocs
<1>2. ASSUME NEW w \in Keywords, P!simplebatchSearch(w)
      PROVE  /\ UNCHANGED TreeDocs
             /\ last' = Call("search", w, AllBlocks({f \in TreeDocs : w \in Words[f]}))
  <2> DEFINE ids == CountedWith(w)
  <2>1. P!Answer(w, ids)
    BY <1>2, MorionFound DEF P!simplebatchSearch
  <2>2. ids = {g \in TreeDocs : w \in Words[g]} /\ ids \cap Files = ids
    BY DEF CountedWith, TreeDocs
  <2>3. /\ UNCHANGED localBCNT
        /\ last' = Call("search", w, AllBlocks(ids \cap Files))
    <3> HIDE DEF ids
    <3>1. ids \subseteq CountedWith(w) \cup {P!Pad}
      BY DEF ids
    <3> QED BY <2>1, <3>1, PackedAnswer DEF P!Call, Call, AllBlocks
  <2> HIDE DEF ids
  <2> QED BY <2>2, <2>3 DEF TreeDocs
<1>3. P!endSetup \/ UNCHANGED P!vars => UNCHANGED <<TreeDocs, last>>
  BY DEF P!endSetup, P!vars, TreeDocs
<1> QED BY <1>1, <1>2, <1>3 DEF P!MorionNext, P!SetupNext, PromisedStep

LEMMA MitraStep ==
  ASSUME M!MitraAssumption, PrefixesDiffer, MitraInv, [M!Next]_M!vars
  PROVE  PromisedStep(DOMAIN acc, DOMAIN acc', last') \/ UNCHANGED <<acc, last>>
<1>1. ASSUME NEW f \in Files, M!Insert(f)
      PROVE  f \notin DOMAIN acc /\ DOMAIN acc' = DOMAIN acc \cup {f} /\ last' = Call("add", f, {})
  <2>1. last' = Call("add", f, {})
    BY <1>1 DEF M!Insert, M!Call, Call
  <2> QED BY <1>1, <2>1, MitraInsertInv
<1>2. ASSUME NEW w \in Keywords, M!Search(w)
      PROVE  DOMAIN acc' = DOMAIN acc /\ last' = Call("search", w, AllBlocks({f \in DOMAIN acc : w \in Words[f]}))
  <2>1. DOMAIN acc' = DOMAIN acc /\ last' = M!Call("search", w, UNION {{f} \X (1 .. Blocks[f]) : f \in AddedWith(w)})
    BY <1>2, MitraSearchInv
  <2> QED BY <2>1 DEF M!Call, Call, AllBlocks, AddedWith
<1>3. ASSUME NEW w \in Keywords, M!SearchUnknown(w)
      PROVE  UNCHANGED acc /\ last' = Call("search", w, AllBlocks({f \in DOMAIN acc : w \in Words[f]}))
  <2>1. M!Count(w).fc = 0
    BY <1>3 DEF M!SearchUnknown, M!Count
  <2>2. AddedWith(w) = {}
    BY <2>1 DEF MitraInv, MitraEntries
  <2>3. AllBlocks({f \in DOMAIN acc : w \in Words[f]}) = {}
    BY <2>2 DEF AddedWith, AllBlocks
  <2> QED BY <1>3, <2>3 DEF M!SearchUnknown, M!Call, Call
<1>4. M!EndSetup \/ UNCHANGED M!vars => UNCHANGED <<acc, last>>
  BY DEF M!EndSetup, M!vars
<1> QED BY <1>1, <1>2, <1>3, <1>4 DEF M!Next, PromisedStep

LEMMA PackorionStep ==
  ASSUME RP!OrielAssumption, RP!IInv, [RP!Next]_RP!vars
  PROVE  PromisedStep(DOMAIN acc, DOMAIN acc', last') \/ UNCHANGED <<acc, last>>
<1>1. ASSUME NEW f \in Files, RP!Insert(f)
      PROVE  f \notin DOMAIN acc /\ DOMAIN acc' = DOMAIN acc \cup {f} /\ last' = Call("add", f, {})
  <2>1. last' = Call("add", f, {})
    BY <1>1 DEF RP!Insert, RP!Call, Call
  <2> QED BY <1>1, <2>1, RP!InsertInv
<1>2. ASSUME NEW w \in Keywords, RP!localbatchSearch(w) \/ RP!batchSearch(w)
      PROVE  DOMAIN acc' = DOMAIN acc /\ last' = Call("search", w, AllBlocks({f \in DOMAIN acc : w \in Words[f]}))
  <2>1. PICK order \in RP!SetToSeqs(RP!KeysOf(w)) : RP!ReadFiles(w, RP!filind(w, order))
    BY <1>2 DEF RP!localbatchSearch, RP!batchSearch
  <2>2. DOMAIN acc' = DOMAIN acc /\ last' = RP!Call("search", w, UNION {{f} \X (1 .. Blocks[f]) : f \in RP!FilesWith(w)})
    BY <2>1, RP!ReadInv
  <2> QED BY <2>2 DEF RP!Call, Call, AllBlocks, RP!FilesWith
<1>3. RP!endSetup \/ UNCHANGED RP!vars => UNCHANGED <<acc, last>>
  BY DEF RP!endSetup, RP!vars
<1> QED BY <1>1, <1>2, <1>3 DEF RP!Next, PromisedStep

LEMMA OrielStep ==
  ASSUME RP1!OrielAssumption, RP1!IInv, [RP1!Next]_RP1!vars
  PROVE  PromisedStep(DOMAIN acc, DOMAIN acc', last') \/ UNCHANGED <<acc, last>>
<1>1. ASSUME NEW f \in Files, RP1!Insert(f)
      PROVE  f \notin DOMAIN acc /\ DOMAIN acc' = DOMAIN acc \cup {f} /\ last' = Call("add", f, {})
  <2>1. last' = Call("add", f, {})
    BY <1>1 DEF RP1!Insert, RP1!Call, Call
  <2> QED BY <1>1, <2>1, RP1!InsertInv
<1>2. ASSUME NEW w \in Keywords, RP1!localbatchSearch(w) \/ RP1!batchSearch(w)
      PROVE  DOMAIN acc' = DOMAIN acc /\ last' = Call("search", w, AllBlocks({f \in DOMAIN acc : w \in Words[f]}))
  <2>1. PICK order \in RP1!SetToSeqs(RP1!KeysOf(w)) : RP1!ReadFiles(w, RP1!filind(w, order))
    BY <1>2 DEF RP1!localbatchSearch, RP1!batchSearch
  <2>2. DOMAIN acc' = DOMAIN acc /\ last' = RP1!Call("search", w, UNION {{f} \X (1 .. Blocks[f]) : f \in RP1!FilesWith(w)})
    BY <2>1, RP1!ReadInv
  <2> QED BY <2>2 DEF RP1!Call, Call, AllBlocks, RP1!FilesWith
<1>3. RP1!endSetup \/ UNCHANGED RP1!vars => UNCHANGED <<acc, last>>
  BY DEF RP1!endSetup, RP1!vars
<1> QED BY <1>1, <1>2, <1>3 DEF RP1!Next, PromisedStep

LEMMA SeedStep ==
  ASSUME RP!OrielAssumption, Q!PackedSeedAssumption, SeedInv, [Q!Next]_Q!vars
  PROVE  PromisedStep(TreeDocs, TreeDocs', last') \/ UNCHANGED <<TreeDocs, last>>
<1>1. ASSUME NEW f \in Files, Q!batchInsert(f)
      PROVE  f \notin TreeDocs /\ TreeDocs' = TreeDocs \cup {f} /\ last' = Call("add", f, {})
  <2>1. localBCNT[f] = 0 /\ \A g \in Files : localBCNT'[g] = IF g = f THEN Blocks[f] ELSE localBCNT[g]
    BY <1>1, SeedInsertInv
  <2>2. Blocks[f] # 0 /\ last' = Call("add", f, {})
    BY <1>1 DEF Q!batchInsert, Q!PackedSeedAssumption, Q!Call, Call
  <2> QED BY <2>1, <2>2 DEF TreeDocs
<1>2. ASSUME NEW w \in Keywords, Q!simplebatchSearch(w)
      PROVE  UNCHANGED TreeDocs /\ last' = Call("search", w, AllBlocks({f \in TreeDocs : w \in Words[f]}))
  <2> DEFINE ids == CountedWith(w)
  <2>1. last' = Q!Call("search", w, Q!conts(Q!result(w))) /\ UNCHANGED localBCNT
    BY <1>2 DEF Q!simplebatchSearch
  <2>2. Q!result(w) = ids /\ Q!conts(ids) = AllBlocks(ids)
    BY SeedResult, SeedFound DEF AllBlocks
  <2>3. ids = {f \in TreeDocs : w \in Words[f]}
    BY DEF CountedWith, TreeDocs
  <2> HIDE DEF ids
  <2> QED BY <2>1, <2>2, <2>3 DEF Q!Call, Call, TreeDocs
<1>3. Q!endSetup \/ UNCHANGED Q!vars => UNCHANGED <<TreeDocs, last>>
  BY DEF Q!endSetup, Q!vars, TreeDocs
<1> QED BY <1>1, <1>2, <1>3 DEF Q!Next, PromisedStep

\* The files of each kind's index, and its last call.
LEMMA DocsAre ==
  /\ kind = "dynamic" => Docs = Live
  /\ kind = "static" => Docs = S!Live
  /\ kind \in {"packorion", "oriel"} => Docs = DOMAIN acc
  /\ kind \in {"morion", "blocks", "packseed"} => Docs = TreeDocs
  /\ kind = "mitra" => Docs = {a[1] : a \in DOMAIN DictF}
  /\ kind \in {"borion", "btree", "orion2"} => Docs = {} /\ LastCall = Call("none", "none", {})
  /\ kind = "blocks" => LastCall = [op |-> B!CallNamed(last.op), arg |-> last.arg, blocks |-> last.found]
  /\ kind \in {"dynamic", "static", "packorion", "oriel", "morion", "packseed", "mitra"} => LastCall = last
BY DEF Docs, LastCall, TreeDocs

LEMMA MitraDocs == M!FileAtItsCount => {a[1] : a \in DOMAIN DictF} = DOMAIN acc
<1> SUFFICES ASSUME M!FileAtItsCount PROVE {a[1] : a \in DOMAIN DictF} = DOMAIN acc
  OBVIOUS
<1>1. DOMAIN DictF = {<<f, acc[f]>> : f \in DOMAIN acc}
  BY DEF M!FileAtItsCount
<1>2. \A f \in DOMAIN acc : <<f, acc[f]>> \in DOMAIN DictF /\ <<f, acc[f]>>[1] = f
  BY <1>1
<1>3. \A a \in DOMAIN DictF : a[1] \in DOMAIN acc
  BY <1>1
<1> QED BY <1>2, <1>3

LEMMA PromiseInit == ASSUME MCInit PROVE Promise!Init
<1>1. ASSUME Docs = {}, LastCall.op = "none" PROVE Promise!Init
  BY <1>1 DEF Promise!Init
<1>2. ASSUME kind = "dynamic", Init PROVE Docs = {} /\ LastCall.op = "none"
  <2>1. Live = {} /\ last.op = "none"
    BY <1>2 DEF Init, Live, Call
  <2> QED BY <1>2, <2>1, DocsAre
<1>3. ASSUME kind = "static", S!Init PROVE Docs = {} /\ LastCall.op = "none"
  <2>1. S!Live = {} /\ last.op = "none"
    BY <1>3 DEF S!Init, S!Live, S!Call
  <2> QED BY <1>3, <2>1, DocsAre
<1>4. ASSUME kind \in {"morion", "borion"}, P!Init PROVE Docs = {} /\ LastCall.op = "none"
  <2>1. TreeDocs = {} /\ last.op = "none" /\ Call("none", "none", {}).op = "none"
    BY <1>4 DEF P!Init, TreeDocs, P!Call, Call
  <2> QED BY <1>4, <2>1, DocsAre
<1>5. ASSUME kind = "mitra", M!Init PROVE Docs = {} /\ LastCall.op = "none"
  <2>1. DOMAIN DictF = {} /\ last.op = "none"
    BY <1>5 DEF M!Init, M!NoEntry, M!Call
  <2> QED BY <1>5, <2>1, DocsAre
<1>6. ASSUME kind \in {"btree", "blocks"}, B!Init PROVE Docs = {} /\ LastCall.op = "none"
  <2>1. TreeDocs = {} /\ last.op = "none" /\ Call("none", "none", {}).op = "none"
    BY <1>6 DEF B!Init, TreeDocs, B!Call, Call
  <2> QED BY <1>6, <2>1, DocsAre DEF B!CallNamed
<1>7. ASSUME kind = "orion2" PROVE Docs = {} /\ LastCall.op = "none"
  <2>1. Call("none", "none", {}).op = "none"
    BY DEF Call
  <2> QED BY <1>7, <2>1, DocsAre
<1>8. ASSUME kind \in {"packorion", "oriel"}, R!Init PROVE Docs = {} /\ LastCall.op = "none"
  <2>1. DOMAIN acc = {} /\ last.op = "none"
    BY <1>8 DEF R!Init, R!NoEntry, R!Call
  <2> QED BY <1>8, <2>1, DocsAre
<1>9. ASSUME kind = "packseed", Q!Init PROVE Docs = {} /\ LastCall.op = "none"
  <2>1. TreeDocs = {} /\ last.op = "none"
    BY <1>9 DEF Q!Init, TreeDocs, Q!Call
  <2> QED BY <1>9, <2>1, DocsAre
<1> QED BY <1>1, <1>2, <1>3, <1>4, <1>5, <1>6, <1>7, <1>8, <1>9 DEF MCInit

LEMMA PromiseNext == ASSUME IndexesInv, [MCNext]_allVars PROVE [Promise!Next]_Promise!indexVars
<1>1. kind \in Kinds /\ kind' = kind
  BY StepOfKind DEF IndexesInv
<1>2. UNCHANGED <<Docs, LastCall>> => UNCHANGED Promise!indexVars
  BY DEF Promise!indexVars
<1>3. CASE kind = "dynamic"
  <2>1. Docs = Live /\ Docs' = Live' /\ LastCall = last /\ LastCall' = last'
    BY <1>1, <1>3 DEF Docs, LastCall
  <2>2. PromisedStep(Live, Live', last') \/ UNCHANGED <<Live, last>>
    BY <1>3, StepOfKind, DynamicStep DEF IndexesInv
  <2> QED BY <1>2, <2>1, <2>2, PromiseKept
<1>4. CASE kind = "static"
  <2>1. Docs = S!Live /\ Docs' = S!Live' /\ LastCall = last /\ LastCall' = last'
    BY <1>1, <1>4 DEF Docs, LastCall
  <2>2. [StaticPromise!Next]_StaticPromise!indexVars
    BY <1>4, StepOfKind, StaticStep DEF IndexesInv
  <2>3. PromisedStep(S!Live, S!Live', last') \/ UNCHANGED <<S!Live, last>>
    BY <2>2 DEF StaticPromise!Next, StaticPromise!indexVars, StaticPromise!Add, StaticPromise!Remove,
                StaticPromise!Search, StaticPromise!Call, StaticPromise!BlocksOf, PromisedStep, AllBlocks, Call
  <2> QED BY <1>2, <2>1, <2>3, PromiseKept
<1>5. CASE kind = "morion"
  <2>1. Docs = TreeDocs /\ Docs' = TreeDocs' /\ LastCall = last /\ LastCall' = last'
    BY <1>1, <1>5 DEF Docs, LastCall, TreeDocs
  <2>2. PromisedStep(TreeDocs, TreeDocs', last') \/ UNCHANGED <<TreeDocs, last>>
    BY <1>5, Assumptions, StepOfKind, MorionStep DEF IndexesInv
  <2> QED BY <1>2, <2>1, <2>2, PromiseKept
<1>6. CASE kind = "mitra"
  <2>1. MitraInv /\ MitraInv' /\ [M!Next]_M!vars
    BY <1>1, <1>6, StepOfKind, IndexesNext DEF IndexesInv
  <2>2. Docs = DOMAIN acc /\ LastCall = last
    BY <1>6, <2>1, DocsAre, MitraDocs DEF MitraInv
  <2>3. Docs' = DOMAIN acc' /\ LastCall' = last'
    <3>1. {a[1] : a \in DOMAIN DictF'} = DOMAIN acc'
      <4>1. DOMAIN DictF' = {<<f, acc'[f]>> : f \in DOMAIN acc'}
        BY <2>1 DEF MitraInv, M!FileAtItsCount
      <4>2. \A f \in DOMAIN acc' : <<f, acc'[f]>> \in DOMAIN DictF' /\ <<f, acc'[f]>>[1] = f
        BY <4>1
      <4>3. \A a \in DOMAIN DictF' : a[1] \in DOMAIN acc'
        BY <4>1
      <4> QED BY <4>2, <4>3
    <3> QED BY <1>1, <1>6, <3>1 DEF Docs, LastCall
  <2>4. PromisedStep(DOMAIN acc, DOMAIN acc', last') \/ UNCHANGED <<acc, last>>
    BY <2>1, Assumptions, MitraStep
  <2> QED BY <1>2, <2>2, <2>3, <2>4, PromiseKept
<1>7. CASE kind = "blocks"
  <2>1. Docs = TreeDocs /\ Docs' = TreeDocs'
    BY <1>1, <1>7 DEF Docs, TreeDocs
  <2>2. /\ LastCall = [op |-> B!CallNamed(last.op), arg |-> last.arg, blocks |-> last.found]
        /\ LastCall' = [op |-> B!CallNamed(last'.op), arg |-> last'.arg, blocks |-> last'.found]
    BY <1>1, <1>7 DEF LastCall
  <2>3. [TreePromise!Next]_TreePromise!indexVars
    BY <1>7, Assumptions, StepOfKind, TreePromiseStep DEF IndexesInv
  <2>4. PromisedStep(Docs, Docs', LastCall') \/ UNCHANGED <<Docs, LastCall>>
    BY <2>1, <2>2, <2>3 DEF TreePromise!Next, TreePromise!indexVars, TreePromise!Add, TreePromise!Remove,
                TreePromise!Search, TreePromise!Call, TreePromise!BlocksOf, PromisedStep, AllBlocks, Call
  <2> QED BY <1>2, <2>4, PromiseKept
<1>8. CASE kind = "packorion"
  <2>1. Docs = DOMAIN acc /\ Docs' = DOMAIN acc' /\ LastCall = last /\ LastCall' = last'
    BY <1>1, <1>8 DEF Docs, LastCall
  <2>2. PromisedStep(DOMAIN acc, DOMAIN acc', last') \/ UNCHANGED <<acc, last>>
    BY <1>8, Assumptions, StepOfKind, PackorionStep DEF IndexesInv
  <2> QED BY <1>2, <2>1, <2>2, PromiseKept
<1>9. CASE kind = "oriel"
  <2>1. Docs = DOMAIN acc /\ Docs' = DOMAIN acc' /\ LastCall = last /\ LastCall' = last'
    BY <1>1, <1>9 DEF Docs, LastCall
  <2>2. PromisedStep(DOMAIN acc, DOMAIN acc', last') \/ UNCHANGED <<acc, last>>
    BY <1>9, Assumptions, StepOfKind, OrielStep DEF IndexesInv
  <2> QED BY <1>2, <2>1, <2>2, PromiseKept
<1>10. CASE kind = "packseed"
  <2>1. Docs = TreeDocs /\ Docs' = TreeDocs' /\ LastCall = last /\ LastCall' = last'
    BY <1>1, <1>10 DEF Docs, LastCall, TreeDocs
  <2>2. PromisedStep(TreeDocs, TreeDocs', last') \/ UNCHANGED <<TreeDocs, last>>
    BY <1>10, Assumptions, StepOfKind, SeedStep DEF IndexesInv
  <2> QED BY <1>2, <2>1, <2>2, PromiseKept
<1>11. CASE kind \in {"borion", "btree", "orion2"}
  <2>1. UNCHANGED <<Docs, LastCall>>
    BY <1>1, <1>11 DEF Docs, LastCall
  <2> QED BY <1>2, <2>1
<1> QED BY <1>1, <1>3, <1>4, <1>5, <1>6, <1>7, <1>8, <1>9, <1>10, <1>11 DEF Kinds

\* Whichever way its entries are numbered, packed or moved, a search of an
\* index returns all the blocks of the files that were added with the keyword
\* and not removed, and only those: every Orion and Client class implements
\* SearchIndex.  What "btree" and "orion2" promise is PostingsSpec and
\* EntriesAreCurrent; a search of borion may miss files (NothingElseIsFound).
THEOREM EveryIndexKeepsItsPromise == MCSpec => EveryIndexSpec
<1>1. ASSUME IndexesInv, [MCNext]_allVars PROVE [Promise!Next]_Promise!indexVars
  BY <1>1, PromiseNext
<1>2. MCInit => Promise!Init
  BY PromiseInit
<1> QED BY <1>1, <1>2, IndexesInductive, PTL DEF MCSpec, MCNext, EveryIndexSpec, Promise!Spec
=============================================================================

----------------------------- MODULE MCIndexes ------------------------------
(***************************************************************************)
(* The keyword indexes of the variants, for TLC, over the same files.      *)
(* "dynamic": OrionIndex, files inserted and removed one by one (its own   *)
(* variables, which the other kinds leave alone, are the ones its theorem  *)
(* is about).  "static": OrionIndex, batch inserted, searched, removed.    *)
(* "morion", "borion": PackedIndex with the search of either.  "mitra":    *)
(* MitraClient.  "btree": BTreeIndex with removals.  "blocks": BTreeIndex  *)
(* with file blocks.  "orion2": Orion2Index, on the first three files,     *)
(* which come and go.  "packorion", "oriel": OrielIndex with two ids to a  *)
(* block and with one.  "packseed": PackedSeedIndex.                       *)
(***************************************************************************)
EXTENDS OrionIndex, Sequences

CONSTANTS COM, Prefix, Junk, MaxSearches, MaxEntries, MaxAccesses

VARIABLES
  kind,
  entries, stored, totals, updated,          \* the maps of "static" and (entries) of PackedIndex
  counts, acc, DictW, DictF,                 \* "mitra", "packorion" and "oriel"
  fcntbtree, tree                            \* "btree", "blocks", and stored
\* "orion2" has all the maps and counts, "packseed" entries and stored.

S == INSTANCE OrionIndex WITH srch <- entries, file <- stored, fcntbids <- totals, UpdtCnt <- updated
P == INSTANCE PackedIndex WITH srch <- entries
M == INSTANCE MitraClient
B == INSTANCE BTreeIndex WITH file <- stored

FirstFiles == 1 .. 3
FirstWords == SubSeq(Words, 1, 3)
FirstBlocks == SubSeq(Blocks, 1, 3)
O == INSTANCE Orion2Index WITH
  Files <- FirstFiles, Words <- FirstWords, Blocks <- FirstBlocks,
  UpdtCnt <- totals, LastIND <- counts, updt <- updated, srch <- entries, files <- stored
R == INSTANCE OrielIndex WITH I <- entries, ac <- acc
R1 == INSTANCE OrielIndex WITH COM <- 1, I <- entries, ac <- acc
MCSum == [w \in Keywords |-> w]
Q == INSTANCE PackedSeedIndex WITH
  Sum <- MCSum, indexleaves <- 7, fileleaves <- 3,
  localFC <- localFCNT, localBC <- localBCNT, srchmap <- entries, filenodes <- stored

MCKeywords == {11, 12, 13}
MCFiles == 1 .. 5
MCWords == <<{11, 12}, {12}, {11, 12}, {11, 12}, {11, 12}>>
MCBlocks == <<1, 2, 1, 1, 3>>
\* The first letters of the keywords, which differ.
MCPrefix == [w \in MCKeywords |-> w]

\* What MitraClient's entries need: no two keywords begin with the same seven
\* letters.
PrefixesDiffer == \A v, w \in Keywords : Prefix[v] = Prefix[w] => v = w

ASSUME MCIndexesAssumption ==
  /\ P!PackedAssumption /\ M!MitraAssumption /\ B!BTreeIndexAssumption /\ O!Orion2Assumption
  /\ R!OrielAssumption /\ R1!OrielAssumption /\ Q!PackedSeedAssumption /\ PrefixesDiffer

shared == <<local, ready, localFCNT, localBCNT, fcnt, last>>
dynamic == <<fcntbids, UpdtCnt, srch, file>>
maps2 == <<entries, stored, totals, updated>>
mitra == <<counts, acc, DictW, DictF>>
btree == <<fcntbtree, tree>>

\* The variables of the other kinds.
NoDynamic ==
  /\ fcntbids = [k \in Keywords \cup Files |-> 0]
  /\ UpdtCnt = [w \in Keywords |-> [f \in Files |-> 0]]
  /\ srch = [w \in Keywords |-> NoEntry] /\ file = [f \in Files |-> {}]
NoMaps == entries = NoEntry /\ stored = NoEntry /\ totals = NoEntry /\ updated = NoEntry
NoMitra == counts = NoEntry /\ acc = NoEntry /\ DictW = NoEntry /\ DictF = NoEntry
NoBtree == fcntbtree = NoEntry /\ tree = NoEntry
NoClient == localFCNT = [w \in Keywords |-> 0] /\ localBCNT = [f \in Files |-> 0] /\ fcnt = NoEntry

MCInit ==
  \/ kind = "dynamic" /\ Init /\ NoMaps /\ NoMitra /\ NoBtree
  \/ kind = "static" /\ S!Init /\ NoDynamic /\ NoMitra /\ NoBtree
  \/ /\ kind \in {"morion", "borion"} /\ P!Init /\ local = TRUE /\ fcnt = NoEntry
     /\ stored = NoEntry /\ totals = NoEntry /\ updated = NoEntry
     /\ NoDynamic /\ NoMitra /\ NoBtree
  \/ kind = "mitra" /\ M!Init /\ NoClient /\ NoDynamic /\ NoMaps /\ NoBtree
  \/ /\ kind \in {"btree", "blocks"} /\ B!Init /\ local = TRUE
     /\ localFCNT = [w \in Keywords |-> 0] /\ fcnt = NoEntry
     /\ entries = NoEntry /\ totals = NoEntry /\ updated = NoEntry
     /\ NoDynamic /\ NoMitra
  \/ /\ kind = "orion2" /\ O!Init /\ local = TRUE /\ NoClient
     /\ acc = NoEntry /\ DictW = NoEntry /\ DictF = NoEntry /\ NoDynamic /\ NoBtree
  \/ /\ kind \in {"packorion", "oriel"} /\ R!Init
     /\ localFCNT = [w \in Keywords |-> 0] /\ localBCNT = [f \in Files |-> 0]
     /\ stored = NoEntry /\ totals = NoEntry /\ updated = NoEntry
     /\ counts = NoEntry /\ DictW = NoEntry /\ NoDynamic /\ NoBtree
  \/ /\ kind = "packseed" /\ Q!Init /\ local = TRUE /\ fcnt = NoEntry
     /\ totals = NoEntry /\ updated = NoEntry /\ NoDynamic /\ NoMitra /\ NoBtree

Dynamic == kind = "dynamic" /\ UpdateNext /\ UNCHANGED <<kind, maps2, mitra, btree>>
Static ==
  /\ kind = "static"
  /\ S!StaticNext
  /\ UNCHANGED <<kind, dynamic, mitra, btree>>
Packed ==
  /\ \/ kind = "morion" /\ P!MorionNext
     \/ kind = "borion" /\ P!BorionNext
  /\ UNCHANGED <<kind, local, fcnt, stored, totals, updated, dynamic, mitra, btree>>
Mitra ==
  /\ kind = "mitra" /\ M!Next
  /\ UNCHANGED <<kind, localFCNT, localBCNT, fcnt, dynamic, maps2, btree>>
Btree ==
  /\ \/ kind = "btree" /\ B!Next
     \/ kind = "blocks" /\ B!BlocksNext
  /\ UNCHANGED <<kind, local, localFCNT, fcnt, entries, totals, updated, dynamic, mitra>>
Orion2 ==
  /\ kind = "orion2" /\ O!Next
  /\ UNCHANGED <<kind, local, localFCNT, localBCNT, fcnt, acc, DictW, DictF, dynamic, btree>>
Oriel ==
  /\ \/ kind = "packorion" /\ R!Next
     \/ kind = "oriel" /\ R1!Next
  /\ UNCHANGED <<kind, localFCNT, localBCNT, stored, totals, updated, counts, DictW, dynamic, btree>>
PackSeed ==
  /\ kind = "packseed" /\ Q!Next
  /\ UNCHANGED <<kind, local, fcnt, totals, updated, mitra, dynamic, btree>>

allVars == <<kind, shared, dynamic, maps2, mitra, btree>>
MCSpec == MCInit /\ [][Dynamic \/ Static \/ Packed \/ Mitra \/ Btree \/ Orion2 \/ Oriel \/ PackSeed]_allVars
-----------------------------------------------------------------------------
\* The files of the index, and the last call.
Docs ==
  CASE kind = "dynamic" -> Live
    [] kind = "static" -> S!Live
    [] kind \in {"packorion", "oriel"} -> DOMAIN acc
    [] kind \in {"morion", "blocks", "packseed"} -> {f \in Files : localBCNT[f] # 0}
    [] kind = "mitra" -> {a[1] : a \in DOMAIN DictF}
    [] OTHER -> {}

LastCall ==
  CASE kind \in {"borion", "btree", "orion2"} -> Call("none", "none", {})
    [] kind = "blocks" -> [op |-> B!CallNamed(last.op), arg |-> last.arg, blocks |-> last.found]
    [] OTHER -> last

\* A search returns all the blocks of the files that were added with the
\* keyword and not removed, and only those: whichever way its entries are
\* numbered, packed or moved (SearchIndex, of every Orion and Client class).
Promise == INSTANCE SearchIndex WITH docs <- Docs, last <- LastCall
EveryIndexSpec == Promise!Spec

\* The entries of each kind's maps are the files that were added and not
\* removed, each once, and where the client's counts say (PackedIndex,
\* BlocksAreFull, NothingElseIsFound; MitraClient, EntriesAreCurrent,
\* EntriesAreFiles, FileAtItsCount; Orion2Index, NumbersAreExact, FoundIsLive;
\* OrielIndex, FileAtItsCount, BlocksList; PackedSeedIndex, NodesAreFound).
EntriesAreCurrent ==
  /\ kind \in {"morion", "borion"} => P!BlocksAreFull
  /\ kind = "borion" => P!NothingElseIsFound
  /\ kind = "mitra" => M!EntriesAreCurrent /\ M!EntriesAreFiles /\ M!FileAtItsCount
  /\ kind = "orion2" => O!NumbersAreExact /\ O!FoundIsLive
  /\ kind = "packorion" => R!FileAtItsCount /\ R!BlocksList
  /\ kind = "oriel" => R1!FileAtItsCount /\ R1!BlocksList
  /\ kind = "packseed" => Q!NodesAreFound

\* The key a keyword's next file gets is not in the B-tree, and a search of
\* it lists a file once (BTreeIndex, NextKeyIsFree, EachOnce).
NextKeyIsFree == kind \in {"btree", "blocks"} => B!NextKeyIsFree /\ B!EachOnce

\* A search of the B-tree's index returns the ids of the files added with the
\* keyword since it was last removed (Postings).
NoCall == [op |-> "none", arg |-> "none", found |-> {}]
Posted == IF kind = "btree" THEN B!Posted ELSE [w \in Keywords |-> {}]
Ids == INSTANCE Postings WITH postings <- Posted, last <- IF kind = "btree" THEN last ELSE NoCall
PostingsSpec == Ids!Spec
=============================================================================

---------------------------- MODULE PackedIndex -----------------------------
(***************************************************************************)
(* The packed index of the borion and morion variants (classes BOrion and  *)
(* MOrion): one map srch holds the blocks of the files and, under          *)
(* <<keyword, b>>, the ids COM*(b-1)+1 .. COM*b of the files with the      *)
(* keyword, the last block being filled up with "########".                *)
(*                                                                         *)
(* The answers of srch->batchSearch() come in the order in which the walk  *)
(* of the AVL tree meets them, a node before its children.  A search that  *)
(* takes the ids of the blocks in that order must expect the block that is *)
(* not full anywhere.                                                      *)
(***************************************************************************)
EXTENDS Integers, FiniteSets, SequencesExt

CONSTANTS Keywords, Files,    \* names in the order of their bytes: files first
  Words, Blocks,              \* the keywords and the number of blocks of a file
  COM                         \* file ids in a block

VARIABLES
  ready,                      \* endSetup() was called
  localFCNT, localBCNT,       \* the client's counters
  srch,                       \* the map (srchmap until endSetup())
  last                        \* the last call and the blocks it returned

vars == <<ready, localFCNT, localBCNT, srch, last>>

Pad == 0                      \* "########", which stoI() reads as 0
NoEntry == [k \in {} |-> {}]

PackedAssumption ==
  /\ Keywords \cup Files \subseteq Nat \ {Pad} /\ COM \in Nat \ {0}
  /\ \A f \in Files, w \in Keywords : f < w
  /\ IsFiniteSet(Keywords \cup Files) /\ Words \in [Files -> SUBSET Keywords] /\ Blocks \in [Files -> Nat \ {0}]

Call(op, arg, blocks) == [op |-> op, arg |-> arg, blocks |-> blocks]
-----------------------------------------------------------------------------
(***************************************************************************)
(* Setup.                                                                  *)
(***************************************************************************)
get_block_num(updc) == IF updc % COM = 0 THEN updc \div COM ELSE updc \div COM + 1

get_position(updc) == IF updc % COM = 0 THEN COM ELSE updc % COM

\* The block of keyword w after the id of f is written into it as the
\* updc-th: a new one, or an old one with the place overwritten.
Packed(w, f, updc) ==
  LET p == get_position(updc)
      old == IF p = 1 THEN [i \in 1 .. COM |-> Pad] ELSE srch[<<w, get_block_num(updc)>>]
  IN  [old EXCEPT ![p] = f]

setupinsert(f) ==
  /\ ~ready /\ localBCNT[f] = 0
  /\ LET updc(w) == localFCNT[w] + 1
         new == {<<w, get_block_num(updc(w))>> : w \in Words[f]}
         blocks == {f} \X (1 .. Blocks[f])
     IN  /\ srch' = [k \in DOMAIN srch \cup new \cup blocks |->
                       IF k \in new THEN Packed(k[1], f, updc(k[1]))
                       ELSE IF k \in blocks THEN <<f>> ELSE srch[k]]
         /\ localFCNT' = [w \in Keywords |-> IF w \in Words[f] THEN updc(w) ELSE localFCNT[w]]
  /\ localBCNT' = [localBCNT EXCEPT ![f] = Blocks[f]]
  /\ last' = Call("add", f, {})
  /\ UNCHANGED ready

endSetup ==
  /\ ~ready /\ ready' = TRUE
  /\ UNCHANGED <<localFCNT, localBCNT, srch, last>>
-----------------------------------------------------------------------------
(***************************************************************************)
(* Searches.                                                               *)
(***************************************************************************)
\* The order of Bid::operator<.
Before(j, k) == j[1] < k[1] \/ (j[1] = k[1] /\ j[2] < k[2])

Sorted(S) ==
  [i \in 1 .. Cardinality(S) |-> CHOOSE k \in S : Cardinality({j \in S : Before(j, k)}) = i - 1]

\* The walk of AVLTree::batchSearch() through the tree sortedArrayToBST()
\* makes of the sorted keys s.
Preorder(s) ==
  LET walk[r \in (1 .. Len(s) + 1) \X (0 .. Len(s))] ==
        IF r[1] > r[2] THEN <<>>
        ELSE LET mid == (r[1] + r[2]) \div 2
             IN  <<s[mid]>> \o walk[<<r[1], mid - 1>>] \o walk[<<mid + 1, r[2]>>]
  IN  walk[<<1, Len(s)>>]

Ascending(S) ==
  [i \in 1 .. Cardinality(S) |-> CHOOSE x \in S : Cardinality({y \in S : y < x}) = i - 1]

\* The keys of w, in the order in which the walk meets them.
KeysMet(w) ==
  LET walk == Preorder(Sorted(DOMAIN srch))
      steps == {i \in DOMAIN walk : walk[i] \in {w} \X (1 .. get_block_num(localFCNT[w]))}
  IN  [i \in 1 .. Cardinality(steps) |-> walk[Ascending(steps)[i]]]

\* The places of the blocks of w, in the order their blocks are returned.
Places(w) ==
  LET keys == KeysMet(w)
  IN  [n \in 1 .. COM * Len(keys) |-> srch[keys[get_block_num(n)]][get_position(n)]]

\* The ids in the first n of some places.
FirstIds(places, some, n) ==
  {places[i] : i \in {j \in some : Cardinality({k \in some : k <= j}) <= n}}

Answer(w, ids) ==
  LET keys == UNION {{f} \X (1 .. localBCNT[f]) : f \in ids \cap Files}
  IN  /\ last' = Call("search", w, keys \cap DOMAIN srch)
      /\ UNCHANGED <<ready, localFCNT, localBCNT, srch>>

\* Mutant: a place that is filled up counts as an id.
Filled_All(places) == DOMAIN places

\* if(str == "########") continue;
Filled(places) == {i \in DOMAIN places : places[i] # Pad}

\* MOrion::simplebatchSearch() passes over the places that are filled up.
simplebatchSearch(w) ==
  ready /\ LET places == Places(w) IN Answer(w, FirstIds(places, Filled(places), localFCNT[w]))

\* BOrion::batchSearch() (and MOrion's) takes the first localFCNT[w] places.
batchSearch(w) ==
  ready /\ LET places == Places(w) IN Answer(w, FirstIds(places, DOMAIN places, localFCNT[w]))
-----------------------------------------------------------------------------
Init ==
  /\ ready = FALSE
  /\ localFCNT = [w \in Keywords |-> 0] /\ localBCNT = [f \in Files |-> 0]
  /\ srch = NoEntry /\ last = Call("none", 0, {})

SetupNext == endSetup \/ \E f \in Files : setupinsert(f)

\* The programs of the two variants differ in the search they call.
MorionNext == SetupNext \/ \E w \in Keywords : simplebatchSearch(w)
BorionNext == SetupNext \/ \E w \in Keywords : batchSearch(w)
MorionSpec == Init /\ [][MorionNext]_vars
BorionSpec == Init /\ [][BorionNext]_vars
-----------------------------------------------------------------------------
(***************************************************************************)
(* Correctness.                                                            *)
(***************************************************************************)
Ids(k) == {srch[k][i] : i \in 1 .. COM} \ {Pad}

\* The blocks of a keyword list its files, each once, and only the last has
\* places filled up (setupinsertkw).
BlocksAreFull ==
  \A w \in Keywords :
    LET n == get_block_num(localFCNT[w])
        with == {f \in Files : localBCNT[f] # 0 /\ w \in Words[f]}
    IN  /\ localFCNT[w] = Cardinality(with)
        /\ {b \in 1 .. Cardinality(Files) : <<w, b>> \in DOMAIN srch} = 1 .. n
        /\ UNION {Ids(<<w, b>>) : b \in 1 .. n} = with
        /\ \A b \in 1 .. n - 1 : Pad \notin Range(srch[<<w, b>>])

\* borion's search may miss files of the keyword when the block that is not
\* full comes first; it returns whole files, and no other's (batchSearch).
NothingElseIsFound ==
  last.op = "search" =>
    \E S \in SUBSET {f \in Files : localBCNT[f] # 0 /\ last.arg \in Words[f]} :
      last.blocks = UNION {{f} \X (1 .. Blocks[f]) : f \in S}
=============================================================================

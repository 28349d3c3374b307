-------------------------- MODULE PackedSeedIndex ---------------------------
(***************************************************************************)
(* The index of the packzorionsq variant, and of mzorion, which puts both  *)
(* kinds of node into one store (class Orion of either).  The ids of a     *)
(* keyword's files are packed, COM to a node; a node's leaf is computed    *)
(* from the keyword or file, a counter of searches and the node's number.  *)
(* The lines that advance those counters and write back what a search read *)
(* are commented out: localSC and localAC stay 0 and the stores what       *)
(* setup made them.                                                        *)
(*                                                                         *)
(* A store finds a node by its key and leaf, as module StashORAM shows.    *)
(***************************************************************************)
EXTENDS Integers, FiniteSets

CONSTANTS Keywords, Files,
  Words, Blocks,    \* the keywords and the number of blocks of a file
  COM,              \* file ids in a node
  Sum,              \* Sum[w]: the sum of the characters of w
  indexleaves, fileleaves

VARIABLES
  ready,              \* endSetup() was called
  localFC, localBC,   \* the client's counters: files of a keyword, blocks of a file
  srchmap,            \* (then the store srch) key -> the node's ids and leaf
  filenodes,          \* (then the store fileoram) key -> the node's leaf
  last                \* the last call and the blocks it returned

vars == <<ready, localFC, localBC, srchmap, filenodes, last>>

Free == 0       \* the bytes a new node is filled with
localSC == 0
localAC == 0

PackedSeedAssumption ==
  /\ Files \subseteq Nat \ {Free} /\ COM \in Nat \ {0}
  /\ Words \in [Files -> SUBSET Keywords] /\ Blocks \in [Files -> Nat \ {0}]
  /\ Sum \in [Keywords -> Nat] /\ indexleaves \in Nat \ {0} /\ fileleaves \in Nat \ {0}

NoEntry == [k \in {} |-> {}]
Override(f, g) == [x \in DOMAIN f \cup DOMAIN g |-> IF x \in DOMAIN g THEN g[x] ELSE f[x]]
Call(op, arg, blocks) == [op |-> op, arg |-> arg, blocks |-> blocks]

RandomPath(id, cntr1, cntr2, leaves) ==
  (id + (cntr1 + 1) * (11 % leaves) + ((cntr2 * 99) % leaves)) % leaves

RandomSeedPath(w, cntr1, cntr2) ==
  (Sum[w] + (cntr1 + 1) * (11 % indexleaves) + ((cntr2 * 99) % indexleaves)) % indexleaves

get_block_num(updc) == IF updc % COM = 0 THEN updc \div COM ELSE updc \div COM + 1
get_position(updc) == IF updc % COM = 0 THEN COM ELSE updc % COM
-----------------------------------------------------------------------------
Init ==
  /\ ready = FALSE
  /\ localFC = [w \in Keywords |-> 0] /\ localBC = [f \in Files |-> 0]
  /\ srchmap = NoEntry /\ filenodes = NoEntry
  /\ last = Call("none", 0, {})

createBid(w, n) == <<w, n>>
KeyFor(w) == createBid(w, get_block_num(localFC[w] + 1))

\* Mutant: a node that takes another id gets the leaf of the next one.
kwnode_NextLeaf(w, f) ==
  LET p == get_position(localFC[w] + 1)
      old == IF p = 1 THEN [i \in 1 .. COM |-> Free] ELSE srchmap[KeyFor(w)].ids
  IN  [ids |-> [old EXCEPT ![p] = f],
       pos |-> RandomSeedPath(w, localSC, get_block_num(localFC[w] + 2))]

\* The node of w with the id of f: a new one, or the old one copied.
kwnode(w, f) ==
  LET p == get_position(localFC[w] + 1)
      old == IF p = 1 THEN [i \in 1 .. COM |-> Free] ELSE srchmap[KeyFor(w)].ids
  IN  [ids |-> [old EXCEPT ![p] = f],
       pos |-> RandomSeedPath(w, localSC, get_block_num(localFC[w] + 1))]

batchInsert(f) ==
  /\ ~ready /\ localBC[f] = 0
  /\ srchmap' = Override(srchmap, [k \in {KeyFor(w) : w \in Words[f]} |-> kwnode(k[1], f)])
  /\ localFC' = [w \in Keywords |-> IF w \in Words[f] THEN localFC[w] + 1 ELSE localFC[w]]
  /\ localBC' = [localBC EXCEPT ![f] = Blocks[f]]
  /\ filenodes' = Override(filenodes,
       [k \in {f} \X (1 .. Blocks[f]) |-> RandomPath(f, localAC, k[2], fileleaves)])
  /\ last' = Call("add", f, {})
  /\ UNCHANGED ready

endSetup == ~ready /\ ready' = TRUE /\ UNCHANGED <<localFC, localBC, srchmap, filenodes, last>>

\* Places of the n-th node of w that are read: all, or what is left of
\* localFC[w] in the last one.
Places(w, n) == {i \in 1 .. COM : (n - 1) * COM + i <= localFC[w]}

\* The ids read, node by node.
result(w) ==
  UNION {{srchmap[createBid(w, n)].ids[i] : i \in Places(w, n)} : n \in 1 .. get_block_num(localFC[w])}

\* The blocks that ReadFnode() finds by their keys and leaves.
conts(ids) ==
  {k \in UNION {{f} \X (1 .. localBC[f]) : f \in ids} :
     k \in DOMAIN filenodes /\ filenodes[k] = RandomPath(k[1], localAC, k[2], fileleaves)}

simplebatchSearch(w) ==
  /\ ready
  /\ last' = Call("search", w, conts(result(w)))
  /\ UNCHANGED <<ready, localFC, localBC, srchmap, filenodes>>

Next ==
  \/ endSetup
  \/ \E f \in Files : batchInsert(f)
  \/ \E w \in Keywords : simplebatchSearch(w)

Spec == Init /\ [][Next]_vars
-----------------------------------------------------------------------------
(***************************************************************************)
(* Correctness.                                                            *)
(***************************************************************************)
\* Every node a search will ask for is there, on the leaf it will be looked
\* for, however many ids were packed into it since it was made; no id is
\* read twice and no free place is (batchInsert, simplebatchSearch).
NodesAreFound ==
  \A w \in Keywords :
    LET n == get_block_num(localFC[w]) IN
    /\ {k \in DOMAIN srchmap : k[1] = w} = {createBid(w, b) : b \in 1 .. n}
    /\ \A b \in 1 .. n : srchmap[createBid(w, b)].pos = RandomSeedPath(w, localSC, b)
    /\ result(w) = {f \in Files : localBC[f] # 0 /\ w \in Words[f]}
    /\ Cardinality(result(w)) = localFC[w]
=============================================================================

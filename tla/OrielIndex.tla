----------------------------- MODULE OrielIndex -----------------------------
(***************************************************************************)
(* The index of the packorion and oriel variants (class Oriel).  The map I *)
(* has the ids of a keyword's files, COM to a block, the last block filled *)
(* up with "######"; oriel's blocks take one id.  fcnt counts the ids,     *)
(* which oriel keeps in I itself.  The files are lists of the server at an *)
(* address derived from the id and the number of accesses to it, so every  *)
(* search that finds a file moves it.                                      *)
(*                                                                         *)
(* An address is the pair it is derived from, and the oblivious maps are   *)
(* dictionaries here; the answers of I->batchSearch() come in any order of *)
(* the blocks.                                                             *)
(***************************************************************************)
EXTENDS Integers, FiniteSets, SequencesExt

CONSTANTS Keywords, Files,
  Words, Blocks,    \* the keywords and the number of blocks of a file
  COM,              \* file ids in a block
  MaxAccesses       \* bound on the searches that find a file

VARIABLES
  local,      \* whether the client keeps the access counts
  ready,      \* endSetup() was called
  fcnt,       \* (fcntmap at setup) keyword -> number of its ids
  I,          \* (Imap at setup) <<keyword, block>> -> ids
  ac,         \* localAC, or the map ac (acmap at setup): file -> access count
  DictF,      \* blocks of a file by address
  last        \* the last call and the blocks it returned

vars == <<local, ready, fcnt, I, ac, DictF, last>>

Pad == 0      \* "######"
NoEntry == [k \in {} |-> {}]

OrielAssumption ==
  /\ Files \subseteq Nat \ {Pad} /\ COM \in Nat \ {0} /\ MaxAccesses \in Nat
  /\ Words \in [Files -> SUBSET Keywords] /\ Blocks \in [Files -> Nat \ {0}]

Override(f, g) == [x \in DOMAIN f \cup DOMAIN g |-> IF x \in DOMAIN g THEN g[x] ELSE f[x]]
Call(op, arg, blocks) == [op |-> op, arg |-> arg, blocks |-> blocks]

Init ==
  /\ local \in BOOLEAN /\ ready = FALSE
  /\ fcnt = NoEntry /\ I = NoEntry /\ ac = NoEntry /\ DictF = NoEntry
  /\ last = Call("none", 0, {})
-----------------------------------------------------------------------------
(***************************************************************************)
(* Setup: insertWrapper(f, batch).                                         *)
(***************************************************************************)
get_block_num(updc) == IF updc % COM = 0 THEN updc \div COM ELSE updc \div COM + 1
get_position(updc) == IF updc % COM = 0 THEN COM ELSE updc % COM

Count(w) == IF w \in DOMAIN fcnt THEN fcnt[w] ELSE 0
Address(f, accsCnt) == <<f, accsCnt>>

\* The block of w with the id of f in its place.
setupInsertkw(w, f) ==
  LET p == get_position(Count(w) + 1)
      oldblock == IF p = 1 THEN [i \in 1 .. COM |-> Pad] ELSE I[<<w, get_block_num(Count(w) + 1)>>]
  IN  [oldblock EXCEPT ![p] = f]

insertFile(f) ==
  /\ ac' = Override(ac, [g \in {f} |-> 1])
  /\ DictF' = Override(DictF, [a \in {Address(f, 1)} |-> 1 .. Blocks[f]])

Insert(f) ==
  /\ ~ready /\ f \notin DOMAIN ac
  /\ I' = Override(I, [k \in {<<w, get_block_num(Count(w) + 1)>> : w \in Words[f]} |->
                         setupInsertkw(k[1], f)])
  /\ fcnt' = Override(fcnt, [w \in Words[f] |-> Count(w) + 1])
  /\ insertFile(f)
  /\ last' = Call("add", f, {})
  /\ UNCHANGED <<local, ready>>

endSetup == ~ready /\ ready' = TRUE /\ UNCHANGED <<local, fcnt, I, ac, DictF, last>>
-----------------------------------------------------------------------------
(***************************************************************************)
(* Searches.                                                               *)
(***************************************************************************)
\* The first Count(w) ids of the blocks, in the order they are returned,
\* places that are filled up passed over.
filind(w, order) ==
  LET place(n) == I[order[get_block_num(n)]][get_position(n)]
      filled == {n \in 1 .. COM * Len(order) : place(n) # Pad}
  IN  {place(n) : n \in {j \in filled : Cardinality({k \in filled : k <= j}) <= Count(w)}}

\* Mutant: the file is left at the address it was read from.
Moved_Not(ids) == DictF

\* DictF after each file has moved to the address of its next access.
Moved(ids) ==
  Override([a \in DOMAIN DictF \ {Address(f, ac[f]) : f \in ids} |-> DictF[a]],
           [a \in {Address(f, ac[f] + 1) : f \in ids} |-> DictF[Address(a[1], a[2] - 1)]])

\* findAndIncrement(), or localAC[ind]=(++accsCnt), of each file.
Incremented(ids) == [f \in DOMAIN ac |-> IF f \in ids THEN ac[f] + 1 ELSE ac[f]]

ReadFiles(w, ids) ==
  /\ \A f \in ids : ac[f] <= MaxAccesses
  /\ last' = Call("search", w, UNION {{f} \X DictF[Address(f, ac[f])] : f \in ids})
  /\ DictF' = Moved(ids) /\ ac' = Incremented(ids)
  /\ UNCHANGED <<local, ready, fcnt, I>>

KeysOf(w) == {<<w, b>> : b \in 1 .. get_block_num(Count(w))}

\* localbatchSearch() (oriel: simplebatchSearch()), if local.
localbatchSearch(w) ==
  /\ ready /\ local
  /\ \E order \in SetToSeqs(KeysOf(w)) : ReadFiles(w, filind(w, order))

\* batchSearch(), if not.
batchSearch(w) ==
  /\ ready /\ ~local
  /\ \E order \in SetToSeqs(KeysOf(w)) : ReadFiles(w, filind(w, order))

Next ==
  \/ endSetup
  \/ \E f \in Files : Insert(f)
  \/ \E w \in Keywords : localbatchSearch(w) \/ batchSearch(w)

Spec == Init /\ [][Next]_vars
-----------------------------------------------------------------------------
(***************************************************************************)
(* Correctness.                                                            *)
(***************************************************************************)
\* However often its keywords were searched, a file is at one address, the
\* one its access count gives, with all its blocks (insertFile, the searches).
FileAtItsCount ==
  /\ DOMAIN DictF = {Address(f, ac[f]) : f \in DOMAIN ac}
  /\ \A a \in DOMAIN DictF : DictF[a] = 1 .. Blocks[a[1]]

\* The blocks of a keyword list its files, each once (setupInsertkw).
BlocksList ==
  \A w \in Keywords :
    LET with == {f \in DOMAIN ac : w \in Words[f]}
        ids(b) == {I[<<w, b>>][i] : i \in 1 .. COM} \ {Pad}
    IN  /\ Count(w) = Cardinality(with)
        /\ {k \in DOMAIN I : k[1] = w} = KeysOf(w)
        /\ UNION {ids(b) : b \in 1 .. get_block_num(Count(w))} = with
=============================================================================

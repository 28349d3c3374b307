----------------------------- MODULE BTreeIndex -----------------------------
(***************************************************************************)
(* The keyword index of the B-tree variants (class Orion of btree, and of  *)
(* wfilebtree, twowfilebtree and eight, which keep file blocks besides and *)
(* remove nothing).  The i-th file of a keyword is the value of the key    *)
(* <<keyword, i>>, in a map of the client until endSetup() and in the      *)
(* B-tree after; fcntbtree counts them and is not reset by remove.         *)
(*                                                                         *)
(* The B-trees are dictionaries here, as module BTree shows of them, and   *)
(* the padding keys setup adds are left out: operator++ counts in the byte *)
(* that is worth 2^24 in createBid's number and carries into the one below *)
(* it, so the first 255 of them are none of a keyword's and a later one    *)
(* only of a keyword with 65,536 files.                                    *)
(***************************************************************************)
EXTENDS Integers

CONSTANTS Keywords, Files,
  Words,        \* Words[f]: getUniquedWords() of the content of f
  Blocks,       \* Blocks[f]: the length of divideString() of it
  MaxEntries    \* bound on the files inserted with a keyword

VARIABLES
  ready,        \* endSetup() was called
  fcntbtree,    \* keyword -> number of its last file
  tree,         \* (setup, then the B-tree) key -> file
  localBCNT,    \* file -> number of its blocks
  file,         \* (setupfile, then fileHandler's tree) blocks stored of a file
  last          \* the last call and the file ids it found
                \* (searchBlocks: and their blocks)

vars == <<ready, fcntbtree, tree, localBCNT, file, last>>

BTreeIndexAssumption ==
  /\ Words \in [Files -> SUBSET Keywords] /\ Blocks \in [Files -> Nat \ {0}]
  /\ 0 \notin Files /\ MaxEntries \in Nat

NoEntry == [k \in {} |-> 0]
Override(f, g) == [x \in DOMAIN f \cup DOMAIN g |-> IF x \in DOMAIN g THEN g[x] ELSE f[x]]
Call(op, arg, found) == [op |-> op, arg |-> arg, found |-> found]

createBid(w, i) == <<w, i>>
Numbers(w) == 1 .. fcntbtree[w]

Init ==
  /\ ready = FALSE
  /\ fcntbtree = [w \in Keywords |-> 0] /\ tree = NoEntry
  /\ localBCNT = [f \in Files |-> 0] /\ file = [f \in Files |-> {}]
  /\ last = Call("none", "none", {})
-----------------------------------------------------------------------------
NextKey(w) == createBid(w, fcntbtree[w] + 1)

\* Mutant: the count is not stored.
NewCount_Same(w) == fcntbtree[w]

NewCount(w) == fcntbtree[w] + 1

\* setupInsert() before endSetup(), insert() after it: the same on the maps
\* of the client and on the trees.  The driver uses a file id once.
Insert(f) ==
  /\ localBCNT[f] = 0
  /\ \A w \in Words[f] : fcntbtree[w] < MaxEntries
  /\ fcntbtree' = [w \in Keywords |-> IF w \in Words[f] THEN NewCount(w) ELSE fcntbtree[w]]
  /\ tree' = Override(tree, [k \in {NextKey(w) : w \in Words[f]} |-> f])
  /\ localBCNT' = [localBCNT EXCEPT ![f] = Blocks[f]]
  /\ file' = [file EXCEPT ![f] = 1 .. Blocks[f]]
  /\ last' = Call("insert", f, {})
  /\ UNCHANGED ready

EndSetup ==
  /\ ~ready /\ ready' = TRUE
  /\ UNCHANGED <<fcntbtree, tree, localBCNT, file, last>>

\* Mutant: the entry with the last number is left.
Removed_ButLast(w) == {createBid(w, i) : i \in 1 .. fcntbtree[w] - 1}

Removed(w) == {createBid(w, i) : i \in Numbers(w)}

\* remove() of btree: one removal from the tree for every number given out.
Remove(w) ==
  /\ ready
  /\ tree' = [k \in DOMAIN tree \ Removed(w) |-> tree[k]]
  /\ last' = Call("remove", w, {})
  /\ UNCHANGED <<ready, fcntbtree, localBCNT, file>>
-----------------------------------------------------------------------------
\* BTree::search() of each number, 0 for what is not there.
Results(w) ==
  [i \in Numbers(w) |-> IF createBid(w, i) \in DOMAIN tree THEN tree[createBid(w, i)] ELSE 0]

Ids(s) == {s[i] : i \in DOMAIN s}

\* What search() returns: the results that are not 0.
SearchResults(w) == Ids(Results(w)) \ {0}

Search(w) ==
  /\ ready
  /\ last' = Call("search", w, SearchResults(w))
  /\ UNCHANGED <<ready, fcntbtree, tree, localBCNT, file>>

\* search() of the variants with file blocks: the blocks of the files found.
SearchBlocks(w) ==
  /\ ready
  /\ last' = Call("searchBlocks", w,
                  UNION {{f} \X (file[f] \cap (1 .. localBCNT[f])) : f \in SearchResults(w)})
  /\ UNCHANGED <<ready, fcntbtree, tree, localBCNT, file>>

\* batchSearch() returns the zeros too.
BatchSearch(w) ==
  /\ ready
  /\ last' = Call("batchSearch", w, Ids(Results(w)))
  /\ UNCHANGED <<ready, fcntbtree, tree, localBCNT, file>>

UpdateNext == EndSetup \/ \E f \in Files : Insert(f)

\* btree, and the variants with file blocks.
Next == UpdateNext \/ \E w \in Keywords : Remove(w) \/ Search(w) \/ BatchSearch(w)
Spec == Init /\ [][Next]_vars

BlocksNext == UpdateNext \/ \E w \in Keywords : SearchBlocks(w)
BlocksSpec == Init /\ [][BlocksNext]_vars

-----------------------------------------------------------------------------
(***************************************************************************)
(* Correctness.                                                            *)
(***************************************************************************)
\* The number a keyword's next file will get was never given out: a key of
\* the tree is never inserted twice, which the B-tree relies on, also after
\* removals (insert, setupInsert, remove).
NextKeyIsFree == \A w \in Keywords : NextKey(w) \notin DOMAIN tree

\* After any insertions before and after setup and removals in any order, no
\* two numbers of a keyword have the same file: the list a search returns has
\* it once (search, remove).
EachOnce ==
  \A w \in Keywords : \A i, j \in Numbers(w) :
    Results(w)[i] = Results(w)[j] /\ Results(w)[i] # 0 => i = j

\* The ids of the files added with a keyword since it was last removed.
Posted == [w \in Keywords |-> {tree[k] : k \in {j \in DOMAIN tree : j[1] = w}}]

\* The names SearchIndex has for the calls of the variants with file blocks.
CallNamed(op) == CASE op = "insert" -> "add" [] op = "searchBlocks" -> "search" [] OTHER -> op
=============================================================================

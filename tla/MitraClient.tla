----------------------------- MODULE MitraClient ----------------------------
(***************************************************************************)
(* The mitra variant (classes Client and Server, with deleteFiles set, as  *)
(* its driver does).  Entry i of a keyword is stored by the server in      *)
(* DictW, at an address derived from the keyword, the number of searches   *)
(* for it and i; a search takes the entries out and puts them back under   *)
(* its next number.  A file is in DictF, at an address derived from its id *)
(* and the number of searches that found it.                               *)
(*                                                                         *)
(* An address is the triple it is derived from: the derivation is a        *)
(* pseudo-random function of 16 bytes, into which getAESRandomValue writes *)
(* the two numbers from byte 7 on, so that of a keyword the first seven    *)
(* letters count, Prefix[w].  What is stored under a keyword decodes to    *)
(* the id it was made of.                                                  *)
(***************************************************************************)
EXTENDS Integers, FiniteSets

CONSTANTS Keywords,
  Files,         \* file ids
  Words,         \* Words[f]: getUniquedWords() of the content of f
  Blocks,        \* Blocks[f]: the length of the list insertFile() makes of it
  Prefix,        \* Prefix[w]: the first seven letters of w
  Junk,          \* ids of no file, which an entry that is not there decodes to
  MaxSearches    \* bound on the searches for a keyword

VARIABLES
  local,      \* whether the client keeps the counters
  ready,      \* endSetup() was called
  counts,     \* localFC and localSC, or the map omap (setupOMAP at setup)
  acc,        \* accCnt, or the map ac (setupAC at setup)
  DictW,      \* Server::DictW: id of a file by address
  DictF,      \* blocks of a file by address
  last        \* the last call and the blocks it returned

vars == <<local, ready, counts, acc, DictW, DictF, last>>

MitraAssumption ==
  /\ Files \subseteq Nat /\ Junk \subseteq Nat \ Files /\ IsFiniteSet(Files \cup Junk)
  /\ Words \in [Files -> SUBSET Keywords] /\ Blocks \in [Files -> Nat \ {0}]
  /\ DOMAIN Prefix = Keywords /\ MaxSearches \in Nat

Override(f, g) == [x \in DOMAIN f \cup DOMAIN g |-> IF x \in DOMAIN g THEN g[x] ELSE f[x]]
Call(op, arg, blocks) == [op |-> op, arg |-> arg, blocks |-> blocks]
-----------------------------------------------------------------------------
Count(w) == IF w \in DOMAIN counts THEN counts[w] ELSE [fc |-> 0, sc |-> 0]

\* getAESRandomValue(): the address of entry i of w after sc searches.
Address(w, sc, i) == <<Prefix[w], sc, i>>

\* Where insert() puts the next file with w.
Entry(w) == Address(w, Count(w).sc, Count(w).fc + 1)

\* The driver's insert() and insertFile() of a file; ids are used once.
Insert(f) ==
  /\ f \notin DOMAIN acc
  /\ counts' = Override(counts, [w \in Words[f] |-> [Count(w) EXCEPT !.fc = @ + 1]])
  /\ DictW' = Override(DictW, [a \in {Entry(w) : w \in Words[f]} |-> f])
  /\ acc' = Override(acc, [g \in {f} |-> 1])
  /\ DictF' = Override(DictF, [a \in {<<f, 1>>} |-> 1 .. Blocks[f]])
  /\ last' = Call("add", f, {})
  /\ UNCHANGED <<local, ready>>

EndSetup == ~ready /\ ready' = TRUE /\ UNCHANGED <<local, counts, acc, DictW, DictF, last>>
-----------------------------------------------------------------------------
(***************************************************************************)
(* search()                                                                *)
(***************************************************************************)
\* The ids Server::search() finds; an address without entry reads as zeros.
Asked(w) == {Address(w, Count(w).sc, i) : i \in 1 .. Count(w).fc}
Found(w) == {DictW[a] : a \in Asked(w) \cap DOMAIN DictW}
Garbage(w) == IF Asked(w) \subseteq DOMAIN DictW THEN {{}} ELSE SUBSET Junk

\* ids in ascending order, as the map "remove" gives them.
Ascending(ids) ==
  [i \in 1 .. Cardinality(ids) |-> CHOOSE x \in ids : Cardinality({y \in ids : y < x}) = i - 1]

\* The entries of w as the search puts them back.
PutBack(w, ids) ==
  LET n == Cardinality(ids) IN
  [a \in {Address(w, Count(w).sc + 1, i) : i \in 1 .. n} |-> Ascending(ids)[a[3]]]

\* Mutant: what was found is not erased.
Erased_Not(w) == DictW

\* DictW after Server::search(), which erases what it returns.
Erased(w) == [a \in DOMAIN DictW \ Asked(w) |-> DictW[a]]

\* Accesses to id so far; without local counters an id that ac does not have
\* is passed over.
Acc(id) == IF id \in DOMAIN acc THEN acc[id] ELSE 0
Accessed(ids) == IF local THEN ids ELSE ids \cap DOMAIN acc
Contents(ids) == {<<id, Acc(id)>> : id \in ids} \cap DOMAIN DictF

\* DictF without the files that move.
Remaining(old) == [a \in DOMAIN DictF \ old |-> DictF[a]]

MoveFiles(ids) ==
  LET old == Contents(ids)
      new == {<<a[1], a[2] + 1>> : a \in old}
  IN  DictF' = Override(Remaining(old), [a \in new |-> DictF[<<a[1], a[2] - 1>>]])

Search(w) ==
  /\ ready /\ w \in DOMAIN counts /\ Count(w).sc < MaxSearches
  /\ \E garbage \in Garbage(w) :
       LET ids == Found(w) \cup garbage
           read == Accessed(ids)
       IN  /\ DictW' = Override(Erased(w), PutBack(w, ids))
           /\ counts' = [counts EXCEPT ![w] = [fc |-> IF local THEN @.fc ELSE Cardinality(ids),
                                               sc |-> @.sc + 1]]
           /\ acc' = Override(acc, [id \in read |-> Acc(id) + 1])
           /\ MoveFiles(read)
           /\ last' = Call("search", w, UNION {{a[1]} \X DictF[a] : a \in Contents(read)})
  /\ UNCHANGED <<local, ready>>

SearchUnknown(w) ==
  /\ ready /\ w \notin DOMAIN counts
  /\ last' = Call("search", w, {})
  /\ UNCHANGED <<local, ready, counts, acc, DictW, DictF>>
-----------------------------------------------------------------------------
NoEntry == [a \in {} |-> {}]

Init ==
  /\ local \in BOOLEAN /\ ready = FALSE
  /\ counts = NoEntry /\ acc = NoEntry /\ DictW = NoEntry /\ DictF = NoEntry
  /\ last = Call("none", 0, {})

Next ==
  \/ EndSetup
  \/ \E f \in Files : Insert(f)
  \/ \E w \in Keywords : Search(w) \/ SearchUnknown(w)

Spec == Init /\ [][Next]_vars
-----------------------------------------------------------------------------
(***************************************************************************)
(* Correctness.                                                            *)
(***************************************************************************)
\* The server has an entry exactly at the addresses the client will ask for
\* next: a search leaves nothing behind and moves every entry (search,
\* Server::search).
EntriesAreCurrent == DOMAIN DictW = UNION {Asked(w) : w \in Keywords}

\* No entry stands for two keywords, none is listed twice under one: each
\* keyword has the files that contain it, by different numbers.
EntriesAreFiles ==
  \A w \in Keywords :
    /\ Found(w) = {f \in DOMAIN acc : w \in Words[f]}
    /\ Cardinality(Found(w)) = Count(w).fc

\* A file is in DictF once, at the address of its access count, whichever
\* keywords it was found by (insertFile, search).
FileAtItsCount ==
  /\ DOMAIN DictF = {<<f, acc[f]>> : f \in DOMAIN acc}
  /\ \A a \in DOMAIN DictF : DictF[a] = 1 .. Blocks[a[1]]
=============================================================================

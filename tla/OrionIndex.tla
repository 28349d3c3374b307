----------------------------- MODULE OrionIndex -----------------------------
(***************************************************************************)
(* The keyword index of the orionsq variant (class Orion).  The i-th file  *)
(* with a keyword is the entry <<keyword, i>> of the map srch; how many    *)
(* there are is a counter, kept by the client (localFCNT, if local) or in  *)
(* fcntbids, which endSetup() copies to the map fcnt.  A file removed      *)
(* leaves its number to the last file of each of its keywords, found       *)
(* through UpdtCnt.                                                        *)
(*                                                                         *)
(* The oblivious maps srch, file and fcnt are dictionaries here, as module *)
(* AVLTree shows of them.                                                  *)
(***************************************************************************)
EXTENDS Integers, FiniteSets

CONSTANTS Keywords, Files,
  Words,      \* Words[f]: getUniquedWords() of the content of f
  Blocks      \* Blocks[f]: the length of divideString() of it

VARIABLES
  local,      \* whether the client keeps the counters
  ready,      \* endSetup() was called, or nothing is batch inserted
  localFCNT, localBCNT,      \* the client's counters: files, blocks
  fcntbids,                  \* counters of keywords and (by batchInsert) files
  UpdtCnt,                   \* UpdtCnt[w][f]: the number of f among w's files
  srch,                      \* srch[w]: the entries <<w, i>> (srchbids at setup)
  file,                      \* file[f]: the blocks stored (filebids at setup)
  fcnt,                      \* the map endSetup() fills
  last                       \* the last call and the blocks it returned

counters == <<localFCNT, localBCNT, fcntbids, UpdtCnt>>
maps == <<srch, file, fcnt>>
vars == <<local, ready, counters, maps, last>>

NoEntry == [i \in {} |-> {}]

ASSUME IndexAssumption ==
  /\ Words \in [Files -> SUBSET Keywords] /\ Blocks \in [Files -> Nat \ {0}]
  /\ Keywords \cap Files = {}

Put(s, i, v) == [j \in DOMAIN s \cup {i} |-> IF j = i THEN v ELSE s[j]]
Drop(s, i) == [j \in DOMAIN s \ {i} |-> s[j]]
Numbers(s, n) == {s[i] : i \in DOMAIN s \cap (1 .. n)}
Call(op, arg, blocks) == [op |-> op, arg |-> arg, blocks |-> blocks]
-----------------------------------------------------------------------------
(***************************************************************************)
(* Setup: the maps are filled by the client and stored by endSetup().      *)
(***************************************************************************)
\* The number batchInsert() gives to the next file with w.
Counted(w) == (IF local THEN localFCNT[w] ELSE fcntbids[w]) + 1

BatchInsert(f) ==
  /\ ~ready /\ file[f] = {}
  /\ IF local
     THEN /\ localFCNT' = [w \in Keywords |-> IF w \in Words[f] THEN Counted(w) ELSE localFCNT[w]]
          /\ localBCNT' = [localBCNT EXCEPT ![f] = Blocks[f]]
          /\ UNCHANGED fcntbids
     ELSE /\ fcntbids' = [k \in Keywords \cup Files |->
                            IF k = f THEN Blocks[f]
                            ELSE IF k \in Words[f] THEN Counted(k) ELSE fcntbids[k]]
          /\ UNCHANGED <<localFCNT, localBCNT>>
  /\ srch' = [w \in Keywords |-> IF w \in Words[f] THEN Put(srch[w], Counted(w), f) ELSE srch[w]]
  /\ file' = [file EXCEPT ![f] = 1 .. Blocks[f]]
  /\ last' = Call("add", f, {})
  /\ UNCHANGED <<local, ready, UpdtCnt, fcnt>>

EndSetup ==
  /\ ~ready /\ ready' = TRUE
  /\ fcnt' = IF local THEN fcnt ELSE [k \in {j \in DOMAIN fcntbids : fcntbids[j] # 0} |-> fcntbids[k]]
  /\ UNCHANGED <<local, counters, srch, file, last>>
-----------------------------------------------------------------------------
(***************************************************************************)
(* Insertion and removal one file at a time.                               *)
(***************************************************************************)
NextNumber(w) == fcntbids[w] + 1

\* insert(), file ids being used once.  The number of blocks it also puts
\* into srch is never read.
Insert(f) ==
  /\ ready /\ file[f] = {}
  /\ fcntbids' = [k \in Keywords \cup Files |-> IF k \in Words[f] THEN NextNumber(k) ELSE fcntbids[k]]
  /\ UpdtCnt' = [w \in Keywords |-> IF w \in Words[f] THEN [UpdtCnt[w] EXCEPT ![f] = NextNumber(w)]
                                                      ELSE UpdtCnt[w]]
  /\ srch' = [w \in Keywords |-> IF w \in Words[f] THEN Put(srch[w], NextNumber(w), f) ELSE srch[w]]
  /\ localBCNT' = [localBCNT EXCEPT ![f] = Blocks[f]]
  /\ file' = [file EXCEPT ![f] = 1 .. Blocks[f]]
  /\ last' = Call("add", f, {})
  /\ UNCHANGED <<local, ready, localFCNT, fcnt>>

\* Mutant: the number the last file takes over is not recorded.
Handed_NotRecorded(w, f) == [UpdtCnt[w] EXCEPT ![f] = 0]

\* UpdtCnt[w] after the last file of w has taken over the number of f.
Handed(w, f) ==
  LET fc == fcntbids[w]
  IN  IF UpdtCnt[w][f] = fc THEN [UpdtCnt[w] EXCEPT ![f] = 0]
      ELSE [UpdtCnt[w] EXCEPT ![srch[w][fc]] = UpdtCnt[w][f], ![f] = 0]

\* The entries of w after the last has been moved to the number of f.
Moved(w, f) ==
  LET fc == fcntbids[w] IN Drop(Put(srch[w], UpdtCnt[w][f], srch[w][fc]), fc)

\* removekw() stops at the first keyword that f has no number for; which are
\* done before is up to the order of an unordered_map.
removekw(f) ==
  LET known == {w \in Words[f] : UpdtCnt[w][f] # 0}
  IN  \E done \in IF known = Words[f] THEN {known} ELSE SUBSET known :
        /\ UpdtCnt' = [w \in Keywords |-> IF w \in done THEN Handed(w, f) ELSE UpdtCnt[w]]
        /\ srch' = [w \in Keywords |-> IF w \in done THEN Moved(w, f) ELSE srch[w]]
        /\ fcntbids' = [k \in Keywords \cup Files |-> IF k \in done THEN fcntbids[k] - 1 ELSE fcntbids[k]]

Remove(f) ==
  /\ ready /\ localBCNT[f] # 0
  /\ localBCNT' = [localBCNT EXCEPT ![f] = 0]
  /\ file' = [file EXCEPT ![f] = @ \ (1 .. localBCNT[f])]
  /\ removekw(f)
  /\ last' = Call("remove", f, {})
  /\ UNCHANGED <<local, ready, localFCNT, fcnt>>
-----------------------------------------------------------------------------
(***************************************************************************)
(* Searches.  The driver calls search() or simplebatchSearch() if local,   *)
(* batchSearch() if not.                                                   *)
(***************************************************************************)
BlocksFound(ids, count) == UNION {{f} \X (file[f] \cap (1 .. count[f])) : f \in ids}

Answer(w, blocks) ==
  /\ last' = Call("search", w, blocks)
  /\ UNCHANGED <<local, ready, counters, maps>>

\* find() of an entry that is not there returns an uninitialised number.
Search(w) ==
  LET fc == localFCNT[w] IN
  /\ ready /\ local
  /\ \E junk \in IF 1 .. fc \subseteq DOMAIN srch[w] THEN {{}} ELSE SUBSET Files :
       Answer(w, BlocksFound(Numbers(srch[w], fc) \cup junk, localBCNT))

SimpleBatchSearch(w) ==
  /\ ready /\ local
  /\ Answer(w, BlocksFound(Numbers(srch[w], localFCNT[w]), localBCNT))

\* fcnt has no counter for a keyword of no file: any number is looked for.
BatchSearch(w) ==
  /\ ready /\ ~local
  /\ \E fc \in IF w \in DOMAIN fcnt THEN {fcnt[w]} ELSE 0 .. Cardinality(Files) :
       Answer(w, BlocksFound(Numbers(srch[w], fc), fcnt))
-----------------------------------------------------------------------------
Init ==
  /\ local \in BOOLEAN /\ ready \in BOOLEAN
  /\ localFCNT = [w \in Keywords |-> 0] /\ localBCNT = [f \in Files |-> 0]
  /\ fcntbids = [k \in Keywords \cup Files |-> 0]
  /\ UpdtCnt = [w \in Keywords |-> [f \in Files |-> 0]]
  /\ srch = [w \in Keywords |-> NoEntry] /\ file = [f \in Files |-> {}] /\ fcnt = NoEntry
  /\ last = Call("none", "none", {})

SearchNext == \E w \in Keywords : Search(w) \/ SimpleBatchSearch(w) \/ BatchSearch(w)
SetupNext == EndSetup \/ \E f \in Files : BatchInsert(f)
UpdateNext == \E f \in Files : Insert(f) \/ Remove(f)

\* What the index is used for: files are batch inserted, then searched and
\* removed, or inserted and removed one by one.
StaticNext == SetupNext \/ SearchNext \/ \E f \in Files : Remove(f)
StaticSpec == Init /\ [][StaticNext]_vars
DynamicSpec == Init /\ [][UpdateNext]_vars
-----------------------------------------------------------------------------
(***************************************************************************)
(* Correctness.                                                            *)
(***************************************************************************)
TypeOK ==
  /\ local \in BOOLEAN /\ ready \in BOOLEAN
  /\ localFCNT \in [Keywords -> Nat] /\ localBCNT \in [Files -> Nat]
  /\ fcntbids \in [Keywords \cup Files -> Nat]
  /\ UpdtCnt \in [Keywords -> [Files -> Nat]]
  /\ \A w \in Keywords : DOMAIN srch[w] \subseteq Nat \ {0} /\ \A i \in DOMAIN srch[w] : srch[w][i] \in Files
  /\ DOMAIN srch = Keywords /\ file \in [Files -> SUBSET Nat]

Live == {f \in Files : file[f] # {}}

\* Files inserted and removed in any order: the numbers 1 .. fcntbids[w] are
\* given to the live files with keyword w, each to one, and UpdtCnt knows the
\* number of each (insert, removekw).
PostingsExact ==
  \A w \in Keywords :
    /\ DOMAIN srch[w] = 1 .. fcntbids[w]
    /\ \A i \in DOMAIN srch[w] : UpdtCnt[w][srch[w][i]] = i
    /\ \A f \in Files :
         IF f \in Live /\ w \in Words[f]
         THEN UpdtCnt[w][f] \in DOMAIN srch[w] /\ srch[w][UpdtCnt[w][f]] = f
         ELSE UpdtCnt[w][f] = 0
=============================================================================

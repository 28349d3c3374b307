----------------------------- MODULE Orion2Index ----------------------------
(***************************************************************************)
(* The keyword index of the orion2 variant (class Orion2).  The client     *)
(* counts the files of a keyword (UpdtCnt) and remembers the last of them  *)
(* (LastIND); the map srch has the files by number and updt the number of  *)
(* each.  A removed file leaves its number to the last one and keeps an    *)
(* entry -1 in updt, for which insert() passes it over from then on.       *)
(*                                                                         *)
(* The oblivious maps are dictionaries here; setupPairs1 and setupPairs2   *)
(* are updt and srch before endSetup().                                    *)
(***************************************************************************)
EXTENDS Integers, FiniteSets

CONSTANTS Keywords, Files,
  Words,      \* Words[f]: the keywords the driver inserts for f
  Blocks      \* Blocks[f]: the blocks of it

VARIABLES
  ready,      \* endSetup() was called, or nothing is set up
  UpdtCnt, LastIND,
  updt,       \* updt[w]: file -> its number, or Removed
  srch,       \* srch[w]: number -> file
  files,      \* file -> the blocks stored
  last        \* the last call and the blocks it returned

vars == <<ready, UpdtCnt, LastIND, updt, srch, files, last>>

Removed == -1
NoEntry == [i \in {} |-> {}]

Orion2Assumption ==
  /\ Files \subseteq Nat \ {0} /\ Words \in [Files -> SUBSET Keywords]
  /\ Blocks \in [Files -> Nat \ {0}]

Override(f, g) == [x \in DOMAIN f \cup DOMAIN g |-> IF x \in DOMAIN g THEN g[x] ELSE f[x]]
Set(f, x, v) == Override(f, [y \in {x} |-> v])
Call(op, arg, blocks) == [op |-> op, arg |-> arg, blocks |-> blocks]

Init ==
  /\ ready \in BOOLEAN
  /\ UpdtCnt = [w \in Keywords |-> 0] /\ LastIND = NoEntry
  /\ updt = [w \in Keywords |-> NoEntry] /\ srch = [w \in Keywords |-> NoEntry]
  /\ files = NoEntry /\ last = Call("none", 0, {})
-----------------------------------------------------------------------------
\* insert(w, f) for each w of ws.
Added(ws, f) ==
  /\ UpdtCnt' = [w \in Keywords |-> IF w \in ws THEN UpdtCnt[w] + 1 ELSE UpdtCnt[w]]
  /\ updt' = [w \in Keywords |-> IF w \in ws THEN Set(updt[w], f, UpdtCnt[w] + 1) ELSE updt[w]]
  /\ srch' = [w \in Keywords |-> IF w \in ws THEN Set(srch[w], UpdtCnt[w] + 1, f) ELSE srch[w]]
  /\ LastIND' = Override(LastIND, [w \in ws |-> f])

\* if (updt_cnt == ""): not for a pair that was inserted before.
Insertable(f) == {w \in Words[f] : f \notin DOMAIN updt[w]}

insertFile(f) == files' = Set(files, f, 1 .. Blocks[f])

\* The driver's insertion of a file.
Insert(f) ==
  /\ ready
  /\ Added(Insertable(f), f) /\ insertFile(f)
  /\ last' = Call("insert", f, {})
  /\ UNCHANGED ready

Live(w) == {f \in DOMAIN updt[w] : updt[w][f] # Removed}

\* setupInsert() has no such test: each pair is inserted once.
SetupInsert(f) ==
  /\ ~ready /\ \A w \in Words[f] : f \notin Live(w)
  /\ Added(Words[f], f) /\ insertFile(f)
  /\ last' = Call("insert", f, {})
  /\ UNCHANGED ready

EndSetup == ~ready /\ ready' = TRUE /\ UNCHANGED <<UpdtCnt, LastIND, updt, srch, files, last>>

\* Mutant: the file that takes over the number keeps its own in updt.
Renumbered_Not(w, f) == Set(updt[w], f, Removed)

\* updt of w when the last file takes over the number of f.
Renumbered(w, f) == Set(Set(updt[w], f, Removed), LastIND[w], updt[w][f])

IsLast(w, f) == updt[w][f] = UpdtCnt[w]

\* remove(), and setupRemove() before endSetup(), of a pair inserted before.
Remove(w, f) ==
  /\ f \in Live(w)
  /\ UpdtCnt' = [UpdtCnt EXCEPT ![w] = @ - 1]
  /\ updt' = [updt EXCEPT ![w] = IF IsLast(w, f) THEN Set(@, f, Removed) ELSE Renumbered(w, f)]
  /\ srch' = [srch EXCEPT ![w] = IF IsLast(w, f) THEN @ ELSE Set(@, updt[w][f], LastIND[w])]
  /\ LastIND' = IF UpdtCnt'[w] > 0 THEN [LastIND EXCEPT ![w] = srch'[w][UpdtCnt'[w]]]
                ELSE [v \in DOMAIN LastIND \ {w} |-> LastIND[v]]
  /\ last' = Call("remove", w, {})
  /\ UNCHANGED <<ready, files>>

\* Removing a pair again changes nothing.
RemoveAgain(w, f) ==
  /\ f \in DOMAIN updt[w] \ Live(w)
  /\ last' = Call("remove", w, {})
  /\ UNCHANGED <<ready, UpdtCnt, LastIND, updt, srch, files>>

\* search(), and searchFile() of each id it returns.
Search(w) ==
  /\ ready
  /\ LET ids == {srch[w][i] : i \in 1 .. UpdtCnt[w]}
     IN  last' = Call("search", w, UNION {{f} \X files[f] : f \in ids})
  /\ UNCHANGED <<ready, UpdtCnt, LastIND, updt, srch, files>>

Next ==
  \/ EndSetup
  \/ \E f \in Files : Insert(f) \/ SetupInsert(f)
  \/ \E w \in Keywords : Search(w) \/ \E f \in Files : Remove(w, f) \/ RemoveAgain(w, f)

Spec == Init /\ [][Next]_vars
-----------------------------------------------------------------------------
(***************************************************************************)
(* Correctness.                                                            *)
(***************************************************************************)
\* Whatever was inserted and removed, the files of a keyword have the
\* numbers 1 .. UpdtCnt[w], each known to updt, and LastIND is the last: the
\* next removal moves the right file (insert, remove, and both in setup).
NumbersAreExact ==
  \A w \in Keywords :
    /\ Cardinality(Live(w)) = UpdtCnt[w]
    /\ \A f \in Live(w) : updt[w][f] \in DOMAIN srch[w] /\ srch[w][updt[w][f]] = f
    /\ UpdtCnt[w] > 0 => updt[w][LastIND[w]] = UpdtCnt[w]

\* A search returns the blocks of the live files (search, searchFile).
FoundIsLive ==
  last.op = "search" => last.blocks = UNION {{f} \X (1 .. Blocks[f]) : f \in Live(last.arg)}
=============================================================================

------------------------------ MODULE Postings ------------------------------
(***************************************************************************)
(* What the Orion class of the B-tree variants promises: the files of each *)
(* keyword, which a removal forgets all together.                          *)
(***************************************************************************)
CONSTANTS Keywords, Files,
  Words       \* Words[f]: the keywords of the content of f

VARIABLES
  postings,   \* postings[w]: the files of keyword w
  last        \* the last call: the operation, its argument, the ids found

postingsVars == <<postings, last>>

Call(op, arg, found) == [op |-> op, arg |-> arg, found |-> found]

Init == postings = [w \in Keywords |-> {}] /\ last = Call("none", "none", {})

Insert(f) ==
  /\ postings' = [w \in Keywords |-> IF w \in Words[f] THEN postings[w] \cup {f} ELSE postings[w]]
  /\ last' = Call("insert", f, {})

Remove(w) == postings' = [postings EXCEPT ![w] = {}] /\ last' = Call("remove", w, {})

Search(w) == last' = Call("search", w, postings[w]) /\ UNCHANGED postings

\* The zeros of removed entries come along.
BatchSearch(w) ==
  /\ \E zeros \in SUBSET {0} : last' = Call("batchSearch", w, postings[w] \cup zeros)
  /\ UNCHANGED postings

Next ==
  \/ \E f \in Files : Insert(f)
  \/ \E w \in Keywords : Remove(w) \/ Search(w) \/ BatchSearch(w)

Spec == Init /\ [][Next]_postingsVars
=============================================================================

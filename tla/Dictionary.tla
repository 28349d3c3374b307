----------------------------- MODULE Dictionary -----------------------------
(***************************************************************************)
(* What an oblivious map (class OMAP of the AVL variants) promises to its  *)
(* caller: a dictionary whose operations take effect at once.  AVLTree     *)
(* implements it (see AVLTree!DictionarySpec).                             *)
(***************************************************************************)
CONSTANTS Keys, Values, InitDict

VARIABLES
  dict,       \* the entries, a function from keys to values
  last        \* the last call: the keys it was about, and the entries it was
              \* given (insert) or returned (search)

dictVars == <<dict, last>>

NoEntry == [k \in {} |-> {}]
Call(S, e) == [keys |-> S, entries |-> e]

\* d with the entries of e put over it.
Over(d, e) == [k \in DOMAIN d \cup DOMAIN e |-> IF k \in DOMAIN e THEN e[k] ELSE d[k]]

Init == dict = InitDict /\ last = Call({}, NoEntry)

Insert(e) == dict' = Over(dict, e) /\ last' = Call(DOMAIN e, e)

Remove(k) ==
  /\ k \in DOMAIN dict
  /\ dict' = [j \in DOMAIN dict \ {k} |-> dict[j]]
  /\ last' = Call({k}, NoEntry)

Search(S) ==
  /\ last' = Call(S, [k \in S \cap DOMAIN dict |-> dict[k]])
  /\ UNCHANGED dict

Next ==
  \/ \E k \in Keys : Remove(k)
  \/ \E S \in SUBSET Keys : Search(S) \/ \E e \in [S -> Values] : Insert(e)

Spec == Init /\ [][Next]_dictVars
=============================================================================

------------------------------- MODULE KeyMap -------------------------------
(***************************************************************************)
(* What class BTree promises to its caller: a set of keys (a value goes    *)
(* with each of them and never changes), and one operation at a time that  *)
(* takes effect at once.  BTree implements it (see BTree!KeyMapSpec).      *)
(***************************************************************************)
CONSTANTS Keys, InitKeysets      \* the keys, and the sets of them setup may leave

VARIABLES keyset,     \* the keys in the map
          op, kw,     \* the operation under way and its key
          res         \* the last answer of a search

mapVars == <<keyset, op, kw, res>>

Init == keyset \in InitKeysets /\ op = "idle" /\ kw \in Keys /\ res = FALSE

Begin == /\ op = "idle"
         /\ op' \in {"insert", "search", "remove"} /\ kw' \in Keys
         /\ op' = "insert" => kw' \notin keyset
         /\ res' = FALSE
         /\ UNCHANGED keyset

EndInsert == /\ op = "insert" /\ op' = "idle"
             /\ keyset' = keyset \cup {kw}
             /\ UNCHANGED <<kw, res>>

EndSearch == /\ op = "search" /\ op' = "idle"
             /\ res' = (kw \in keyset)
             /\ UNCHANGED <<keyset, kw>>

\* The key goes some time before the operation ends.
Remove == /\ op = "remove" /\ kw \in keyset
          /\ keyset' = keyset \ {kw}
          /\ UNCHANGED <<op, kw, res>>

EndRemove == /\ op = "remove" /\ op' = "idle" /\ kw \notin keyset
             /\ UNCHANGED <<keyset, kw, res>>

Next == Begin \/ EndInsert \/ EndSearch \/ Remove \/ EndRemove
Spec == Init /\ [][Next]_mapVars
=============================================================================

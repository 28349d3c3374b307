---------------------------- MODULE SearchIndex -----------------------------
(***************************************************************************)
(* What a searchable index of files (the Orion and Client classes)         *)
(* promises: a file added is found under each of its keywords, with all    *)
(* its blocks, until it is removed.                                        *)
(***************************************************************************)
EXTENDS Naturals

CONSTANTS Keywords, Files,
  Words,      \* Words[f]: the keywords of the content of f
  Blocks      \* Blocks[f]: the number of blocks it is divided into

VARIABLES
  docs,       \* the files in the index
  last        \* the last call: the operation, its argument, the blocks found

indexVars == <<docs, last>>

Call(op, arg, blocks) == [op |-> op, arg |-> arg, blocks |-> blocks]

BlocksOf(S) == UNION {{f} \X (1 .. Blocks[f]) : f \in S}

Init == docs = {} /\ last.op = "none"

Add(f) == f \notin docs /\ docs' = docs \cup {f} /\ last' = Call("add", f, {})

Remove(f) == f \in docs /\ docs' = docs \ {f} /\ last' = Call("remove", f, {})

Search(w) ==
  /\ last' = Call("search", w, BlocksOf({f \in docs : w \in Words[f]}))
  /\ UNCHANGED docs

Next ==
  \/ \E f \in Files : Add(f) \/ Remove(f)
  \/ \E w \in Keywords : Search(w)

Spec == Init /\ [][Next]_indexVars
=============================================================================

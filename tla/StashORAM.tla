----------------------------- MODULE StashORAM ------------------------------
(***************************************************************************)
(* The stores of packzorionsq (IndexORAM, and FileORAM alike), under the   *)
(* index of module PackedSeedIndex.  After setup nothing is written back:  *)
(* a search reads its paths into a stash that the next start() clears, and *)
(* what setup could not place stays in the client's cache for good.  A     *)
(* node is looked for on the leaf its key gives, always the same.          *)
(***************************************************************************)
EXTENDS CountedSetup, SequencesExt

CONSTANTS
  Groups, Size,   \* Size[g]: the nodes of g, numbered from 1
  Sum,            \* Sum[g]: the sum of the characters of g, or its id
  leaves,         \* leaves a key may give: not the last one
  Sessions        \* the sequences of groups a search reads

StashORAMAssumption ==
  /\ Nodes = UNION {{g} \X (1 .. Size[g]) : g \in Groups}
  /\ Size \in [Groups -> Nat \ {0}] /\ Sum \in [Groups -> Nat]
  /\ leaves \in Nat \ {0} /\ 0 .. leaves - 1 \subseteq Leaves
  /\ Sessions \subseteq Seq(Groups)

VARIABLES
  stash,          \* stash[x]: the leaf in the stash's copy of x
  queue, phase,   \* the nodes still to be read; "setup", "idle", "read"
  leafList,       \* the leaves looked at since setup, which nothing clears
  readviewmap,    \* buckets read since start()
  failed          \* ReadNode returned NULL, which the caller dereferences

vars == <<placed, setupVars, stash, queue, phase, leafList, readviewmap, failed>>

\* RandomSeedPath(), RandomPath(), with a first counter of 0.
LeafOf(x) == (Sum[x[1]] + (11 % leaves) + ((x[2] * 99) % leaves)) % leaves

Init ==
  /\ SetupInit({[x \in Nodes |-> LeafOf(x)]}, Orders)
  /\ stash = [x \in Nodes |-> None] /\ queue = <<>> /\ phase = "setup"
  /\ leafList = {} /\ readviewmap = {} /\ failed = FALSE
-----------------------------------------------------------------------------
Setup == phase = "setup" /\ SetupStep /\ UNCHANGED <<stash, queue, phase, leafList, readviewmap, failed>>

EndSetup ==
  /\ phase = "setup" /\ setupDone /\ phase' = "idle"
  /\ UNCHANGED <<placed, setupVars, stash, queue, leafList, readviewmap, failed>>

\* The nodes of a sequence of groups, in the order they are read.
NodesOf(groups) == FlattenSeq([j \in DOMAIN groups |-> [n \in 1 .. Size[groups[j]] |-> <<groups[j], n>>]])

\* Mutant: start() does not forget which buckets were read.
ViewAtStart_Kept == readviewmap

ViewAtStart == {}

\* simplebatchSearch(): start().
Start(groups) ==
  /\ phase = "idle" /\ ~failed
  /\ phase' = "read" /\ queue' = NodesOf(groups)
  /\ stash' = [x \in Nodes |-> None] /\ readviewmap' = ViewAtStart
  /\ UNCHANGED <<placed, setupVars, leafList, failed>>

Fetched(leaf, x) == {b \in Path(leaf) \ readviewmap : store[b][x] # None}

\* FetchPathStash: buckets read for the first time add their nodes.
FetchPathStash(leaf) ==
  [x \in Nodes |-> IF stash[x] # None \/ Fetched(leaf, x) = {} THEN stash[x]
                   ELSE store[CHOOSE b \in Fetched(leaf, x) : TRUE][x]]

\* ReadNode(bid, leaf, leaf) of a node in the cache or in the stash.
ReadHeld(x) ==
  /\ cache[x] # None \/ stash[x] # None
  /\ queue' = Tail(queue)
  /\ IF cache[x] # None THEN cache' = [cache EXCEPT ![x] = LeafOf(x)] /\ UNCHANGED stash
                        ELSE stash' = [stash EXCEPT ![x] = LeafOf(x)] /\ UNCHANGED cache
  /\ UNCHANGED <<leafList, readviewmap, failed>>

\* The same of another: Access().
ReadFetched(x) ==
  /\ cache[x] = None /\ stash[x] = None
  /\ stash' = FetchPathStash(LeafOf(x))
  /\ readviewmap' = readviewmap \cup Path(LeafOf(x))
  /\ IF stash'[x] # None
     THEN leafList' = leafList \cup {LeafOf(x)} /\ queue' = Tail(queue) /\ UNCHANGED failed
     ELSE failed' = TRUE /\ UNCHANGED <<leafList, queue>>
  /\ UNCHANGED cache

ReadNode ==
  /\ phase = "read" /\ queue # <<>> /\ ~failed
  /\ ReadHeld(Head(queue)) \/ ReadFetched(Head(queue))
  /\ UNCHANGED <<store, setupVars, phase>>

EndSearch ==
  /\ phase = "read" /\ queue = <<>> /\ phase' = "idle"
  /\ UNCHANGED <<placed, setupVars, stash, queue, leafList, readviewmap, failed>>

Step == Setup \/ EndSetup \/ ReadNode \/ EndSearch
Next == Step \/ \E groups \in Sessions : Start(groups)

Spec == Init /\ [][Next]_vars /\ WF_vars(Step)
-----------------------------------------------------------------------------
(***************************************************************************)
(* Correctness.                                                            *)
(***************************************************************************)
\* Every node a search reads is in the cache, in the stash, or on its path.
ReadsSucceed == ~failed

\* The stash never hides a node: it is what the buckets read since start()
\* hold, so a bucket that will not be read again is not needed again, and
\* no node of it is also in the cache (FetchPathStash, start).
StashIsRead ==
  \A x \in Nodes :
    /\ stash[x] # None <=> CopiesOf(x) \cap readviewmap # {}
    /\ cache[x] # None => stash[x] = None

\* A search that has started comes to its end.
SearchesEnd == phase = "read" ~> phase = "idle"
=============================================================================

------------------------------ MODULE MCOrams -------------------------------
(***************************************************************************)
(* The stores of the local-counter indexes, for TLC.  "seeds": SeedORAM,   *)
(* where a search reads the nodes of one group (a keyword) or of several   *)
(* one after the other (the files found).  "stash": StashORAM over the     *)
(* same groups; SeedORAM's own variables then stay in setup.               *)
(***************************************************************************)
EXTENDS SeedORAM

VARIABLES
  oram,
  stash, unread, seen, doing, listed, missed      \* of StashORAM

Geometry == INSTANCE PathTree
MCLeaves == Geometry!leafRange
MCBuckets == Geometry!bucketRange
MCOnPath(l, e) == Geometry!GetBTreeNodeOnPath(l, e)
MCleaves == Geometry!bucketCount \div 2

MCGroups == {"a", "b"}
MCSize == [a |-> 3, b |-> 2]
MCSum == [a |-> 97, b |-> 98]
MCNodes == UNION {{g} \X (1 .. MCSize[g]) : g \in MCGroups}
MCSessions == {<<"a">>, <<"b">>, <<"b", "a">>}

ST == INSTANCE StashORAM WITH
  queue <- unread, phase <- doing, leafList <- listed, readviewmap <- seen, failed <- missed

ASSUME MCOramsAssumption == ST!StashORAMAssumption

stashVars == <<stash, unread, seen, doing, listed, missed>>
NoStash == stash = <<>> /\ unread = <<>> /\ seen = {} /\ doing = "none" /\ listed = {} /\ missed = FALSE
NoSearch ==
  /\ sc = <<>> /\ cntr = 0 /\ queue = <<>> /\ next = 0 /\ phase = "setup" /\ level = depth
  /\ leafList = {} /\ readviewmap = {} /\ writeviewmap = {} /\ failed = FALSE

MCInit ==
  \/ oram = "seeds" /\ Init /\ NoStash
  \/ oram = "stash" /\ ST!Init /\ NoSearch

Seeds == oram = "seeds" /\ Next /\ UNCHANGED <<oram, stashVars>>
Stash == oram = "stash" /\ ST!Next /\ UNCHANGED <<oram, searchVars>>

\* One thread runs it all: a search that has started goes on.
SeedStep == oram = "seeds" /\ Step /\ UNCHANGED <<oram, stashVars>>
StashStep == oram = "stash" /\ ST!Step /\ UNCHANGED <<oram, searchVars>>

allVars == <<oram, vars, stashVars>>
MCSpec == MCInit /\ [][Seeds \/ Stash]_allVars /\ WF_allVars(SeedStep \/ StashStep)
-----------------------------------------------------------------------------
\* The stash shows every node read and hides none in the cache, so that every
\* read finds its node (StashORAM, StashIsRead and ReadsSucceed).
StashIsRead == oram = "stash" => ST!StashIsRead /\ ST!ReadsSucceed

\* A search that has started comes to its end (SeedORAM, StashORAM).
EverySearchEnds == SearchesEnd /\ ST!SearchesEnd
=============================================================================

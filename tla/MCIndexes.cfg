SPECIFICATION MCSpec
CONSTANTS
  Keywords <- MCKeywords
  Files <- MCFiles
  Words <- MCWords
  Blocks <- MCBlocks
  COM = 2
  Prefix <- MCPrefix
  Junk = {9}
  MaxSearches = 2
  MaxEntries = 5
  MaxAccesses = 2
INVARIANTS PostingsExact EntriesAreCurrent NextKeyIsFree
PROPERTIES EveryIndexSpec PostingsSpec
\* the files are finitely many
CHECK_DEADLOCK FALSE

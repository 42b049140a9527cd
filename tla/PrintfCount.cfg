\* What printf returns for percent signs and negative numbers.
CONSTANTS
  Calls <- SignedCalls
  Char <- Chars
  MemSize = 40
  IntSpan = 2048
  SizeOfSizeT = 8
SPECIFICATION FSpec
INVARIANTS CountsPrinted

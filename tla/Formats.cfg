\* Formats the comments and the code agree on, those on which they differ and formats nobody
\* supports, with sizes below, at and above the length of the output.
CONSTANTS
  Calls <- AllCalls
  Char <- Chars
  MemSize = 40
  IntSpan = 2048
  SizeOfSizeT = 8
SPECIFICATION FSpec
INVARIANTS FTypeOK NeverPastSize AsMuchAsFits FormattedAsDocumented PrintedAsDocumented

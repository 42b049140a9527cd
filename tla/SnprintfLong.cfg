\* Long arguments.
CONSTANTS
  Calls <- LongNumbers
  Char <- Chars
  MemSize = 40
  IntSpan = 2048
SPECIFICATION Spec
INVARIANTS OutputAsDocumented

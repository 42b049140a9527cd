\* Negative numbers in a field.
CONSTANTS
  Calls <- FieldNumbers
  Char <- Chars
  MemSize = 40
  IntSpan = 2048
SPECIFICATION Spec
INVARIANTS OutputAsDocumented

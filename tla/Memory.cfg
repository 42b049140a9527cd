\* Every pair of areas in an address space of nine bytes, every content; all three versions
\* of memset with their real widths: 8, 64 and 32 bytes in a round.
CONSTANTS
  N = 9
  Byte <- Bits
  Radix = 2
  Xor <- XorBit
  Room = 152
  Octet <- Bits
  Old = Old
  Calls <- AllCalls
SPECIFICATION MCSpec
INVARIANTS SourceIntact Moved CodecsMoveFields SwapsOrder StoresAligned
PROPERTIES FillsTheArea
CHECK_DEADLOCK FALSE

\* A buffer of four characters, strings of up to three and one that is too long; numbers
\* in a word of six bits.
CONSTANTS
  Cap = 4
  Letter <- Chars
  NULL = NULL
  Sources <- UpToThree
  Delims <- CommaOrNot
  Needles <- Searched
  Compared <- Others
  Inputs <- Numerals
  Half = 32
SPECIFICATION MCSpec
INVARIANTS StaysInside SavedPointerSafe CopiesAsDocumented TokensAreMaximal ScansAsDeclared
  StrtoTypeOK NoWrap Saturates ReadsAsDescribed

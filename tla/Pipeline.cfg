\* One edit of the sources and two interruptions anywhere.
CONSTANTS
  MaxVersion = 2
  MaxAborts = 2
SPECIFICATION FairSpec
INVARIANTS TypeOK  ConfiguredSinceClear
PROPERTIES ClearingHelps

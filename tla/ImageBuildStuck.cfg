\* An interrupted image creation: running the script again never works.
CONSTANTS
  NLoops = 3
  MaxAborts = 1
  AbortPoints <- AllPoints
  Tools <- NoTools
SPECIFICATION FairSpec
PROPERTIES EventuallyBuilt

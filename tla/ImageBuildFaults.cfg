\* Interruptions anywhere, the leftovers of interrupted runs, and the next runs.
CONSTANTS
  NLoops = 2
  MaxAborts = 2
  AbortPoints <- AllPoints
  Tools <- BoardOnly
SPECIFICATION FairSpec
INVARIANTS TypeOK StackDiscipline NoForeignPayload BuiltImagesUsable
PROPERTIES WritesStayInOwnImage BuildsAreFresh RunLeavesNoTrace RetryWorks

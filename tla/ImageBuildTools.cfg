\* The tools of tools/ beside the build.
CONSTANTS
  NLoops = 3
  MaxAborts = 0
  AbortPoints <- NoPoints
  Tools <- LoopTools
SPECIFICATION Spec
INVARIANTS OwnLoop

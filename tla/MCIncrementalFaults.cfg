SPECIFICATION FairSpec
CONSTANTS
  a = a
  b1 = b1
  c = c
  File <- MCTwoFiles
  JobOrder <- MCTwoOrder
  Uses <- MCTwoUses
  Optional = {}
  Link = Link
  None = None
  NumberOfParallelCommands = 1
  ContinueBuildingAfterErrors = FALSE
  Faults = {"error", "exit", "noDeps", "signal", "spawn", "kill", "edit"}
  MaxEdits = 1
INVARIANTS
  EditedRebuilt
PROPERTY
  BuildEnds

SPECIFICATION Spec
CONSTANTS
  a = a
  b1 = b1
  c = c
  File <- MCFile
  JobOrder <- MCOrder
  Uses <- MCUses
  Optional = {a}
  Link = Link
  None = None
  NumberOfParallelCommands = 2
  ContinueBuildingAfterErrors = FALSE
  Faults = {"error"}
  MaxEdits = 2
INVARIANTS
  GoldenRule
  Linked

SPECIFICATION FairSpec
CONSTANTS
  max_ins = 2
  NumInstructions = 11
  ins_to_simulate = 8
INVARIANTS
  RecordsKept
PROPERTIES
  EverythingRead

SPECIFICATION MachineSpec
CHECK_DEADLOCK FALSE
CONSTANTS
  CommandLines <- TheCommandLines
  PartCount = 2
  BlockElements = 4
  Alignment = 4
  Q8Bytes = 5
  Q4Bytes = 3
  Checkpoints <- Exports
  Symbols <- Order
  Excluded = {"lm_head"}
  GroupSize = 128
  Inputs <- Sources
  Jobs <- QuantizeJobs
  Replacements <- Changed
  MaxChanges = 1
INVARIANTS
  ScratchIsRemoved
  ExportIsWhole
  WrittenOpens
  CompleteIsAccepted
  SuccessIsFaithful

SPECIFICATION Spec
CONSTANTS
  Crc <- MCCrc
  AutoName <- MCAutoName
  Names = {"plain.bin"}
  Figures = {0}
  Jobs <- PlainJobs
  InitialFiles <- MCInitialFiles
  InitialTags <- MCInitialTags
  Garbled <- MCGarbled
  Short = Short
  None = None
CONSTRAINT FewUpgrades
INVARIANTS
  SuccessMeansSaved
CHECK_DEADLOCK FALSE

SPECIFICATION Spec
CONSTANTS
  Crc <- MCCrc
  AutoName <- MCAutoName
  Names = {"plain.bin", "crypt.bin"}
  Figures = {0}
  Jobs <- MCJobs
  InitialFiles <- MCInitialFiles
  InitialTags <- MCInitialTags
  Garbled <- MCGarbled
  Short = Short
  None = None
CONSTRAINT FewUpgrades
INVARIANTS
  TypeOK
  OneAreaSurvives
  OneFaultLosesNothing
  SuccessMeansWritten
  DumpIsFaithful
PROPERTIES
  AccessControlFirst
CHECK_DEADLOCK FALSE

SPECIFICATION Spec
CONSTANTS
  Crc <- MCCrc
  AutoName <- MCAutoName
  Names = {"plain.bin"}
  Figures = {0, 1}
  Jobs <- PlainJobs
  InitialFiles <- MCInitialFiles
  InitialTags <- MCInitialTags
  Garbled <- MCGarbled
  Short = Short
  None = None
CONSTRAINT FewUpgrades
PROPERTIES
  OnlyTheSelectedFigure
CHECK_DEADLOCK FALSE

SPECIFICATION Spec
CONSTANTS
  Crc <- MCCrc
  InitialImages <- MCInitialImages
  Options <- MCOptions
INVARIANTS
  TypeOK
  UpgradeValidates
  EditsAreCovered
  ReloadSelects
PROPERTIES
  SequenceGapKept
  OnlyAskedChanges
CONSTRAINT NearWrap

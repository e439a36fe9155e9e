SPECIFICATION Spec
CONSTANTS
  Crc <- MCCrc
  InitialImages <- MCInitialImages
  Options <- MCOptions
CONSTRAINT NearWrap
INVARIANTS
  LastSaveIsHigher

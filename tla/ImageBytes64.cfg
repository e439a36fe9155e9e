SPECIFICATION Spec
CONSTANTS
  LongBytes = 8
  Images <- MCImages
  KnownKeys <- MCKnownKeys
INVARIANTS
  KeyIsMD5

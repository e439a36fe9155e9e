SPECIFICATION Spec
CONSTANTS
  LongBytes = 4
  Images <- MCImages
  KnownKeys <- MCKnownKeys
INVARIANTS
  TypeOK
  KeyIsMD5
  RoundTrip
  ChecksumsAreRemainders
PROPERTIES
  CipherIsAES

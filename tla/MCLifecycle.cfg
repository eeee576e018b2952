SPECIFICATION FairSpec
CONSTANTS
  None = None
  Wide <- MCWide
  FloatOf <- MCFloatOf
  Files <- MCFiles
  EntityIds <- MCEntityIds
  Lower <- MCLower
  LongOf <- MCLongOf
  DoubleOf <- MCDoubleOf
  Argvs <- MCArgvs
INVARIANTS OnlySoundConfigRuns
PROPERTIES StopsClean
CHECK_DEADLOCK FALSE

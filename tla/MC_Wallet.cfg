\* Two passphrases, -keypool=1 (a top-up keeps two keys), keypoolrefill
\* with 0 (the default) and 3, and room for several top-ups and a restart.
CONSTANTS
  pa = pa
  pb = pb
  Passphrases <- MCPassphrases
  KeypoolSize = 1
  RefillSizes = {0, 3}
  MaxKeys = 7
  MaxRestarts = 1
SPECIFICATION Spec
INVARIANTS
  TypeOK
  PoolRecordsPresent
  FlushedPoolKeysAreNew
PROPERTIES
  EventuallyRelocked
  KeysIssuedInOrder
\* Behaviours end when MaxKeys keys have been generated and the restart is
\* spent; the program itself would go on generating keys.
CHECK_DEADLOCK FALSE

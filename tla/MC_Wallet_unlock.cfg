\* A staking-only unlock, or the lockwallet timer, meeting walletpassphrasechange.
CONSTANTS
  pa = pa
  pb = pb
  Passphrases <- MCPassphrases
  KeypoolSize = 1
  RefillSizes = {0, 3}
  MaxKeys = 7
  MaxRestarts = 1
SPECIFICATION Spec
INVARIANT FullUnlockTimed

------------------------------ MODULE MC_Wallet ------------------------------
EXTENDS Wallet

CONSTANTS pa, pb   \* two passphrases

MCPassphrases == {pa, pb}
==============================================================================

------------------------------- MODULE Wallet -------------------------------
(***************************************************************************)
(* The wallet's lock state and key pool (src/src/cwallet.cpp and the RPC   *)
(* handlers of src/src/rpcwallet.cpp that drive them).                     *)
(*                                                                         *)
(* Lock state: IsCrypted, the key store's lock (CCryptoKeyStore, outside  *)
(* src/), fWalletUnlockStakingOnly, nWalletUnlockTime and the pending      *)
(* "lockwallet" timer that walletpassphrase schedules with RPCRunLater (a  *)
(* new call replaces the pending one).  Key pool: setKeyPool (in memory),  *)
(* the "pool" records of wallet.dat (index -> key) and the keys            *)
(* GenerateNewKey has made, numbered in creation order.                    *)
(*                                                                         *)
(* Each RPC call is one step: the wallet RPCs take no cs_wallet lock of    *)
(* their own and are serialised by the RPC dispatcher; the lockwallet      *)
(* timer and a node restart interleave with them.  A restart keeps         *)
(* wallet.dat and loses memory: LoadWallet rebuilds setKeyPool from the    *)
(* pool records and an encrypted wallet starts locked.                     *)
(***************************************************************************)
EXTENDS Integers, FiniteSets, FiniteSetsExt, Bags

CONSTANTS
  Passphrases,  \* passphrases a user may type (model values)
  KeypoolSize,  \* -keypool: NewKeyPool writes this many keys
  RefillSizes,  \* newsize arguments of keypoolrefill
  MaxKeys,      \* bound on the keys GenerateNewKey creates
  MaxRestarts   \* bound on restarts other than the one encryptwallet asks for

ASSUME KeypoolSize \in Nat /\ RefillSizes \subseteq Nat
ASSUME MaxKeys \in Nat \ {0} /\ MaxRestarts \in Nat

Keys    == 1..MaxKeys     \* keys, in the order GenerateNewKey made them
Indices == 1..MaxKeys     \* pool indices (each written with a new key)
NoKey   == 0              \* no pool record at this index
NoPass  == "nopass"       \* an unencrypted wallet has no passphrase
NoChange == [was |-> FALSE, old |-> NoPass, new |-> NoPass] \* no call in progress

VARIABLES
  crypted,      \* IsCrypted()
  passphrase,   \* the passphrase the master key is encrypted with
  keysLocked,   \* the key store holds no master key (IsLocked when crypted)
  stakingOnly,  \* fWalletUnlockStakingOnly
  unlockTime,   \* nWalletUnlockTime # 0
  timer,        \* a "lockwallet" RPCRunLater is pending
  requested,    \* the mode the last successful walletpassphrase asked for
  setKeyPool,   \* CWallet::setKeyPool
  poolDB,       \* wallet.dat pool records: index -> key, or NoKey
  nKeys,        \* keys GenerateNewKey has made so far
  plainKeys,    \* keys made before the wallet was encrypted
  handed,       \* bag of the keys handed out to callers (each KeepKey)
  handedCrypted, \* the keys handed out while the wallet was encrypted
  down,         \* the node is stopping (StartShutdown, or an abort)
  restarts,
  changing      \* a walletpassphrasechange between reading fWasLocked and
                \* taking cs_wallet: [was, old, new], or NoChange

lockVars == <<crypted, passphrase, keysLocked, stakingOnly, unlockTime, timer, requested, changing>>
poolVars == <<setKeyPool, poolDB, nKeys, plainKeys, handed, handedCrypted>>
vars     == <<lockVars, poolVars, down, restarts>>

IsLocked == crypted /\ keysLocked

\* The RPC thread is free for a new call: the node runs and no
\* walletpassphrasechange is half done (the dispatcher serialises calls;
\* only the lockwallet timer thread runs beside one).
Idle == ~down /\ changing = NoChange

-----------------------------------------------------------------------------
(* The key pool, as a record kp = [set, db, n] of setKeyPool, the pool      *)
(* records and the number of keys made.                                    *)

KP == [set |-> setKeyPool, db |-> poolDB, n |-> nKeys]

\* nTargetSize: the nSize argument, or -keypool when it is 0.
TargetSize(nSize) == IF nSize > 0 THEN nSize ELSE KeypoolSize

\* Mutant: the count of missing keys not clamped at zero.
NeedUnclamped(kp, nSize) == TargetSize(nSize) + 1 - Cardinality(kp.set)

\* Keys TopUpKeyPool adds: up to nTargetSize + 1 in the pool.
Need(kp, nSize) ==
  IF Cardinality(kp.set) < TargetSize(nSize) + 1
  THEN TargetSize(nSize) + 1 - Cardinality(kp.set) ELSE 0

\* nEnd: one past the largest index, 1 in an empty pool.
NextIndex(set) == IF set = {} THEN 1 ELSE Max(set) + 1

\* The loop of TopUpKeyPool(nSize): WritePool(nEnd, new key), insert
\* nEnd, until the pool holds nTargetSize + 1 indices.
TopUp(kp, nSize) ==
  LET k == Need(kp, nSize)
      s == NextIndex(kp.set)
  IN  [set |-> kp.set \cup s..(s + k - 1),
       db  |-> [i \in Indices |-> IF i \in s..(s + k - 1) THEN kp.n + 1 + i - s
                                  ELSE kp.db[i]],
       n   |-> kp.n + k]

\* The bound: the keys and indices a top-up makes stay within MaxKeys.
TopUpFits(kp, nSize) ==
  /\ kp.n + Need(kp, nSize) <= MaxKeys
  /\ NextIndex(kp.set) + Need(kp, nSize) - 1 <= MaxKeys

\* TopUpKeyPool(nSize) returns at once on a locked wallet.
TopUpIfUnlocked(kp, nSize, locked) == IF locked THEN kp ELSE TopUp(kp, nSize)

\* Mutant: the oldest index taken out of setKeyPool without erasing it.
ReserveKeepIndex(kp, locked) ==
  LET t == TopUpIfUnlocked(kp, 0, locked)
  IN  IF t.set = {} THEN [kp |-> t, idx |-> -1, key |-> NoKey]
      ELSE [kp |-> t, idx |-> Min(t.set), key |-> t.db[Min(t.set)]]

\* Mutant: the newest index reserved instead of the oldest.
ReserveNewest(kp, locked) ==
  LET t == TopUpIfUnlocked(kp, 0, locked)
  IN  IF t.set = {} THEN [kp |-> t, idx |-> -1, key |-> NoKey]
      ELSE [kp |-> [t EXCEPT !.set = @ \ {Max(t.set)}],
            idx |-> Max(t.set), key |-> t.db[Max(t.set)]]

\* ReserveKeyFromKeyPool: top up if unlocked, then take the oldest index
\* out of setKeyPool and read its record (nIndex = -1 on an empty pool).
ReserveKeyFromKeyPool(kp, locked) ==
  LET t == TopUpIfUnlocked(kp, 0, locked)
  IN  IF t.set = {} THEN [kp |-> t, idx |-> -1, key |-> NoKey]
      ELSE [kp |-> [t EXCEPT !.set = @ \ {Min(t.set)}],
            idx |-> Min(t.set), key |-> t.db[Min(t.set)]]

\* KeepKey: ErasePool(nIndex).
KeepKey(db, i) == [db EXCEPT ![i] = NoKey]

\* A key is handed out to a caller (a new address, a change output).
HandOut(k) ==
  /\ handed' = handed (+) SetToBag({k})
  /\ handedCrypted' = IF crypted THEN handedCrypted \cup {k} ELSE handedCrypted

SetKP(kp) == setKeyPool' = kp.set /\ poolDB' = kp.db /\ nKeys' = kp.n

\* CWallet::Lock on an encrypted wallet: nothing when already locked, else
\* lock the key store and clear fWalletUnlockStakingOnly.
LockFlags == IF IsLocked THEN stakingOnly ELSE FALSE

-----------------------------------------------------------------------------
(* The key pool operations.                                                *)

\* GetKeyFromPool: reserve the oldest key and KeepKey it; with the pool
\* empty, a locked wallet fails and an unlocked one takes a fresh key from
\* GenerateNewKey, outside the pool.
GetKeyFromPool(kp, locked) ==
  LET r == ReserveKeyFromKeyPool(kp, locked)
  IN  IF r.idx # -1
        THEN [ok |-> TRUE, kp |-> [r.kp EXCEPT !.db = KeepKey(@, r.idx)], key |-> r.key]
      ELSE [ok |-> ~locked, kp |-> [r.kp EXCEPT !.n = @ + 1], key |-> r.kp.n + 1]

\* getnewaddress / getnewpubkey: TopUpKeyPool when unlocked, then
\* GetKeyFromPool.  A failure ("Keypool ran out") changes nothing.
getnewaddress ==
  LET r == GetKeyFromPool(TopUpIfUnlocked(KP, 0, IsLocked), IsLocked)
  IN  /\ Idle
      /\ IsLocked \/ TopUpFits(KP, 0)
      /\ r.ok /\ r.kp.n <= MaxKeys
      /\ SetKP(r.kp)
      /\ HandOut(r.key)
      /\ UNCHANGED <<lockVars, plainKeys, down, restarts>>

\* The key part of sendtoaddress (SendMoney -> CreateTransaction ->
\* CommitTransaction) on an unlocked wallet not in staking-only mode: the
\* change key is reserved (TopUpKeyPool first); a change output keeps it
\* (KeepKey), dust change or no change returns it (ReturnKey puts the index
\* back into setKeyPool).  The coins are modelled in WalletCoins.
SendMoney ==
  LET r == ReserveKeyFromKeyPool(KP, IsLocked)
  IN  /\ Idle /\ ~IsLocked /\ ~stakingOnly
      /\ TopUpFits(KP, 0)
      /\ \/ /\ SetKP([r.kp EXCEPT !.db = KeepKey(@, r.idx)])   \* change output
            /\ HandOut(r.key)
         \/ /\ SetKP([r.kp EXCEPT !.set = @ \cup {r.idx}])      \* ReturnKey
            /\ UNCHANGED <<handed, handedCrypted>>
      /\ UNCHANGED <<lockVars, plainKeys, down, restarts>>

\* keypoolrefill newsize: EnsureWalletIsUnlocked, then TopUpKeyPool(newsize).
KeypoolRefill(size) ==
  /\ Idle /\ ~IsLocked /\ ~stakingOnly
  /\ TopUpFits(KP, size)
  /\ SetKP(TopUp(KP, size))
  /\ UNCHANGED <<lockVars, plainKeys, handed, handedCrypted, down, restarts>>

-----------------------------------------------------------------------------
(* The lock state.                                                         *)

\* CWallet::Unlock: an unlocked wallet not in staking-only mode returns
\* true at once, without checking the passphrase; otherwise the passphrase
\* must decrypt the master key.
UnlockOk(p) == (~IsLocked /\ ~stakingOnly) \/ p = passphrase

\* Mutant: the deadline is set but no lockwallet job is scheduled unless
\* one was pending.
WalletPassphraseNoTimer(p, mode, validTimeout) ==
  /\ Idle /\ crypted
  /\ UnlockOk(p)
  /\ TopUpFits(KP, 0)
  /\ SetKP(TopUp(KP, 0))
  /\ IF validTimeout
       THEN /\ keysLocked' = FALSE
            /\ stakingOnly' = (mode = "staking")
            /\ unlockTime' = TRUE /\ timer' = timer
            /\ requested' = mode
       ELSE /\ keysLocked' = TRUE /\ stakingOnly' = FALSE
            /\ UNCHANGED <<unlockTime, timer, requested>>
  /\ UNCHANGED <<crypted, passphrase, plainKeys, handed, handedCrypted, down, restarts, changing>>

\* walletpassphrase p timeout [stakingonly]: Unlock, TopUpKeyPool, then
\* either Lock again for a bad timeout, or set nWalletUnlockTime, replace
\* the lockwallet timer and set fWalletUnlockStakingOnly.
WalletPassphrase(p, mode, validTimeout) ==
  /\ Idle /\ crypted
  /\ UnlockOk(p)
  /\ TopUpFits(KP, 0)
  /\ SetKP(TopUp(KP, 0))
  /\ IF validTimeout
       THEN /\ keysLocked' = FALSE
            /\ stakingOnly' = (mode = "staking")
            /\ unlockTime' = TRUE /\ timer' = TRUE
            /\ requested' = mode
       ELSE /\ keysLocked' = TRUE /\ stakingOnly' = FALSE
            /\ UNCHANGED <<unlockTime, timer, requested>>
  /\ UNCHANGED <<crypted, passphrase, plainKeys, handed, handedCrypted, down, restarts, changing>>

\* The lockwallet timer: LockWallet sets nWalletUnlockTime = 0 and Locks.
LockWallet ==
  /\ ~down /\ timer
  /\ keysLocked' = TRUE /\ stakingOnly' = LockFlags
  /\ unlockTime' = FALSE /\ timer' = FALSE
  /\ UNCHANGED <<crypted, passphrase, requested, poolVars, down, restarts, changing>>

\* walletlock: Lock and nWalletUnlockTime = 0; the pending timer stays.
WalletLock ==
  /\ Idle /\ crypted
  /\ keysLocked' = TRUE /\ stakingOnly' = LockFlags
  /\ unlockTime' = FALSE
  /\ UNCHANGED <<crypted, passphrase, timer, requested, poolVars, down, restarts, changing>>

\* walletpassphrasechange old new, first part: fWasLocked = IsLocked(),
\* read before LOCK(cs_wallet); the lockwallet timer may run before the
\* rest.
WalletPassphraseChange(old, new) ==
  /\ Idle /\ crypted
  /\ changing' = [was |-> IsLocked, old |-> old, new |-> new]
  /\ UNCHANGED <<crypted, passphrase, keysLocked, stakingOnly, unlockTime, timer, requested,
                 poolVars, down, restarts>>

\* Mutant: fWasLocked read again once cs_wallet is held.
ChangeUnderLockRereads(c) == [c EXCEPT !.was = IsLocked]

\* fWasLocked as ChangeWalletPassphrase uses it: the value read before
\* cs_wallet was taken.
WasLocked(c) == c

\* The rest under cs_wallet: Lock(); the old passphrase must decrypt the
\* master key (else return false, the wallet left locked);
\* CCryptoKeyStore::Unlock, re-encrypt the master key with the new
\* passphrase, and Lock() again if fWasLocked.
ChangeWalletPassphrase ==
  LET c  == WasLocked(changing)
      ok == c.old = passphrase
  IN  /\ ~down /\ changing # NoChange
      /\ keysLocked' = (~ok \/ c.was)
      /\ stakingOnly' = IF ok /\ c.was THEN FALSE ELSE LockFlags
      /\ passphrase' = IF ok THEN c.new ELSE passphrase
      /\ changing' = NoChange
      /\ UNCHANGED <<crypted, unlockTime, timer, requested, poolVars, down, restarts>>

\* Mutant: NewKeyPool clears setKeyPool without erasing its records.
NewKeyPoolNoErase(kp) ==
  [set |-> 1..KeypoolSize,
   db  |-> [i \in Indices |-> IF i \in 1..KeypoolSize THEN kp.n + i ELSE kp.db[i]],
   n   |-> kp.n + KeypoolSize]

\* NewKeyPool on the unlocked wallet: ErasePool every index of setKeyPool,
\* clear it, then write keys 1..-keypool.
NewKeyPool(kp) ==
  [set |-> 1..KeypoolSize,
   db  |-> [i \in Indices |-> IF i \in 1..KeypoolSize THEN kp.n + i
                              ELSE IF i \in kp.set THEN NoKey ELSE kp.db[i]],
   n   |-> kp.n + KeypoolSize]

\* CWallet::EncryptWallet(p) on a plain wallet: new master key,
\* EncryptKeys, commit, then Lock, Unlock(p), NewKeyPool, Lock.
EncryptWallet(p) ==
  /\ ~crypted
  /\ crypted' = TRUE /\ passphrase' = p
  /\ keysLocked' = TRUE /\ stakingOnly' = FALSE
  /\ SetKP(NewKeyPool(KP))
  /\ plainKeys' = nKeys

\* encryptwallet p: refused on an encrypted wallet; else EncryptWallet,
\* then StartShutdown, so slack space with plain keys is not reused.
encryptwallet(p) ==
  /\ Idle
  /\ nKeys + KeypoolSize <= MaxKeys
  /\ EncryptWallet(p)
  /\ down' = TRUE
  /\ UNCHANGED <<unlockTime, timer, requested, handed, handedCrypted, restarts, changing>>

\* The node stops (after encryptwallet, or killed) and starts again:
\* memory is lost, LoadWallet reads the pool records back into setKeyPool
\* and an encrypted wallet comes up locked.
Restart ==
  /\ down \/ restarts < MaxRestarts
  /\ restarts' = IF down THEN restarts ELSE restarts + 1
  /\ down' = FALSE
  /\ setKeyPool' = {i \in Indices : poolDB[i] # NoKey}
  /\ keysLocked' = TRUE /\ stakingOnly' = FALSE
  /\ unlockTime' = FALSE /\ timer' = FALSE /\ requested' = "none"
  /\ changing' = NoChange
  /\ UNCHANGED <<crypted, passphrase, poolDB, nKeys, plainKeys, handed, handedCrypted>>

-----------------------------------------------------------------------------

\* A wallet with a topped-up pool, unencrypted or encrypted and locked.
Init ==
  /\ \/ crypted = FALSE /\ passphrase = NoPass
     \/ crypted = TRUE /\ passphrase \in Passphrases
  /\ keysLocked = TRUE /\ stakingOnly = FALSE
  /\ unlockTime = FALSE /\ timer = FALSE /\ requested = "none"
  /\ setKeyPool = 1..(KeypoolSize + 1)
  /\ poolDB = [i \in Indices |-> IF i <= KeypoolSize + 1 THEN i ELSE NoKey]
  /\ nKeys = KeypoolSize + 1
  /\ plainKeys = IF crypted THEN 0 ELSE nKeys
  /\ handed = EmptyBag /\ handedCrypted = {}
  /\ down = FALSE /\ restarts = 0 /\ changing = NoChange

Next ==
  \/ getnewaddress
  \/ SendMoney
  \/ \E n \in RefillSizes : KeypoolRefill(n)
  \/ \E p \in Passphrases, mode \in {"full", "staking"}, v \in BOOLEAN :
       WalletPassphrase(p, mode, v)
  \/ LockWallet
  \/ WalletLock
  \/ \E old, new \in Passphrases : WalletPassphraseChange(old, new)
  \/ ChangeWalletPassphrase
  \/ \E p \in Passphrases : encryptwallet(p)
  \/ Restart

Spec == Init /\ [][Next]_vars /\ WF_vars(LockWallet) /\ WF_vars(down /\ Restart)

-----------------------------------------------------------------------------
(* Properties.                                                             *)

TypeOK ==
  /\ crypted \in BOOLEAN /\ passphrase \in Passphrases \cup {NoPass}
  /\ keysLocked \in BOOLEAN /\ stakingOnly \in BOOLEAN
  /\ unlockTime \in BOOLEAN /\ timer \in BOOLEAN
  /\ requested \in {"none", "full", "staking"}
  /\ setKeyPool \subseteq Indices /\ poolDB \in [Indices -> Keys \cup {NoKey}]
  /\ nKeys \in 0..MaxKeys /\ plainKeys \in 0..nKeys
  /\ IsABag(handed) /\ BagToSet(handed) \subseteq Keys
  /\ handedCrypted \subseteq Keys
  /\ down \in BOOLEAN /\ restarts \in 0..MaxRestarts
  /\ changing \in {NoChange} \cup [was : BOOLEAN, old : Passphrases, new : Passphrases]

\* Every index in setKeyPool has its pool record in wallet.dat, so that
\* ReserveKeyFromKeyPool never throws "read failed": top-ups append past
\* the last index, KeepKey erases only reserved indices, NewKeyPool erases
\* what it clears and a restart reloads exactly the records.
PoolRecordsPresent == \A i \in setKeyPool : poolDB[i] # NoKey

\* After encryptwallet ("the keypool has been flushed, you need to make a
\* new backup"), every key handed out was made after encryption, so no
\* address given out is backed by a key that ever sat unencrypted on disk.
FlushedPoolKeysAreNew == \A k \in handedCrypted : k > plainKeys

\* An unlock with a deadline ends: while nWalletUnlockTime is set (the
\* "unlocked_until" getinfo reports), the encrypted wallet is eventually
\* locked again without anyone calling walletlock, because every
\* walletpassphrase that sets it also arms the lockwallet timer and only
\* the timer, walletlock and a restart clear it.
EventuallyRelocked == (crypted /\ ~keysLocked /\ unlockTime) ~> (keysLocked \/ down)

\* The key pool implements KeyDispenser: every step that keeps a key hands
\* out one no caller had, newer than all handed out before (KeepKey after
\* ReserveKeyFromKeyPool takes the oldest index, top-ups append newer keys,
\* NewKeyPool replaces the pool by newer keys, a restart reloads the same
\* records); every other step leaves the hand-outs alone.
KD == INSTANCE KeyDispenser WITH issued <- BagToSet(handed), count <- BagCardinality(handed)

KeysIssuedInOrder == KD!Spec

\* The wallet is fully unlocked (SendMoney and EnsureWalletIsUnlocked let
\* spending through) only under a full unlock the last walletpassphrase
\* asked for, and only while its deadline stands: fWalletUnlockStakingOnly
\* exists so that a staking-only unlock never allows sending, and the
\* timeout so that no unlock outlives it.  walletpassphrasechange, with
\* its Lock() and its fWasLocked read outside cs_wallet, is what is
\* examined here.
FullUnlockTimed ==
  (crypted /\ ~keysLocked /\ ~stakingOnly) => (requested = "full" /\ unlockTime)
=============================================================================

--------------------------- MODULE UnlockContext -----------------------------
(***************************************************************************)
(* The wallet's lock state as the GUI's WalletModel drives it              *)
(* (src/unnamed/part_000, qt/walletmodel.cpp): getEncryptionStatus, the    *)
(* setters setWalletEncrypted, setWalletLocked, changePassphrase and       *)
(* setWalletUnlockStakingOnly, and the scoped UnlockContext that           *)
(* requestUnlock returns, here as bumpFee uses it.                        *)
(*                                                                         *)
(* The wallet has three pieces of state: whether it is encrypted, whether  *)
(* it is locked (IsLocked(): encrypted and no master key in memory), and   *)
(* m_wallet_unlock_staking_only (yupostutils.h:1138), "unlocked for        *)
(* staking only", which serves to disable the trivial sendmoney.  All of   *)
(* this runs on the GUI thread, so a bumpFee call is a sequence of steps   *)
(* that no other setter interleaves with; the unlock dialog that          *)
(* requireUnlock opens is the user's step inside it.                      *)
(***************************************************************************)

VARIABLES
    crypted,             \* IsCrypted()
    locked,              \* IsLocked()
    stakingOnly,         \* m_wallet_unlock_staking_only
    privateKeysDisabled, \* WALLET_FLAG_DISABLE_PRIVATE_KEYS
    bpc,                 \* where the current bumpFee call is
    wasLocked,           \* requestUnlock's was_locked
    ctx,                 \* the UnlockContext: [valid, relock, stakingOnly]
    result,              \* what the last bumpFee returned
    before               \* history: [locked, stakingOnly] when requestUnlock began

vars == <<crypted, locked, stakingOnly, privateKeysDisabled, bpc, wasLocked, ctx,
          result, before>>

BumpPcs == {"idle", "dialog", "construct", "body", "release"}

Contexts == [valid : BOOLEAN, relock : BOOLEAN, stakingOnly : BOOLEAN]

NoContext == [valid |-> FALSE, relock |-> FALSE, stakingOnly |-> FALSE]

-----------------------------------------------------------------------------
(* getEncryptionStatus: Unencrypted, else Locked or Unlocked.              *)
EncryptionStatus ==
    IF ~crypted THEN "Unencrypted" ELSE IF locked THEN "Locked" ELSE "Unlocked"

(* CWallet::Lock() (setWalletLocked(true)): refused for a wallet that is   *)
(* not encrypted; otherwise the master key is dropped.                   *)
LockedAfterLock == IF crypted THEN TRUE ELSE locked

(* A wallet is loaded locked if it is encrypted.  A wallet with private    *)
(* keys disabled cannot be encrypted.                                     *)
Init ==
    /\ crypted \in BOOLEAN
    /\ privateKeysDisabled \in BOOLEAN
    /\ crypted => ~privateKeysDisabled
    /\ locked = crypted
    /\ stakingOnly = FALSE
    /\ bpc = "idle"
    /\ wasLocked = FALSE
    /\ ctx = NoContext
    /\ result = "none"
    /\ before = [locked |-> FALSE, stakingOnly |-> FALSE]

-----------------------------------------------------------------------------
(***************************************************************************)
(* The setters, called by the GUI's menus and dialogs between operations.  *)
(***************************************************************************)

idleUnchanged == UNCHANGED <<privateKeysDisabled, bpc, wasLocked, ctx, result, before>>

(* setWalletEncrypted(true): encryptWallet, which leaves the wallet       *)
(* encrypted and locked; decryption is not supported and returns false.  *)
SetWalletEncrypted ==
    /\ bpc = "idle"
    /\ ~crypted
    /\ ~privateKeysDisabled
    /\ crypted' = TRUE
    /\ locked' = TRUE
    /\ UNCHANGED stakingOnly
    /\ idleUnchanged

(* setWalletLocked(true): lock().                                          *)
LockWallet ==
    /\ bpc = "idle"
    /\ locked' = LockedAfterLock
    /\ UNCHANGED <<crypted, stakingOnly>>
    /\ idleUnchanged

(* setWalletLocked(false, passphrase) with the right passphrase: unlock(). *)
UnlockWallet ==
    /\ bpc = "idle"
    /\ crypted
    /\ locked' = FALSE
    /\ UNCHANGED <<crypted, stakingOnly>>
    /\ idleUnchanged

(* changePassphrase: lock() first; changeWalletPassphrase then unlocks     *)
(* with the old passphrase and relocks, since the wallet was locked.      *)
ChangePassphrase ==
    /\ bpc = "idle"
    /\ crypted
    /\ locked' = TRUE
    /\ UNCHANGED <<crypted, stakingOnly>>
    /\ idleUnchanged

(* setWalletUnlockStakingOnly(unlock).                                     *)
SetWalletUnlockStakingOnly(b) ==
    /\ bpc = "idle"
    /\ stakingOnly' = b
    /\ UNCHANGED <<crypted, locked>>
    /\ idleUnchanged

-----------------------------------------------------------------------------
(***************************************************************************)
(* requestUnlock and the UnlockContext.                                    *)
(***************************************************************************)

(* Fault model for the relock argument of requestUnlock: taken from the   *)
(* lock state after the dialog instead of was_locked.                     *)
RelockFromCurrentStatus(wl) == EncryptionStatus = "Locked" /\ ~stakingOnly

(* The relock argument: relock a wallet that had to be unlocked, unless it *)
(* is unlocked for staking only.                                          *)
Relock(wl) == wl /\ ~stakingOnly

(* Fault model for the constructor: the flag is saved but not cleared.    *)
ContextCtorKeepingFlag(valid, relock) ==
    /\ ctx' = [valid |-> valid, relock |-> relock,
               stakingOnly |-> IF relock THEN FALSE ELSE stakingOnly]
    /\ UNCHANGED stakingOnly

(* Fault model for the constructor: the flag is cleared without being     *)
(* saved, so the destructor restores false.                               *)
ContextCtorNotSaving(valid, relock) ==
    /\ ctx' = [valid |-> valid, relock |-> relock, stakingOnly |-> FALSE]
    /\ stakingOnly' = IF relock THEN stakingOnly ELSE FALSE

(* UnlockContext(wallet, valid, relock): a context that will not relock    *)
(* saves the staking-only flag and clears it for its lifetime.            *)
ContextCtor(valid, relock) ==
    /\ ctx' = [valid |-> valid, relock |-> relock,
               stakingOnly |-> IF relock THEN FALSE ELSE stakingOnly]
    /\ stakingOnly' = IF relock THEN stakingOnly ELSE FALSE

(* ~UnlockContext: a valid context that relocks locks the wallet; one that *)
(* does not relock restores the flag it saved (updateStatus only emits a   *)
(* signal).                                                               *)
ContextDtor ==
    /\ locked' = IF ctx.valid /\ ctx.relock THEN LockedAfterLock ELSE locked
    /\ stakingOnly' = IF ctx.relock THEN stakingOnly ELSE ctx.stakingOnly
    /\ ctx' = NoContext

-----------------------------------------------------------------------------
(***************************************************************************)
(* bumpFee.                                                                *)
(***************************************************************************)

(* createBumpTransaction fails, or the user does not confirm the fee bump: *)
(* bumpFee returns false before requesting an unlock.                     *)
BumpFeeRefused ==
    /\ bpc = "idle"
    /\ result' = "false"
    /\ UNCHANGED <<crypted, locked, stakingOnly, privateKeysDisabled, bpc, wasLocked,
                   ctx, before>>

(* The user confirms; requestUnlock starts: a wallet unlocked for staking  *)
(* only is locked first, and a locked wallet emits requireUnlock.         *)
RequestUnlock ==
    /\ bpc = "idle"
    /\ LET relockFirst == ~(crypted /\ locked) /\ stakingOnly
           lockedNow   == IF relockFirst THEN LockedAfterLock ELSE locked
       IN  /\ locked' = lockedNow
           /\ wasLocked' = (crypted /\ lockedNow)
           /\ bpc' = IF crypted /\ lockedNow THEN "dialog" ELSE "construct"
    /\ before' = [locked |-> locked, stakingOnly |-> stakingOnly]
    /\ UNCHANGED <<crypted, stakingOnly, privateKeysDisabled, ctx, result>>

(* The unlock dialog: the user enters the passphrase, or cancels.          *)
UnlockDialog ==
    /\ bpc = "dialog"
    /\ \/ locked' = FALSE
       \/ UNCHANGED locked
    /\ bpc' = "construct"
    /\ UNCHANGED <<crypted, stakingOnly, privateKeysDisabled, wasLocked, ctx, result,
                   before>>

(* requestUnlock returns UnlockContext(this, valid, relock); bumpFee       *)
(* returns false at once when the context is not valid.                   *)
ConstructContext ==
    /\ bpc = "construct"
    /\ LET valid == ~(crypted /\ locked)
       IN  /\ ContextCtor(valid, Relock(wasLocked))
           /\ bpc' = IF valid THEN "body" ELSE "release"
           /\ result' = IF valid THEN result ELSE "false"
    /\ UNCHANGED <<crypted, locked, privateKeysDisabled, wasLocked, before>>

(* With private keys disabled, fillPSBT drafts the bump (it fails, or is   *)
(* complete, or not); otherwise signBumpTransaction, which fails on a     *)
(* locked wallet, and commitBumpTransaction, which may fail.              *)
BumpBody ==
    /\ bpc = "body"
    /\ IF privateKeysDisabled \/ ~(crypted /\ locked)
       THEN result' \in {"true", "false"}
       ELSE result' = "false"
    /\ bpc' = "release"
    /\ UNCHANGED <<crypted, locked, stakingOnly, privateKeysDisabled, wasLocked, ctx,
                   before>>

(* bumpFee returns and the context is destroyed.                           *)
ReleaseContext ==
    /\ bpc = "release"
    /\ ContextDtor
    /\ bpc' = "idle"
    /\ UNCHANGED <<crypted, privateKeysDisabled, wasLocked, result, before>>

Next ==
    \/ SetWalletEncrypted
    \/ LockWallet
    \/ UnlockWallet
    \/ ChangePassphrase
    \/ \E b \in BOOLEAN : SetWalletUnlockStakingOnly(b)
    \/ BumpFeeRefused
    \/ RequestUnlock
    \/ UnlockDialog
    \/ ConstructContext
    \/ BumpBody
    \/ ReleaseContext

Spec == Init /\ [][Next]_vars

-----------------------------------------------------------------------------
(***************************************************************************)
(* Properties.                                                             *)
(***************************************************************************)

TypeOK ==
    /\ crypted \in BOOLEAN
    /\ locked \in BOOLEAN
    /\ stakingOnly \in BOOLEAN
    /\ privateKeysDisabled \in BOOLEAN
    /\ bpc \in BumpPcs
    /\ wasLocked \in BOOLEAN
    /\ ctx \in Contexts
    /\ result \in {"none", "true", "false"}
    /\ before \in [locked : BOOLEAN, stakingOnly : BOOLEAN]

(* Inside a valid context the wallet can spend: it is unlocked and not     *)
(* unlocked for staking only, whatever lock state and staking-only flag    *)
(* the setters left before bumpFee asked for the unlock.                 *)
ValidContextCanSpend == bpc = "body" => EncryptionStatus # "Locked" /\ ~stakingOnly

(* A wallet that was locked (and not unlocked for staking) when the GUI    *)
(* asked the user to unlock it is locked again when the context ends: the *)
(* passphrase entered for one operation does not leave the keys in memory. *)
RelockAfterUnlock ==
    [][ReleaseContext => (before.locked /\ ~before.stakingOnly => locked')]_vars

(* A wallet unlocked for staking only is never left able to spend: when   *)
(* the context ends it is locked or back to staking only.                 *)
StakingOnlyNotWidened ==
    [][ReleaseContext => (before.stakingOnly => locked' \/ stakingOnly')]_vars

(* "If wallet is still locked, unlock was failed or cancelled, mark        *)
(* context as invalid" (requestUnlock): a context that ends invalid, the   *)
(* user having cancelled the unlock dialog, leaves the wallet's lock state *)
(* as it was before requestUnlock.                                        *)
InvalidContextNoEffect ==
    [][ReleaseContext /\ ~ctx.valid =>
         locked' = before.locked /\ stakingOnly' = before.stakingOnly]_vars

=============================================================================

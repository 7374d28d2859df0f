------------------------ MODULE UnlockContextProofs --------------------------
(***************************************************************************)
(* Proofs that the UnlockContext protocol of WalletModel keeps its three   *)
(* promises for every sequence of setter calls and bumpFee calls.         *)
(***************************************************************************)
EXTENDS UnlockContext, TLAPS

(* IsLocked() implies IsCrypted(): only an encrypted wallet is locked.     *)
LockedOnlyIfCrypted == locked => crypted

(* From requestUnlock on a wallet locked and not unlocked for staking, the *)
(* call holds was_locked, the flag stays clear, and the context that is    *)
(* built relocks, unless the wallet is still locked anyway.               *)
RelockPending ==
    before.locked /\ ~before.stakingOnly =>
        /\ bpc \in {"dialog", "construct"} => wasLocked /\ ~stakingOnly /\ crypted
        /\ bpc \in {"body", "release"} => crypted /\ (locked \/ (ctx.valid /\ ctx.relock))

(* From requestUnlock on a wallet unlocked for staking only, the flag is   *)
(* still set until the context is built, and the context saved it.        *)
StakingOnlySaved ==
    before.stakingOnly =>
        /\ bpc \in {"dialog", "construct"} => stakingOnly
        /\ bpc \in {"body", "release"} => ~ctx.relock /\ ctx.stakingOnly

IInv ==
    /\ TypeOK
    /\ LockedOnlyIfCrypted
    /\ ValidContextCanSpend
    /\ RelockPending
    /\ StakingOnlySaved

-----------------------------------------------------------------------------
LEMMA InitIInv == Init => IInv
<1> SUFFICES ASSUME Init PROVE IInv
  OBVIOUS
<1>1. ctx \in Contexts /\ before \in [locked : BOOLEAN, stakingOnly : BOOLEAN]
  BY DEF Init, NoContext, Contexts
<1>2. TypeOK
  BY <1>1 DEF Init, TypeOK, BumpPcs
<1>3. ~before.locked /\ ~before.stakingOnly /\ bpc = "idle"
  BY DEF Init
<1> QED
  BY <1>2, <1>3 DEF Init, IInv, LockedOnlyIfCrypted, ValidContextCanSpend, RelockPending,
                    StakingOnlySaved

LEMMA IInvStep == IInv /\ [Next]_vars => IInv'
<1> SUFFICES ASSUME IInv, [Next]_vars PROVE IInv'
  OBVIOUS
<1> USE DEF IInv, TypeOK, LockedOnlyIfCrypted, ValidContextCanSpend, RelockPending,
            StakingOnlySaved, EncryptionStatus, BumpPcs, Contexts, NoContext,
            LockedAfterLock
<1>1. CASE SetWalletEncrypted
  BY <1>1 DEF SetWalletEncrypted, idleUnchanged
<1>2. CASE LockWallet
  BY <1>2 DEF LockWallet, idleUnchanged
<1>3. CASE UnlockWallet
  BY <1>3 DEF UnlockWallet, idleUnchanged
<1>4. CASE ChangePassphrase
  BY <1>4 DEF ChangePassphrase, idleUnchanged
<1>5. ASSUME NEW b \in BOOLEAN, SetWalletUnlockStakingOnly(b) PROVE IInv'
  BY <1>5 DEF SetWalletUnlockStakingOnly, idleUnchanged
<1>6. CASE BumpFeeRefused
  BY <1>6 DEF BumpFeeRefused
<1>7. CASE RequestUnlock
  BY <1>7 DEF RequestUnlock
<1>8. CASE UnlockDialog
  <2>1. CASE locked' = FALSE
    BY <1>8, <2>1 DEF UnlockDialog
  <2>2. CASE UNCHANGED locked
    BY <1>8, <2>2 DEF UnlockDialog
  <2> QED
    BY <1>8, <2>1, <2>2 DEF UnlockDialog
<1>9. CASE ConstructContext
  BY <1>9 DEF ConstructContext, ContextCtor, Relock
<1>10. CASE BumpBody
  BY <1>10 DEF BumpBody
<1>11. CASE ReleaseContext
  BY <1>11 DEF ReleaseContext, ContextDtor
<1>12. CASE UNCHANGED vars
  BY <1>12 DEF vars
<1> QED
  BY <1>1, <1>2, <1>3, <1>4, <1>5, <1>6, <1>7, <1>8, <1>9, <1>10, <1>11, <1>12 DEF Next

LEMMA IInvInvariant == Spec => []IInv
BY InitIInv, IInvStep, PTL DEF Spec

-----------------------------------------------------------------------------
(* For every sequence of calls, the lock state, the context and the       *)
(* progress of bumpFee stay within their types.                           *)
THEOREM TypeCorrect == Spec => []TypeOK
<1>1. IInv => TypeOK
  BY DEF IInv
<1> QED
  BY <1>1, IInvInvariant, PTL

(* For every sequence of lock, unlock, encrypt, passphrase-change and      *)
(* staking-only calls, the body of bumpFee runs only on a wallet that can  *)
(* spend: unlocked and not unlocked for staking only.                     *)
THEOREM ValidContextCanSpendInvariant == Spec => []ValidContextCanSpend
<1>1. IInv => ValidContextCanSpend
  BY DEF IInv
<1> QED
  BY <1>1, IInvInvariant, PTL

(* Releasing a context never leaves unlocked a wallet that was locked, and *)
(* not unlocked for staking, when the unlock was requested.               *)
THEOREM RelockAfterUnlockHolds == Spec => RelockAfterUnlock
<1>1. IInv /\ [Next]_vars => [ReleaseContext => (before.locked /\ ~before.stakingOnly => locked')]_vars
  <2> SUFFICES ASSUME IInv, [Next]_vars, ReleaseContext,
                      before.locked, ~before.stakingOnly
               PROVE  locked'
    BY DEF vars
  <2>1. crypted /\ (locked \/ (ctx.valid /\ ctx.relock))
    BY DEF IInv, RelockPending, ReleaseContext
  <2> QED
    BY <2>1 DEF ReleaseContext, ContextDtor, LockedAfterLock
<1> QED
  BY <1>1, IInvInvariant, PTL DEF Spec, RelockAfterUnlock

(* Releasing a context never widens a staking-only unlock into one that    *)
(* can spend: the wallet ends locked or unlocked for staking only.        *)
THEOREM StakingOnlyNotWidenedHolds == Spec => StakingOnlyNotWidened
<1>1. IInv /\ [Next]_vars => [ReleaseContext => (before.stakingOnly => locked' \/ stakingOnly')]_vars
  <2> SUFFICES ASSUME IInv, [Next]_vars, ReleaseContext, before.stakingOnly
               PROVE  locked' \/ stakingOnly'
    BY DEF vars
  <2>1. ~ctx.relock /\ ctx.stakingOnly
    BY DEF IInv, StakingOnlySaved, ReleaseContext
  <2> QED
    BY <2>1 DEF ReleaseContext, ContextDtor
<1> QED
  BY <1>1, IInvInvariant, PTL DEF Spec, StakingOnlyNotWidened
=============================================================================

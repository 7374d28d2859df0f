------------------------ MODULE WalletModelSyncProofs ------------------------
(***************************************************************************)
(* Proofs about the WalletModel refresh protocol, for every value of the   *)
(* constants that ConstantsAssumption allows.                              *)
(***************************************************************************)
EXTENDS WalletModelSync, TLAPS

-----------------------------------------------------------------------------
(* The constructor's state is well typed.                                  *)
LEMMA InitType == Init => TypeOK
<1> SUFFICES ASSUME Init PROVE TypeOK
  OBVIOUS
<1> USE ConstantsAssumption DEF Init
<1>1. /\ chainTip \in 0..MaxHeight
      /\ walletTip \in 0..MaxHeight
      /\ cachedNumBlocks \in 0..MaxHeight
  OBVIOUS
<1>2. /\ txEvents \in 0..MaxEvents
      /\ abEvents \in 0..MaxEvents
      /\ pollNum \in 0..PollSyncSkip
      /\ workerQueue \in 0..MaxQueued
  OBVIOUS
<1>3. /\ cachedBalances \in Balances
      /\ nWeight \in Weights
      /\ shownAddresses \in AddressLists
      /\ wAddresses \in AddressLists
  OBVIOUS
<1>4. wpc \in WorkerPcs
  BY DEF WorkerPcs
<1> QED
  BY <1>1, <1>2, <1>3, <1>4 DEF TypeOK

(* Every step of the core, the GUI thread and the worker keeps the state  *)
(* well typed.                                                            *)
LEMMA TypeStep == TypeOK /\ [Next]_vars => TypeOK'
<1> USE ConstantsAssumption
<1> SUFFICES ASSUME TypeOK, [Next]_vars PROVE TypeOK'
  OBVIOUS
<1>0. /\ wallet.bal \in Balances
      /\ wallet.weight \in Weights
      /\ wallet.addrs \in AddressLists
  BY DEF TypeOK, WalletState
<1>1. CASE WalletTxChanged
  BY <1>1 DEF WalletTxChanged, NotifyTransactionChanged, TypeOK, guiVars, workerVars
<1>2. CASE ChainBlockConnected
  BY <1>2 DEF ChainBlockConnected, TypeOK, guiVars, workerVars, histVars
<1>3. CASE WalletBlockConnected
  <2>1. CASE txEvents < MaxEvents /\ NotifyTransactionChanged /\ txSinceRead' = TRUE
    BY <1>3, <2>1 DEF WalletBlockConnected, NotifyTransactionChanged, TypeOK, guiVars,
                      workerVars
  <2>2. CASE UNCHANGED <<txEvents, txSinceRead>>
    BY <1>3, <2>2 DEF WalletBlockConnected, TypeOK, guiVars, workerVars
  <2> QED
    BY <1>3, <2>1, <2>2 DEF WalletBlockConnected
<1>4. CASE AddressBookChanged
  BY <1>4 DEF AddressBookChanged, TypeOK, WalletState, guiVars, workerVars, histVars
<1>5. CASE SyncStateChanged \/ ShutdownRequested
  BY <1>5 DEF SyncStateChanged, ShutdownRequested, TypeOK, guiVars, workerVars, histVars
<1>6. CASE TimerFires(PollReturnsEarly)
  BY <1>6 DEF TimerFires, PollReturnsEarly, PostUpdateModel, NextPollNum, TypeOK,
              coreVars, histVars
<1>7. CASE TimerFires(PollSucceeds)
  <2>1. UNCHANGED <<coreVars, wpc, wAddresses, nWeight, shownAddresses>>
    BY <1>7 DEF TimerFires, PollSucceeds, ReadBalances
  <2>2. /\ pollNum' = 0
        /\ cachedNumBlocks' = chainTip
        /\ cachedBalances' = wallet.bal
        /\ fForceCheckBalanceChanged' \in BOOLEAN
        /\ updateCoinAddresses' \in BOOLEAN
        /\ updateStakeWeight' \in BOOLEAN
        /\ stakeRequestAfterRead' \in BOOLEAN
        /\ addrRequestAfterRead' \in BOOLEAN
        /\ txSinceRead' \in BOOLEAN
    BY <1>7 DEF TimerFires, PollSucceeds, ReadBalances
  <2>3. workerQueue' \in 0..MaxQueued
    BY <1>7 DEF TimerFires, PostUpdateModel, TypeOK
  <2> QED
    BY <1>0, <2>1, <2>2, <2>3 DEF TypeOK, coreVars
<1>8. CASE UpdateTransaction
  BY <1>8 DEF UpdateTransaction, TypeOK, workerVars, histVars
<1>9. CASE UpdateAddressBook
  BY <1>9 DEF UpdateAddressBook, CheckCoinAddresses, TypeOK, workerVars
<1>10. CASE UpdateModel
  <2>1. workerQueue' \in 0..MaxQueued
    BY <1>10 DEF UpdateModel, TypeOK
  <2>2. wpc' \in WorkerPcs
    BY <1>10 DEF UpdateModel, WorkerPcs
  <2> QED
    BY <1>10, <2>1, <2>2 DEF UpdateModel, workerUnchanged, TypeOK, coreVars
<1>15. CASE StakeWeightRead
  BY <1>15 DEF StakeWeightRead, workerUnchanged, TypeOK, WorkerPcs, coreVars
<1>11. CASE CheckCoinAddressesChanged
  BY <1>0, <1>11 DEF CheckCoinAddressesChanged, ReadStarted, workerUnchanged, TypeOK,
                     WorkerPcs, coreVars
<1>12. CASE EmitAvailableAddresses
  BY <1>12 DEF EmitAvailableAddresses, workerUnchanged, TypeOK, WorkerPcs, coreVars
<1>13. CASE CheckStakeWeightChanged
  BY <1>0, <1>13 DEF CheckStakeWeightChanged, ReadStarted, workerUnchanged, TypeOK,
                     WorkerPcs, coreVars
<1>14. CASE UNCHANGED vars
  BY <1>14 DEF vars, coreVars, guiVars, workerVars, histVars, TypeOK
<1> QED
  BY <1>1, <1>2, <1>3, <1>4, <1>5, <1>6, <1>7, <1>8, <1>9, <1>10, <1>11, <1>12,
     <1>13, <1>14, <1>15 DEF Next, Core, Gui, Worker, PollBalanceChanged

(* Every reachable state of the protocol is well typed: the heights stay   *)
(* within 0..MaxHeight (so cachedNumBlocks is never pollBalanceChanged's  *)
(* -1 placeholder), the notification queues and pollNum stay within their *)
(* bounds and the worker is always at one of its steps.                   *)
THEOREM TypeCorrect == Spec => []TypeOK
BY InitType, TypeStep, PTL DEF Spec

-----------------------------------------------------------------------------
(* The inductive invariant behind NotifiedChangeNotLost: the type          *)
(* invariant (txEvents is a natural, so a posted notification makes it    *)
(* positive) together with the property itself.                          *)
IInv == TypeOK /\ NotifiedChangeNotLost

(* Only the steps that set txSinceRead, or that consume the pending        *)
(* updateTransaction, or that may clear fForceCheckBalanceChanged, can     *)
(* disturb the property; every other step leaves all three alone.          *)
LEMMA NotifiedChangeStep == IInv /\ [Next]_vars => NotifiedChangeNotLost'
<1> SUFFICES ASSUME IInv, [Next]_vars PROVE NotifiedChangeNotLost'
  OBVIOUS
<1>1. CASE WalletTxChanged
  BY <1>1 DEF WalletTxChanged, NotifyTransactionChanged, IInv, TypeOK, NotifiedChangeNotLost,
              guiVars
<1>2. CASE WalletBlockConnected
  <2>1. CASE txEvents < MaxEvents /\ NotifyTransactionChanged /\ txSinceRead' = TRUE
    BY <1>2, <2>1 DEF WalletBlockConnected, NotifyTransactionChanged, IInv, TypeOK,
                      NotifiedChangeNotLost, guiVars
  <2>2. CASE UNCHANGED <<txEvents, txSinceRead>>
    BY <1>2, <2>2 DEF WalletBlockConnected, IInv, NotifiedChangeNotLost, guiVars
  <2> QED
    BY <1>2, <2>1, <2>2 DEF WalletBlockConnected
<1>3. CASE TimerFires(PollSucceeds)
  BY <1>3 DEF TimerFires, PollSucceeds, ReadBalances, NotifiedChangeNotLost
<1>4. CASE UpdateTransaction
  BY <1>4 DEF UpdateTransaction, NotifiedChangeNotLost
<1>5. CASE \/ ChainBlockConnected \/ AddressBookChanged \/ SyncStateChanged
           \/ ShutdownRequested \/ TimerFires(PollReturnsEarly) \/ UpdateAddressBook
  BY <1>5 DEF ChainBlockConnected, AddressBookChanged, SyncStateChanged, ShutdownRequested,
              TimerFires, PollReturnsEarly, UpdateAddressBook, IInv, NotifiedChangeNotLost,
              coreVars, guiVars, histVars
<1>6. CASE Worker
  BY <1>6 DEF Worker, UpdateModel, CheckCoinAddressesChanged, EmitAvailableAddresses,
              CheckStakeWeightChanged, StakeWeightRead, workerUnchanged, IInv,
              NotifiedChangeNotLost, coreVars
<1>7. CASE UNCHANGED vars
  BY <1>7 DEF vars, coreVars, guiVars, histVars, IInv, NotifiedChangeNotLost
<1> QED
  BY <1>1, <1>2, <1>3, <1>4, <1>5, <1>6, <1>7 DEF Next, Core, Gui, PollBalanceChanged

(* A notification posted by NotifyTransactionChanged is never lost: in    *)
(* every reachable state, a wallet change that no successful              *)
(* pollBalanceChanged has read yet still has its updateTransaction call   *)
(* queued or has left fForceCheckBalanceChanged set.                      *)
THEOREM NotifiedChangeNotLostInvariant == Spec => []NotifiedChangeNotLost
<1>1. Init => IInv
  BY InitType DEF Init, IInv, NotifiedChangeNotLost
<1>2. IInv /\ [Next]_vars => IInv'
  BY TypeStep, NotifiedChangeStep DEF IInv
<1> QED
  BY <1>1, <1>2, PTL DEF Spec, IInv
====

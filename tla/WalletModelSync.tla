--------------------------- MODULE WalletModelSync ---------------------------
(***************************************************************************)
(* How the GUI's WalletModel keeps its copies of the core wallet's state   *)
(* fresh (src/unnamed/part_000, qt/walletmodel.cpp).                       *)
(*                                                                         *)
(* Three actors interleave:                                                *)
(*  - the core: wallet transactions change, blocks are connected to the    *)
(*    chain and later processed by the wallet, address-book entries are    *)
(*    added; each posts a queued notification to the GUI thread;           *)
(*  - the GUI thread: the poll timer runs pollBalanceChanged and posts an  *)
(*    updateModel event to the worker; queued notifications run           *)
(*    updateTransaction and checkCoinAddresses;                            *)
(*  - the WalletWorker thread: updateModel refreshes the coin-address      *)
(*    lists and the stake weight when the GUI has set a request flag.      *)
(*                                                                         *)
(* Wallet data (balances, stake weight, address lists) is abstracted to    *)
(* members of small sets; 0 is the empty / all-zero value.                 *)
(***************************************************************************)
EXTENDS Integers

CONSTANTS
    Balances,      \* abstract WalletBalances values
    Weights,       \* abstract stake weights
    AddressLists,  \* abstract (spendable, all) address lists
    MaxHeight,     \* bound on the chain height
    MaxEvents,     \* bound on queued notifications of one kind
    MaxQueued,     \* bound on queued updateModel events of the worker
    PollSyncSkip   \* the static pollSyncSkip (30 in the code)

ASSUME ConstantsAssumption ==
    /\ 0 \in Balances /\ 0 \in Weights /\ 0 \in AddressLists
    /\ MaxHeight \in Nat \ {0}
    /\ MaxEvents \in Nat \ {0}
    /\ MaxQueued \in Nat \ {0}
    /\ PollSyncSkip \in Nat \ {0}

VARIABLES
    (* the core wallet and the node *)
    wallet,          \* [bal, weight, addrs]: what the wallet would report now
    chainTip,        \* height of the node's active chain (numBlocks)
    walletTip,       \* last block the wallet has processed
    isSyncing,       \* node reports initial sync in progress
    shutdown,        \* node().shutdownRequested()
    txEvents,        \* queued updateTransaction invocations
    abEvents,        \* queued updateAddressBook invocations
    (* WalletModel members, GUI thread *)
    cachedBalances,  \* m_cached_balances
    cachedNumBlocks, \* cachedNumBlocks
    fForceCheckBalanceChanged,
    pollNum,
    updateCoinAddresses,
    updateStakeWeight,
    nWeight,
    shownAddresses,  \* last list emitted by availableAddressesChanged
    (* WalletWorker thread *)
    workerQueue,     \* queued updateModel events
    wpc,             \* where updateModel is
    wAddresses,      \* address list read by tryGetAvailableAddresses
    (* history *)
    txSinceRead,           \* a notified wallet change happened after the last balance read
    stakeRequestAfterRead, \* the GUI asked for the stake weight after the worker read it
    addrRequestAfterRead   \* the GUI asked for the address lists after the worker read them

coreVars == <<wallet, chainTip, walletTip, isSyncing, shutdown, txEvents, abEvents>>
guiVars == <<cachedBalances, cachedNumBlocks, fForceCheckBalanceChanged, pollNum,
             updateCoinAddresses, updateStakeWeight, nWeight, shownAddresses>>
workerVars == <<workerQueue, wpc, wAddresses>>
histVars == <<txSinceRead, stakeRequestAfterRead, addrRequestAfterRead>>
vars == <<coreVars, guiVars, workerVars, histVars>>

WalletState == [bal : Balances, weight : Weights, addrs : AddressLists]

WorkerPcs == {"idle", "addresses", "emitAddresses", "stake", "stakeDone"}

-----------------------------------------------------------------------------
(* WalletModel constructor: cachedNumBlocks(0), nWeight(0),               *)
(* updateStakeWeight(true), updateCoinAddresses(true); the wallet is      *)
(* loaded and has processed the chain up to its tip.                      *)
Init ==
    /\ wallet \in WalletState
    /\ chainTip = 1
    /\ walletTip = chainTip
    /\ isSyncing \in BOOLEAN
    /\ shutdown = FALSE
    /\ txEvents = 0
    /\ abEvents = 0
    /\ cachedBalances = 0
    /\ cachedNumBlocks = 0
    /\ fForceCheckBalanceChanged = FALSE
    /\ pollNum = 0
    /\ updateCoinAddresses = TRUE
    /\ updateStakeWeight = TRUE
    /\ nWeight = 0
    /\ shownAddresses = 0
    /\ workerQueue = 0
    /\ wpc = "idle"
    /\ wAddresses = 0
    /\ txSinceRead = FALSE
    /\ stakeRequestAfterRead = FALSE
    /\ addrRequestAfterRead = FALSE

-----------------------------------------------------------------------------
(***************************************************************************)
(* The core.                                                               *)
(***************************************************************************)

(* NotifyTransactionChanged: posts updateTransaction to the GUI thread.   *)
NotifyTransactionChanged == txEvents' = txEvents + 1

(* A wallet transaction is added or updated (under cs_wallet) and the     *)
(* notification is posted before the lock is released.  A change of the   *)
(* stake weight or of the address lists comes with a change of balance    *)
(* (a spend pays a fee, a receipt adds credit).                           *)
WalletTxChanged ==
    /\ txEvents < MaxEvents
    /\ \E w \in WalletState :
          /\ (w.weight # wallet.weight \/ w.addrs # wallet.addrs) => w.bal # wallet.bal
          /\ wallet' = w
    /\ NotifyTransactionChanged
    /\ txSinceRead' = TRUE
    /\ UNCHANGED <<chainTip, walletTip, isSyncing, shutdown, abEvents, guiVars, workerVars,
                   stakeRequestAfterRead, addrRequestAfterRead>>

(* The node connects a block; the wallet learns of it later.              *)
ChainBlockConnected ==
    /\ chainTip < MaxHeight
    /\ chainTip' = chainTip + 1
    /\ UNCHANGED <<wallet, walletTip, isSyncing, shutdown, txEvents, abEvents,
                   guiVars, workerVars, histVars>>

(* The wallet processes the next block: confirmations and maturity change *)
(* its balances and stake weight; if the block holds one of its           *)
(* transactions a transaction notification is posted.                     *)
WalletBlockConnected ==
    /\ walletTip < chainTip
    /\ walletTip' = walletTip + 1
    /\ wallet' \in WalletState
    /\ \/ /\ txEvents < MaxEvents
          /\ NotifyTransactionChanged
          /\ txSinceRead' = TRUE
       \/ UNCHANGED <<txEvents, txSinceRead>>
    /\ UNCHANGED <<chainTip, isSyncing, shutdown, abEvents, guiVars, workerVars,
                   stakeRequestAfterRead, addrRequestAfterRead>>

(* A receiving address is added to the address book: the address lists   *)
(* change and NotifyAddressBookChanged posts updateAddressBook.           *)
AddressBookChanged ==
    /\ abEvents < MaxEvents
    /\ \E a \in AddressLists : wallet' = [wallet EXCEPT !.addrs = a]
    /\ abEvents' = abEvents + 1
    /\ UNCHANGED <<chainTip, walletTip, isSyncing, shutdown, txEvents, guiVars,
                   workerVars, histVars>>

SyncStateChanged ==
    /\ isSyncing' = ~isSyncing
    /\ UNCHANGED <<wallet, chainTip, walletTip, shutdown, txEvents, abEvents,
                   guiVars, workerVars, histVars>>

ShutdownRequested ==
    /\ ~shutdown
    /\ shutdown' = TRUE
    /\ UNCHANGED <<wallet, chainTip, walletTip, isSyncing, txEvents, abEvents,
                   guiVars, workerVars, histVars>>

-----------------------------------------------------------------------------
(***************************************************************************)
(* The GUI thread.                                                         *)
(***************************************************************************)

(* Fault model for tryGetBalances: the force argument ignored, so only a *)
(* new height makes it read.                                              *)
TryGetBalancesIgnoringForce(numBlocks) == numBlocks # cachedNumBlocks

(* interfaces::Wallet::tryGetBalances(balances, num_blocks, force,        *)
(* cached_num_blocks): fails when the chain or wallet lock is busy, or    *)
(* when nothing is forced and the height equals the cached one.           *)
TryGetBalancesMaySucceed(numBlocks) ==
    fForceCheckBalanceChanged \/ numBlocks # cachedNumBlocks

(* checkBalanceChanged(new_balances): cache and report a different value. *)
CheckBalanceChanged(new) == new # cachedBalances

(* The second connection of the timer: updateModel is queued to the       *)
(* worker's thread.                                                       *)
PostUpdateModel ==
    workerQueue' = IF workerQueue < MaxQueued THEN workerQueue + 1 ELSE workerQueue

(* pollNum++ is kept saturated at PollSyncSkip: only pollNum < pollSyncSkip *)
(* is ever tested.                                                        *)
NextPollNum == IF pollNum < PollSyncSkip THEN pollNum + 1 ELSE pollNum

(* Fault model for PollReturnsEarly: fForceCheckBalanceChanged = false    *)
(* moved above the tryGetBalances early return.                           *)
PollReturnsEarlyClearingForce ==
    /\ pollNum' = NextPollNum
    /\ fForceCheckBalanceChanged' = FALSE
    /\ UNCHANGED <<cachedBalances, cachedNumBlocks, updateCoinAddresses,
                   updateStakeWeight, nWeight, shownAddresses, histVars>>

(* pollBalanceChanged returns early.  This can happen on any poll:       *)
(* tryGetSyncInfo or a try-lock of tryGetBalances may fail; it also       *)
(* happens whenever the node is syncing and this is not every             *)
(* pollSyncSkip-th poll, or tryGetBalances has nothing forced and sees    *)
(* the cached height.  pollNum is incremented but not reset.              *)
PollReturnsEarly ==
    /\ pollNum' = NextPollNum
    /\ UNCHANGED <<cachedBalances, cachedNumBlocks, fForceCheckBalanceChanged,
                   updateCoinAddresses, updateStakeWeight, nWeight, shownAddresses,
                   histVars>>

(* The rest of pollBalanceChanged once tryGetBalances has succeeded for   *)
(* the height numBlocks and the node's isSyncing.                         *)
ReadBalances(numBlocks, syncing) ==
    /\ TryGetBalancesMaySucceed(numBlocks)
    /\ LET cachedNumBlocksChanged == numBlocks # cachedNumBlocks
           balanceChanged == CheckBalanceChanged(wallet.bal)
       IN /\ pollNum' = 0
          /\ fForceCheckBalanceChanged' = FALSE
          /\ cachedNumBlocks' = numBlocks
          /\ cachedBalances' = wallet.bal
          /\ updateCoinAddresses' = (updateCoinAddresses \/ balanceChanged)
          /\ updateStakeWeight' =
                (updateStakeWeight \/ (~syncing /\ (balanceChanged \/ cachedNumBlocksChanged)))
          /\ stakeRequestAfterRead' =
                (stakeRequestAfterRead \/ (wpc = "stakeDone" /\ nWeight # wallet.weight /\ ~syncing
                                            /\ (balanceChanged \/ cachedNumBlocksChanged)))
          /\ addrRequestAfterRead' =
                (addrRequestAfterRead \/ (wpc = "emitAddresses" /\ wAddresses # wallet.addrs
                                          /\ balanceChanged))
    /\ txSinceRead' = FALSE
    /\ UNCHANGED <<nWeight, shownAddresses>>

(* Fault model for PollSucceeds: the result of tryGetSyncInfo ignored, so *)
(* a failed call goes on with numBlocks = -1 and isSyncing = false.       *)
PollSucceedsWithoutSyncInfo ==
    \/ ReadBalances(-1, FALSE)
    \/ /\ ~(isSyncing /\ NextPollNum < PollSyncSkip)
       /\ ReadBalances(chainTip, isSyncing)

(* pollBalanceChanged gets the sync state and then fresh balances.        *)
PollSucceeds ==
    /\ ~(isSyncing /\ NextPollNum < PollSyncSkip)
    /\ ReadBalances(chainTip, isSyncing)

(* The timer fires: pollBalanceChanged runs, then updateModel is posted.  *)
TimerFires(poll) ==
    /\ poll
    /\ PostUpdateModel
    /\ UNCHANGED <<coreVars, wpc, wAddresses>>

PollBalanceChanged == TimerFires(PollReturnsEarly) \/ TimerFires(PollSucceeds)

(* updateTransaction: the queued NotifyTransactionChanged runs.           *)
UpdateTransaction ==
    /\ txEvents > 0
    /\ txEvents' = txEvents - 1
    /\ fForceCheckBalanceChanged' = TRUE
    /\ UNCHANGED <<wallet, chainTip, walletTip, isSyncing, shutdown, abEvents,
                   cachedBalances, cachedNumBlocks, pollNum, updateCoinAddresses,
                   updateStakeWeight, nWeight, shownAddresses, workerVars, histVars>>

(* checkCoinAddresses: the slot connected to rowsInserted/rowsRemoved.    *)
CheckCoinAddresses == updateCoinAddresses' = TRUE

(* updateAddressBook: the queued NotifyAddressBookChanged runs; the       *)
(* address table inserts a row, which runs checkCoinAddresses.            *)
UpdateAddressBook ==
    /\ abEvents > 0
    /\ abEvents' = abEvents - 1
    /\ CheckCoinAddresses
    /\ addrRequestAfterRead' =
          (addrRequestAfterRead \/ (wpc = "emitAddresses" /\ wAddresses # wallet.addrs))
    /\ UNCHANGED <<wallet, chainTip, walletTip, isSyncing, shutdown, txEvents,
                   cachedBalances, cachedNumBlocks, fForceCheckBalanceChanged,
                   pollNum, updateStakeWeight, nWeight, shownAddresses, workerVars,
                   txSinceRead, stakeRequestAfterRead>>

-----------------------------------------------------------------------------
(***************************************************************************)
(* The WalletWorker thread.                                                *)
(***************************************************************************)

workerUnchanged == UNCHANGED <<coreVars, cachedBalances, cachedNumBlocks,
                               fForceCheckBalanceChanged, pollNum, txSinceRead>>

(* A read by the worker starts a new request window.                      *)
ReadStarted(h) == h' = FALSE

(* updateModel starts; it returns at once when shutdown is requested.     *)
UpdateModel ==
    /\ wpc = "idle"
    /\ workerQueue > 0
    /\ workerQueue' = workerQueue - 1
    /\ wpc' = IF shutdown THEN "idle" ELSE "addresses"
    /\ UNCHANGED <<wAddresses, updateCoinAddresses, updateStakeWeight, nWeight,
                   shownAddresses, stakeRequestAfterRead, addrRequestAfterRead>>
    /\ workerUnchanged

(* checkCoinAddressesChanged: test the flag and try to read the lists.    *)
CheckCoinAddressesChanged ==
    /\ wpc = "addresses"
    /\ \/ /\ updateCoinAddresses
          /\ wAddresses' = wallet.addrs        \* tryGetAvailableAddresses succeeded
          /\ wpc' = "emitAddresses"
          /\ ReadStarted(addrRequestAfterRead)
       \/ /\ wpc' = "stake"                    \* flag clear, or the try failed
          /\ UNCHANGED <<wAddresses, addrRequestAfterRead>>
    /\ UNCHANGED <<workerQueue, updateCoinAddresses, updateStakeWeight, nWeight,
                   shownAddresses, stakeRequestAfterRead>>
    /\ workerUnchanged

(* Emit availableAddressesChanged, then updateCoinAddresses = false.      *)
EmitAvailableAddresses ==
    /\ wpc = "emitAddresses"
    /\ shownAddresses' = wAddresses
    /\ updateCoinAddresses' = FALSE
    /\ wpc' = "stake"
    /\ UNCHANGED <<workerQueue, wAddresses, updateStakeWeight, nWeight,
                   stakeRequestAfterRead, addrRequestAfterRead>>
    /\ workerUnchanged

(* checkStakeWeightChanged: test the flag, tryGetStakeWeight(nWeight).    *)
CheckStakeWeightChanged ==
    /\ wpc = "stake"
    /\ \/ /\ updateStakeWeight
          /\ nWeight' = wallet.weight          \* tryGetStakeWeight succeeded
          /\ wpc' = "stakeDone"
          /\ ReadStarted(stakeRequestAfterRead)
       \/ /\ wpc' = "idle"                     \* flag clear, or the try failed
          /\ UNCHANGED <<nWeight, stakeRequestAfterRead>>
    /\ UNCHANGED <<workerQueue, wAddresses, updateCoinAddresses, updateStakeWeight,
                   shownAddresses, addrRequestAfterRead>>
    /\ workerUnchanged

(* updateStakeWeight = false after a successful read.                     *)
StakeWeightRead ==
    /\ wpc = "stakeDone"
    /\ updateStakeWeight' = FALSE
    /\ wpc' = "idle"
    /\ UNCHANGED <<workerQueue, wAddresses, updateCoinAddresses, nWeight,
                   shownAddresses, stakeRequestAfterRead, addrRequestAfterRead>>
    /\ workerUnchanged

-----------------------------------------------------------------------------
Core ==
    \/ WalletTxChanged
    \/ ChainBlockConnected
    \/ WalletBlockConnected
    \/ AddressBookChanged
    \/ SyncStateChanged
    \/ ShutdownRequested

Gui == PollBalanceChanged \/ UpdateTransaction \/ UpdateAddressBook

Worker ==
    \/ UpdateModel
    \/ CheckCoinAddressesChanged
    \/ EmitAvailableAddresses
    \/ CheckStakeWeightChanged
    \/ StakeWeightRead

Next == Core \/ Gui \/ Worker

(***************************************************************************)
(* Fairness.  The poll timer keeps firing and the GUI event loop delivers  *)
(* queued calls; the try-locks of tryGetBalances do not fail forever (a    *)
(* rescan or stake attempt releases cs_wallet), so a poll that can succeed *)
(* infinitely often eventually does.  The worker thread is scheduled.      *)
(***************************************************************************)
Fairness ==
    /\ WF_vars(PollBalanceChanged)
    /\ SF_vars(TimerFires(PollSucceeds))
    /\ WF_vars(UpdateTransaction)
    /\ WF_vars(UpdateAddressBook)
    /\ WF_vars(Worker)

Spec == Init /\ [][Next]_vars /\ Fairness

-----------------------------------------------------------------------------
(***************************************************************************)
(* Properties.                                                             *)
(***************************************************************************)

TypeOK ==
    /\ wallet \in WalletState
    /\ chainTip \in 0..MaxHeight
    /\ walletTip \in 0..MaxHeight
    /\ isSyncing \in BOOLEAN
    /\ shutdown \in BOOLEAN
    /\ txEvents \in 0..MaxEvents
    /\ abEvents \in 0..MaxEvents
    /\ cachedBalances \in Balances
    /\ cachedNumBlocks \in 0..MaxHeight
    /\ fForceCheckBalanceChanged \in BOOLEAN
    /\ pollNum \in 0..PollSyncSkip
    /\ updateCoinAddresses \in BOOLEAN
    /\ updateStakeWeight \in BOOLEAN
    /\ nWeight \in Weights
    /\ shownAddresses \in AddressLists
    /\ workerQueue \in 0..MaxQueued
    /\ wpc \in WorkerPcs
    /\ wAddresses \in AddressLists
    /\ txSinceRead \in BOOLEAN
    /\ stakeRequestAfterRead \in BOOLEAN
    /\ addrRequestAfterRead \in BOOLEAN

(* A wallet change announced by NotifyTransactionChanged is never lost:   *)
(* until a successful pollBalanceChanged has read the balances after it,  *)
(* either the updateTransaction call is still queued or                   *)
(* fForceCheckBalanceChanged is set, so the next poll cannot skip the     *)
(* read.  Breaking it takes a notification, a failed try-lock and the     *)
(* order in which pollBalanceChanged clears the flag.                     *)
NotifiedChangeNotLost ==
    txSinceRead => (fForceCheckBalanceChanged \/ txEvents > 0)

(* Every notified wallet change is eventually read by pollBalanceChanged, *)
(* whatever the sync state and however often the try-locks fail.         *)
NotifiedChangeEventuallyRead == txSinceRead ~> ~txSinceRead

(* Once the wallet has processed every block the GUI has seen, the cached *)
(* balance is the wallet's, unless a refresh is still pending.  The       *)
(* comment in pollBalanceChanged ("Balance and number of transactions     *)
(* might have changed") and the spec's balance-changed events promise     *)
(* this.                                                                  *)
BalanceRefreshSound ==
    (walletTip = chainTip /\ cachedBalances # wallet.bal)
        => \/ fForceCheckBalanceChanged
           \/ txEvents > 0
           \/ chainTip # cachedNumBlocks

(* A stake-weight refresh that pollBalanceChanged requests after the     *)
(* worker's tryGetStakeWeight has read a weight that is already out of    *)
(* date is not dropped: the request flag stays set until a later read    *)
(* serves it.  Losing it needs the worker thread, the poll on the GUI    *)
(* thread and a wallet change to interleave.                            *)
StakeWeightRequestServed == stakeRequestAfterRead => updateStakeWeight

(* Likewise a refresh of the coin-address lists, requested by a balance   *)
(* change or an address-book row after checkCoinAddressesChanged read    *)
(* lists that are already out of date, is not dropped by its emit.       *)
AddressRequestServed == addrRequestAfterRead => updateCoinAddresses

=============================================================================

# Formal models of the YuPost wallet GUI

TLA+ models of the code under `src/`. They are checked with TLC on small instances
and proved with TLAPS for every value of the constants.

## The code and its parts

`src/` holds these files:

* `src/unnamed/part_000` is `qt/walletmodel.cpp`. Its `WalletModel` is the GUI's
  view of one wallet. It has three groups of code:
  * **Balance polling** runs on the GUI thread. A `QTimer` runs `pollBalanceChanged`.
    That function asks the node for its height and sync state (`tryGetSyncInfo`),
    skips most polls during sync (`pollSyncSkip`), tries the wallet's balances
    without blocking (`tryGetBalances`), caches the balance and height, and sets
    two request flags for the worker: `updateCoinAddresses` and
    `updateStakeWeight`.
  * **Core signal handlers** (`Notify*`) run on the core's threads. They post
    queued calls to the GUI thread: `updateTransaction` sets
    `fForceCheckBalanceChanged`, and `updateAddressBook` inserts a row, which runs
    `checkCoinAddresses`.
  * **WalletWorker** is a `QObject` on its own `QThread`. The same timer queues its
    `updateModel`. It refreshes the coin-address lists and the stake weight when
    their request flags are set. It also checks the hardware wallet and the
    device.

  The same file also has the encryption and unlock logic (`requestUnlock`,
  `UnlockContext`), transaction preparation and sending, fee bumping, and
  hardware-wallet import and signing.
* `src/src/yupost/yupostutils.h` is the wallet header. It declares:
  * `CWalletTx`, with its confirmation status and the status's serialised form;
  * `WalletRescanReserver`;
  * `CWallet`'s scanning flags;
  * the metadata of a `CWalletTx` (`mapValue`, order position, smart time)
    and how `Serialize`/`Unserialize` fold it into the map on disk;
  * the token, token-transfer, delegation and super-staker record classes,
    their `SerializationOp` and `GetHash`, and `CWallet`'s maps of them;
  * a set of other data holders.
* `src/src/qt/yupostversionchecker.cpp` parses release version numbers from a web
  page.
* `src/src/qt/yupostpushbutton.cpp` is a widget that paints a cached
  "pressed" icon.
* `src/src/qt/hardwarekeystoredialog.h` is a declaration-only header.

The core wallet and the node behind `interfaces::Wallet` and `interfaces::Node`
are not under `src/`. The spec describes them. Where a model needs them as its
environment, they are modelled from the spec and marked `spec_modelled` in
`PROJECT.json`.

## Modules

| Module | Models |
|---|---|
| `WalletModelSync` | Balance polling, the worker's address and stake-weight refresh, and the queued notifications of the core |
| `MCWalletModelSync` | Small value sets for TLC |
| `WalletModelSyncProofs` | TLAPS proofs about `WalletModelSync` |
| `WalletTxStatus` | The confirmation status of one `CWalletTx`: its setters, `Serialize`/`Unserialize`, and the wallet's transitions and reload around them; the cached available credit of the parent it spends |
| `MCWalletTxStatus` | Three block model values and symmetry for TLC |
| `WalletTxStatusProofs` | TLAPS proofs about `WalletTxStatus` |
| `VersionChecker` | The match loop of `YuPostVersionChecker::getVersions` |
| `MCVersionChecker` | Two version numbers for TLC |
| `RescanReserver` | `WalletRescanReserver` and `CWallet`'s rescan flags, with rescanning threads and `abortrescan` |
| `RescanLock` | The abstract rescan lock that `RescanReserver` implements |
| `MCRescanReserver` | Three thread model values for TLC |
| `RescanReserverProofs` | TLAPS proofs about `RescanReserver` |
| `UnlockContext` | The wallet's encryption, lock and staking-only state under `WalletModel`'s setters, `requestUnlock`, the `UnlockContext` constructor and destructor, and `bumpFee`, which uses a context |
| `UnlockContextProofs` | TLAPS proofs about `UnlockContext` |
| `HardwareWallet` | `importAddressesData` and `setFingerprint` on the GUI thread against `checkHardwareWallet` and `checkHardwareDevice` on the worker |
| `MCHardwareWallet` | Two requests, two devices and two key-kind choices for TLC |
| `SendCoins` | `prepareTransaction` and `sendCoins`, with other wallet callers spending while the confirmation is open |
| `MCSendCoins` | Three coins, two valid addresses and an invalid one, two labels |
| `SendCoinsProofs` | TLAPS proofs of `PreparedIsSound` and `SendLabelsRecipients` |
| `WalletRecords` | `CTokenInfo`, `CTokenTx`, `CDelegationInfo`, `CSuperStakerInfo` and `CWallet`'s maps of them, with add, remove, shutdown and load; and the `CWalletTx` metadata round trip |
| `MCWalletRecords` | One identity, one height, two labels, two fees, two user keys for TLC |
| `WalletRecordsProofs` | TLAPS proofs of `TxMetaReloads`, `TypeOK`, `OneEntryPerEntity` and `StoredRecordsReload` |
| `ModelLifecycle` | The constructor, the core signal handlers, the worker's event loop and the destructor |
| `MCModelLifecycle` | Two core threads for TLC |
| `ModelLifecycleProofs` | TLAPS proofs about `ModelLifecycle` |

### WalletModelSync

There are three actors, and each of their steps is one action.

* **Core** (its steps are modelled from the spec).
  * `WalletTxChanged` changes the wallet and posts `updateTransaction`.
  * `ChainBlockConnected` advances the node's tip.
  * `WalletBlockConnected` lets the wallet process the next block. That may
    change its balances and weight, and may notify.
  * `AddressBookChanged` changes the address lists and posts
    `updateAddressBook`.
  * `SyncStateChanged` and `ShutdownRequested` are the remaining core steps.
* **GUI thread.**
  * `PollBalanceChanged` is the timer firing. It is one of two actions:
    * `TimerFires(PollReturnsEarly)` covers every early return;
    * `TimerFires(PollSucceeds)` covers the full read.

    In both cases the timer's second connection queues `updateModel`
    (`PostUpdateModel`).
  * `UpdateTransaction` and `UpdateAddressBook` are the queued slots.
* **Worker thread.** `updateModel` is split at the points where the GUI thread can
  run in between:
  * `UpdateModel` is the start, including the shutdown return;
  * `CheckCoinAddressesChanged` is the flag test and the read;
  * `EmitAvailableAddresses` is the emit and the clear;
  * `CheckStakeWeightChanged` is the flag test and the read;
  * `StakeWeightRead` is the clear.

The two request flags are plain `bool`s shared by the two threads. The model
treats each access as atomic, and that is the only interleaving x86 allows.

The data is abstracted:

* balances, stake weights and address lists are members of the small sets
  `Balances`, `Weights` and `AddressLists`;
* heights are bounded by `MaxHeight`;
* each kind of queued notification is bounded by `MaxEvents`;
* queued `updateModel` events are bounded by `MaxQueued`. Queued events
  beyond this bound are merged, which changes nothing because `updateModel` is
  idempotent;
* `pollNum` saturates at `PollSyncSkip`, because only `pollNum < pollSyncSkip` is
  ever tested.

The three history variables record facts for the properties and are never read
by the actions:

* `txSinceRead` records a notified change not yet read;
* `stakeRequestAfterRead` and `addrRequestAfterRead` record a refresh requested
  after the worker's read, when what it read was already out of date.

**Fairness.**

* The timer keeps firing: WF on `PollBalanceChanged`.
* The queued slots run: WF on `UpdateTransaction` and `UpdateAddressBook`.
* The worker thread runs: WF on `Worker`.
* The try-locks of `tryGetBalances` do not fail forever, because the core
  releases `cs_wallet` between its rescans and stake attempts: SF on a
  successful poll.

  This is strong fairness, not weak, because a poll can be enabled and then
  disabled again by a block arriving.

### WalletTxStatus

The state is one transaction's `m_confirm` record (`confirm`), the record last
written by `Serialize` (`disk`), the active chain (`chain`, a sequence of block
model values), what each block holds (`content`: this transaction, a conflicting
one, or neither), whether the wallet is loaded (`running`), and a history
variable `abandoned` (the user abandoned the transaction and nothing has
overridden that).

The transaction spends the one output (value 1) of a parent wallet
transaction. Two more variables hold the parent's memory-only caches:

* `amounts`: `m_amounts[AVAILABLE_CREDIT]`;
* `cacheEmpty`: `m_is_cache_empty`.

* Translated from `yupostutils.h`:
  * `Confirmation`, `DefaultConfirmation` (the default constructor, used by
    `Init`);
  * `SetStatus` (`setConfirmed`, `setConflicted`, `setUnconfirmed`);
  * `SetAbandoned`, which also clears hash, height and index;
  * `Serialize`, which keeps only `(hashBlock, nIndex)`: `ABANDON_HASH` for an
    abandoned transaction, and `-1` as index for abandoned or conflicted ones;
  * `Unserialize`, which starts from `Init` and decodes in the code's order;
  * `NoCache`, a `CachableAmount` after `Reset()`;
  * `MarkInputsDirty`, which is `MarkDirty` on the parent;
  * `GetLastBlockHeight`;
  * `ReadAvailableCredit`: `GetCachableAmount` on a miss computes the credit
    and caches it. A hit changes no state.
* Modelled from the spec (section 4.1) and the declarations' comments,
  because their bodies are in `wallet.cpp`, which is not under `src/`:
  * `DepthInMainChain` (`GetDepthInMainChain`, as its comment defines it),
    from `GetLastBlockHeight`;
  * `IsSpent`: the spend index names the transaction, which counts while its
    depth is positive, or 0 and not abandoned;
  * `AvailableCredit` (`GetAvailableCredit`): the parent's output unless it
    is spent;
  * `BlockConnected(b)` confirms the transaction, or marks it conflicted, when
    it is unconfirmed or abandoned. `CanConnect` keeps chains valid: a
    transaction is confirmed at most once, and never together with a conflict.
  * `BlockDisconnected` resets a confirmation that names the tip.
  * `AbandonTransaction` is allowed only from UNCONFIRMED.
  * `SeenInMempool` returns an abandoned transaction to UNCONFIRMED.
  * `Shutdown` and `Load` model a reload. `Load` is `LoadToWallet` (look the
    block up in the chain, and reset a confirmed or conflicted transaction
    whose block is gone) applied to `Unserialize(disk)`.

Every change of `m_confirm` is written with `WriteTx` in the same step, as the
wallet does under `cs_wallet`. The same step marks the parent's caches dirty, as
`SyncTransaction`, `MarkConflicted` and `AbandonTransaction` call
`MarkInputsDirty`. A reload starts with empty caches. The chain may change while the wallet is down,
so a reload can meet a reorganised chain.

### VersionChecker

`getVersions` fetches the releases page and loops over the matches of
`paternVersion`. For each match it cuts out the version string with
`mid(5, length - 6)`, and appends the version unless the list already holds it.

The model's state is the matches still to come and the list built so far. A
match is `Captured(v)`: "yupost-", then a version `v` of one to three
components, then "-". Strings are sequences of characters here, because the
property is about how `QString::mid` cuts them. `Mid` is `QString::mid`, with
its clamping. The `Version` class is not under `src/`, so two versions count as
the same exactly when their strings are equal.

### RescanReserver

Each thread of `Threads` runs a rescan caller in a loop, with a `pc`:

1. It constructs a reserver and calls `reserve()` (`Reserve`).
2. If that succeeded, it runs the scan (`ScanStart`, then `ScanBatch` at each
   block). A block may fail to read, which makes the result `FAILURE` and the
   scan go on, as `ScanResult`'s comment describes.
3. The reserver's destructor runs (`Release`).

Details of the translation:

* `reserve()` and the destructor hold `mutexScanning`, so each is one step.
* `couldReserve[t]` is the current reserver's `m_could_reserve`.
* `IsReserved` is `isReserved()`.
* `AbortRescanCall` is an `abortrescan` call. It is refused unless
  `IsScanning()` and not `IsAbortingRescan()`; otherwise it runs
  `AbortRescan()`.
* The scan loop (`ScanStart`, `ScanBatch`) and the RPC are outside `src/` and
  are modelled from the spec
  (sections 5 and 6) and from `ScanResult` (its three outcomes): a rescan exposes a cooperative abort flag, checked at
  each batch boundary. Because `reserve()` does not clear the flag, the scan
  clears it when it starts.
* `result` and `abortAccepted` are history: what a scan returned, and whether
  an abort was accepted during it.

`RescanLock` is the abstract specification: what the reserver promises its
callers. It has three variables:

* `owner`: the threads that own the rescan, either `{}` or a single thread;
* `scanning`: what `IsScanning()` reports;
* `aborting`: what `IsAbortingRescan()` reports.

It has four actions: `Acquire` when nobody owns the rescan, `ClearAbort` by the
owner, `Relinquish` by the owner, and `Abort` while scanning. Weak fairness
on `Relinquish` says the owner always gives the rescan back. `RescanReserver`
instantiates it as `Lock`:

* `owner` is `Holders`, the threads whose reserver has `m_could_reserve`;
* `scanning` is `fScanningWallet`;
* `aborting` is `fAbortRescan`.

The property `ImplementsRescanLock` is `Lock!Spec`.

### UnlockContext

The state is the wallet's `IsCrypted()` (`crypted`), `IsLocked()` (`locked`)
and `m_wallet_unlock_staking_only` (`stakingOnly`), plus the progress of one
`bumpFee` call (`bpc`), `requestUnlock`'s `was_locked` (`wasLocked`) and the
context's fields `valid`, `relock` and `stakingOnly` (`ctx`).

* The setters (`SetWalletEncrypted`, `LockWallet`, `UnlockWallet`,
  `ChangePassphrase`, `SetWalletUnlockStakingOnly`) are the GUI's menus and
  dialogs. They run only between operations: everything here is on the GUI
  thread.
* `bumpFee` is a sequence of steps:
  1. `BumpFeeRefused`: `createBumpTransaction` fails or the user says no.
  2. `RequestUnlock`: the first half of `requestUnlock`. A wallet unlocked for
     staking only is locked first.
  3. `UnlockDialog`: the dialog that `requireUnlock` opens. The user enters the
     passphrase or cancels. The dialog is not under `src/`.
  4. `ConstructContext`: `valid`, the relock argument (`Relock`) and the
     constructor (`ContextCtor`). An invalid context makes `bumpFee` return.
  5. `BumpBody`: the PSBT branch, or sign and commit. The wallet calls are
     their possible outcomes.
  6. `ReleaseContext`: the destructor (`ContextDtor`).
* `before` is history: the lock state and the flag when `requestUnlock`
  began.
* `CopyFrom` is not modelled. `requestUnlock` returns a temporary, and
  compilers elide its copy, so no context is ever moved.

### HardwareWallet

`importAddressesData` (GUI thread) writes seven members and then sets
`hardwareWalletInitRequired`. `checkHardwareWallet` (worker thread, at each
`updateModel`) tests the flag, imports the selected key kinds, may rescan, and
clears the flag. No lock protects any of them.

* The parameters are one record, `params`, tagged with the request that wrote
  it. The paths are left out: they are read at the same step as their kind's
  flag.
* `CheckHardwareWallet` is the flag test and `isConnected` (a device with the
  wallet's fingerprint is plugged in). `ImportKind(k)` is one
  `if(importK) getKeyPoolK && importMulti` block; the HWI calls may fail.
  `RescanStep` is `if(rescan && !error)`, and `ClearInitRequired` is the error
  message and `hardwareWalletInitRequired = false`.
* `DeviceSkip` is `checkHardwareDevice` before `DEVICE_UPDATE_DELAY` has
  passed. `DeviceRefresh(okStake, okNotStake)` is the refresh: the devices
  matching the staker ledger id, then those matching `fingerprint`, each from
  an `enumerate` that may fail, then `devices = tmpDevices`. It is one
  step: `tmpDevices` is local, and the GUI thread writes `devices` only
  through this function, so no property depends on splitting it.
* `SetFingerprint` and `PlugDevice` are the user. They are bounded by
  `MaxChanges`, and each `Requests` value is used for at most one request.
* `used` (the requests whose parameters the running import read) and
  `reqAfterRead` (a request came after the flag test) are history.

The two calls of `updateModel` between these two steps are in
`WalletModelSync`. They touch none of this state.

### SendCoins

The send dialog (outside `src/`) calls `prepareTransaction`, asks the user to
confirm, then calls `sendCoins`. No lock is held in between.

* Coins have value 1, so an amount is a number of coins. `coins` are the
  wallet's unspent outputs. `book` and `purpose` are the address book.
* `prepareTransaction(r)` is the whole function:
  * the pre-check loop (`BadRows`, `FirstBad`: the first bad row decides
    between `InvalidAddress` and `InvalidAmount`);
  * the duplicate test (`HasDuplicate`, the `setAddress.size()` comparison);
  * the balance test;
  * `createTransaction`, which picks inputs worth the amounts plus the fee
    (the amounts alone when a row subtracts the fee) or fails;
  * the fee-exceeds-balance test on failure, and the absurd-fee test.
  On OK the transaction waits for confirmation (`phase = "confirm"`).
* `sendCoins` commits, writes each recipient's label (new address: purpose
  `"send"`; known address: purpose kept), then refreshes the cached balance.
* `Cancel` is the user declining. `OtherSpend(c)` is another caller (an RPC
  send) spending a coin.
* Left out: change outputs, the order form, `reassignAmounts` (amounts after
  a subtracted fee affect no later step), and empty recipient lists (the
  dialog never sends one).

### ModelLifecycle

* `Init` is the state after the constructor: the worker thread started and
  the handlers subscribed.
* `CoreSignal(t)` is a core thread entering one of the `Notify*` handlers.
  `InvokeMethod(t)` is its `invokeMethod`, which posts to the model.
* `DeliverEvent` is the GUI running a queued slot. `TimerTick` is the poll
  timer, which also posts `updateModel` to the worker.
* `WorkerStart`, `WorkerEnd` and `WorkerExit` are the worker's event loop.
  After `quit()` the loop exits instead of taking another event.
* The destructor is three steps: `Unsubscribe`, `QuitThread` and
  `WaitThread`. `WaitThread` also drops the posted events, as `~QObject`
  does.

### WalletRecords

Two parts of the header, both about what survives a write to the wallet
file and a reload.

**Records.** `CWallet` keeps four maps: `mapToken`, `mapTokenTx`,
`mapDelegation` and `mapSuperStaker`. Each is keyed by the value's `GetHash()`.

* Each value class is two definitions:
  - `XSetNull` is the object the constructor makes (its members and `SetNull`).
  - `XSerializationOp` lists the fields `READWRITE` writes: first the wallet
    data, which the `SER_GETHASH` guard skips when hashing, then the hashed
    fields.
* `Serialize`, `Unserialize` and `GetHash` are generic over those lists.
  - `Unserialize` starts from `SetNull` and overwrites each field the stream
    carries, as the constructor and `READWRITE` do.
  - `GetHash` is the `SER_GETHASH` stream itself, a collision-free hash.
* `ReadFails` is `LIMITED_STRING(strLabel, 65536)`, which checks the length
  on reading only.
* `mem[k]` and `db[k]` are the map in memory and the records on disk, as sets
  of (key, value) pairs.
* The bodies of `AddTokenEntry`, `RemoveTokenEntry`, `LoadToken` and the
  others are in `wallet.cpp`, outside `src/`. They are modelled from the spec's
  persistence contract ("append/update-on-mutate and read-all-on-load") and
  from the declarations:
  - `AddEntry` writes the record under its hash and replaces the map entry;
  - `RemoveEntry` erases both;
  - `Load` passes each record that reads back to `LoadToken`, whose only
    argument is the record, so the key is recomputed from it.
* `Candidates(k)` are the records the wallet is asked to add: about one
  identity, confirmed at a height or not, with the wallet data a user or the
  chain changes (label, fee, custom config). Hashed fields that a caller
  chooses are free too: a token's `nDecimals` (from `Decimals`) and a
  delegation's or super staker's `strStakerName` (from `StakerNames`).
* `WalletData(k)` is the set of fields `XSerializationOp` writes outside the
  `SER_GETHASH` guard. `SameEntity(k, r1, r2)` holds when two records agree
  on every other field: they are about the same thing and may differ only in
  wallet data.

**Transaction metadata.** `wtx` is a transaction's `mapValue`, `nOrderPos`
and `nTimeSmart` in memory. `wtxRecord` is the `mapValueCopy` its last write
put on disk.

* `SerializeMeta` is the code's sequence: set `"fromaccount"`, run
  `WriteOrderPos`, and set `"timesmart"` when it is not 0.
* `UnserializeMeta` runs `ReadOrderPos` and reads `"timesmart"`, then erases
  the four reserved keys.
* A decimal string written by `ToString` or `"%u"` and read by `atoi64` is
  the number itself.
* `Init` may start from a pre-2014 record, which carries `"spent"` and no
  `"n"`.
* `SetMapValue` (a comment, `MarkReplaced`) and `ReorderTransactions` change
  the metadata and rewrite it.

## Runs

| Run | cfg | Expect | Shows |
|---|---|---|---|
| `wms_pass` | `WalletModelSync.cfg` | pass | `TypeOK`; `NotifiedChangeNotLost` (a change announced by `NotifyTransactionChanged` keeps `updateTransaction` queued or `fForceCheckBalanceChanged` set until a successful poll reads it); `NotifiedChangeEventuallyRead` (under the fairness above it is read) |
| `wts_pass` | `WalletTxStatus.cfg` | pass | `TypeOK`; `ConfirmationSound` (a loaded wallet's CONFIRMED or CONFLICTED transaction names a block of the active chain, at its height, holding it or a conflict, and an unconfirmed or abandoned one names none); `AbandonmentPersists` (an abandonment survives reloads until a block or the mempool overrides it); `AvailableCreditCoherent` (the spent parent's cached available credit is what the spender's current status gives) |
| `rr_pass` | `RescanReserver.cfg` | pass | `TypeOK`; `ReservationExclusive` (no two threads scan at once); `ScanHoldsReservation` (the `isReserved()` assertion holds throughout every scan, whatever failed reservers' destructors do); `ScanningEventuallyEnds` (under fairness `fScanningWallet` is always released); `ImplementsRescanLock` (the reservers, scans, destructors and `abortrescan` implement `RescanLock`, its fairness included) |
| `wr_pass` | `WalletRecords.cfg` | pass | `TypeOK`; `StoredRecordsReload` (while the wallet runs, every record is on disk in a form that reads back, and a reload rebuilds exactly the maps in memory); `OneEntryPerEntity` (two entries of a store never differ in wallet data alone: updating a record's block, label or fee replaces it rather than adding a second entry; a re-add under another staker name or decimals is a different record, since those fields are hashed); `TxMetaReloads` (a transaction's comments, order position and smart time reload as they were) |
| `uc_pass` | `UnlockContext.cfg` | pass | `ValidContextCanSpend` (the body of `bumpFee` runs on an unlocked wallet that is not staking-only); `RelockAfterUnlock` (a wallet locked before the request is locked after the context); `StakingOnlyNotWidened` (a staking-only unlock ends locked or staking-only again) |
| `uc_cancel_locks` | `UnlockContext_InvalidContextNoEffect.cfg` | violation | Cancelling the unlock dialog on a wallet unlocked for staking only leaves it locked, so staking stops. The comment at line 622 says the context is only marked invalid |
| `hw_pass` | `MCHardwareWallet.cfg` | pass | `ImportEventuallyHandled` (every import request is answered, device missing or import failing included); `DevicesEventuallyCurrent` (the device list is current again and again) |
| `sc_pass` | `MCSendCoins.cfg` | pass | `PreparedIsSound` (a transaction offered for confirmation pays valid, distinct addresses positive amounts, and its inputs cover them and the fee); `SendLabelsRecipients` (after `sendCoins` each recipient's address carries its label, and a known address keeps its purpose) |
| `ml_pass` | `MCModelLifecycle.cfg` | pass | `DestructionCompletes` (the destructor always returns: `t.wait()` is never left waiting on a worker whose event loop does not exit) |
| `ml_handler_uaf` | `MCModelLifecycle_HandlerTargetsLiveModel.cfg` | violation | A handler entered before `unsubscribeFromCoreSignals` calls `invokeMethod` on the freed model |
| `vc_prefix` | `VersionChecker.cfg` | violation | `mid(5, length - 6)` takes a five-character prefix off "yupost-X.Y.Z-", so every version returned starts with "t-", not the `XX.XX.XX` its comment promises |
| `wms_stake_lost` | `WalletModelSync_StakeWeightRequestServed.cfg` | violation | A stake-weight refresh requested between the worker's read and its `updateStakeWeight = false` is lost |

**Further counterexamples.** Seven more properties state what the code is
meant to do and fail. They are kept out of the run list, which has one
violation run per kind of defect. Each `.cfg` below checks one of them on
its module's MC instance, and TLC finds a counterexample:

* `WalletModelSync_AddressRequestServed.cfg` (`AddressRequestServed`): the
  same lost update as `wms_stake_lost`, for `updateCoinAddresses`.
* `WalletModelSync_BalanceRefreshSound.cfg` (`BalanceRefreshSound`): the GUI
  caches the node's height while the wallet is one block behind. The
  wallet's later balance change goes unseen until the next block.
* `MCHardwareWallet_ImportRequestNotLost.cfg` (`ImportRequestNotLost`): a
  request made during an import is overwritten by the
  `hardwareWalletInitRequired = false` at the end of that import.
* `MCHardwareWallet_ImportNotTorn.cfg` (`ImportNotTorn`): a request made
  during an import changes the parameters under it, so one import mixes two
  requests.
* `RescanReserver_AcceptedAbortHonoured.cfg` (`AcceptedAbortHonoured`): an
  `abortrescan` accepted after `reserve()` has set `fScanningWallet`, but
  before the scan clears `fAbortRescan`, is lost, and that rescan completes
  with SUCCESS. Where the scan clears the flag is decided by rescan code
  outside `src/`, so this stays a counterexample of the model, not a run.
* `WalletRecords_LabelOverLimit.cfg` (`StoredRecordsReload`): a token
  transfer with a label one character over `LabelLimit` is written, and the
  record no longer reads back. In the code, `AddTokenTxEntry` writes a label
  of any length, and the next load throws on one longer than 65536 bytes.
* `MCSendCoins_CommitSpendsUnspent.cfg` (`CommitSpendsUnspent`): a coin spent
  by another caller while the confirmation is open is still committed as an
  input, and `sendCoins` returns OK.

**Bounds.**

* `MaxHeight = 2` gives one new block beyond the tip the wallet starts at. That
  is enough for the wallet to lag the node and for the height to change under a
  cached value.
* `MaxEvents = 1` and `MaxQueued = 1` let a notification be pending while a poll
  runs.
* `PollSyncSkip = 2` makes both a skipped poll and a poll allowed during sync
  reachable.
* Each run gives two values to the data its property is about, and one value to
  the rest.

The `wms_pass` run explores 86,784 distinct states in about 20 s.

`rr_pass` uses three threads and `ScanLength = 2`. Three threads allow a
scanning holder, a thread whose `reserve()` fails, and a third waiting to
reserve after the holder releases. Two batches leave a boundary where an abort
is honoured. The run explores 10,229 distinct states. It uses no symmetry,
because it checks a liveness property.

`uc_pass` has no constants: every variable is Boolean or a small enumeration,
so TLC explores every reachable state, 149 of them. No fairness is assumed and
deadlock is checked.

`hw_pass` uses two requests, two devices and `MaxChanges = 2`. `MCParams`
keeps two of the eight key-kind choices: all three kinds, or PKH alone. Two
requests let one arrive during the other's import. Two devices and two
changes let the user plug a device and switch a fingerprint to it. The run
explores about 190,000 distinct states in about 30 s.

`sc_pass` uses recipient lists of one or two rows over three addresses (one
invalid), amounts 0 and 1, two labels and both values of the subtract flag.
With three coins, `MaxFee = MaxTxFee = 1` and one foreign spend, it reaches
every return value but `AbsurdFee`. `AbsurdFee` is unreachable, as the code's
comment says: `createTransaction` never exceeds the maximum fee. The run
explores 51,679 distinct states. Deadlock is checked.

`ml_pass` uses two core threads, two signals and two ticks. That is enough for
a handler in flight and a busy worker while the destructor runs. The run
explores 477 states. Deadlock is not checked: once the destructor has returned
nothing runs. Fairness is weak fairness of the worker thread, of the
destructor's `QuitThread` and `WaitThread` (the GUI thread runs the destructor
to the end), and of each handler's `invokeMethod`. Starting the destruction
has no fairness.

**Fairness.** `HardwareWallet` assumes weak fairness of the worker, because
the wallet timer keeps queueing `updateModel`. It assumes strong fairness of
`DeviceRefresh(TRUE, TRUE)`: time passes, so the delay elapses at some later
tick, and `enumerate` does not fail at every refresh. `DevicesEventuallyCurrent`
is `[]<>`, not `<>[]`. A failed `enumerate` empties the list until the next
refresh, and TLC shows this happening.

`RescanReserver` assumes weak fairness of each thread's scan and
destructor steps. Neither waits on anything: the scan only takes `cs_wallet`
between batches, and the destructor takes `mutexScanning`, which is held only
for a few instructions. No fairness is assumed for starting a rescan or for
`abortrescan`, which are user requests.

`wr_pass` uses one identity (a model value), one height, labels of length 0
and 1 against `LabelLimit = 1`, the fee 1, decimals 0 and 8, staker names
`Null` and one other, one value for one user key of `mapValue` (`"comment"`),
order positions up to 1 and smart times 0 and 1 (102,060 distinct states, about
a minute).

* One identity is enough: every property is about one entity's entries, and
  records about different identities never share a key.
* Two variants of each store's wallet data make an update that changes it
  reachable: a block, a label, or the custom config (a super staker without
  it has fee 0, with it fee 1). One fee is enough because a delegation's fee
  sits beside its block in the same unhashed part.
* Two decimals and two staker names let the same token, delegation or super
  staker be added again with a different hashed field, which must give a
  second entry, not replace the first.
* One user key of `mapValue` is enough for `TxMetaReloads`: the reserved keys
  are what the serialisation adds and erases, and a user key only has to
  survive next to them.
* A label of exactly `LabelLimit` tests the boundary of `LIMITED_STRING`,
  which throws only above the limit.
* `Init` covers both current and pre-2014 wallet files, with and without an
  order position and a smart time.

The run explores 16,800 distinct states. Deadlock is checked: the wallet can
always be shut down or loaded.

`wts_pass` uses three blocks (model values, with symmetry), `MaxChain = 3` and
`MaxIndex = 1`. Three blocks allow a block holding the transaction, a block
holding a conflict, and a block holding neither, together with reorganisations
of every order. Balance reads may come between any two steps. It explores 1,494
distinct states.

Each property of the pass run has a mutant, and TLC finds the property violated
when the mutant replaces the code's definition:

* `PollSucceedsWithoutSyncInfo` ignores a failed `tryGetSyncInfo`, so the `-1`
  placeholder is cached;
* `PollReturnsEarlyClearingForce` clears the force flag before the early
  return;
* `TryGetBalancesIgnoringForce` drops the force argument;
* `ScanBatchPastEnd` tests the end of the range one batch late (`TypeOK`);
* `ReserveIgnoringFlag` sets the flag without checking it
  (`ReservationExclusive`);
* `ReleaseUnconditionally` drops the destructor's `m_could_reserve` guard
  (`ScanHoldsReservation`);
* `ReleaseAfterSuccessOnly` clears the flag only after a successful scan
  (`ScanningEventuallyEnds`);
* `UnserializeIndexFirst` copies `serializedIndex` into `nIndex` before
  decoding, so `-1` leaks into a loaded transaction (`TypeOK`);
* `SetAbandonedStatusOnly` writes `setAbandoned` like the other setters, so the
  block fields stay (`ConfirmationSound`);
* `LoadToWalletResettingAbandoned` resets every transaction whose block is not
  found, abandoned ones included (`AbandonmentPersists`);
* `MarkDirtyKeepingAvailableCredit` leaves out
  `m_amounts[AVAILABLE_CREDIT].Reset()` (`AvailableCreditCoherent`);
* `ContextCtorKeepingFlag` saves the staking-only flag but does not clear it
  (`ValidContextCanSpend`);
* `RelockFromCurrentStatus` decides the relock from the lock state after the
  dialog instead of `was_locked` (`RelockAfterUnlock`);
* `ContextCtorNotSaving` clears the flag without saving it
  (`StakingOnlyNotWidened`);
* `DeviceRefreshStakeTwice` compares both enumerations with the stake
  fingerprint (`DevicesEventuallyCurrent`);
* `BadRowsNegativeOnly` tests `amount < 0` (`PreparedIsSound`);
* `sendCoinsPurposeSend` passes `"send"` for a known address too
  (`SendLabelsRecipients`);
* `QuitThreadMissing` leaves out `t.quit()` (`DestructionCompletes`);
* `CheckHardwareWalletReturnEarly` returns before the flag reset when the
  device is missing (`ImportEventuallyHandled`);
* `ReorderTransactionsPreIncrement` takes the position after the counter is
  incremented (`TypeOK`);
* `DelegationInfoSerializationOpNoBlock` leaves `blockNumber` out of
  `READWRITE` (`StoredRecordsReload`);
* `TokenTxSerializationOpLabelHashed` writes the label outside the
  `SER_GETHASH` guard (`OneEntryPerEntity`);
* `UnserializeMetaEraseFirst` erases the reserved keys before reading them
  (`TxMetaReloads`).

## Proofs

`WalletModelSyncProofs` proves the following under `ConstantsAssumption`: the
three value sets contain 0, and the bounds are positive naturals.

* `TypeCorrect: Spec => []TypeOK`.
  * `InitType` proves `Init => TypeOK`.
  * `TypeStep` proves `TypeOK /\ [Next]_vars => TypeOK'`, with one step per
    action.
* `NotifiedChangeNotLostInvariant: Spec => []NotifiedChangeNotLost`.
  * The property is not inductive alone. A step that posts a notification
    keeps it only because `txEvents` is a natural number.
  * The inductive invariant is `IInv == TypeOK /\ NotifiedChangeNotLost`.
  * `NotifiedChangeStep` shows that each action preserves the property.

`WalletTxStatusProofs` proves four theorems under `HashAssumption`: the null
hash and `ABANDON_HASH` are not block hashes and differ, and the bounds are
naturals.

* `TypeCorrect: Spec => []TypeOK`.
* `ConfirmationSoundInvariant: Spec => []ConfirmationSound`.
* `AbandonmentPersistsInvariant: Spec => []AbandonmentPersists`.
* `AvailableCreditCoherentInvariant: Spec => []AvailableCreditCoherent`.

All four follow from one inductive invariant `IInv`. Neither property is
inductive alone, because the reload reads the disk, and the properties say
nothing about the disk. `IInv` adds:

* `WellFormed(confirm)`: the record's shape, per status;
* `ChainSound(confirm)`: the named block is in the chain at its height;
* `DiskSound`: the disk decodes to a well-formed record with height 0;
* `AbandonRecorded`: an abandonment is on disk too;
* `AvailableCreditCoherent` itself.

The cache needs `ChainSound`. A block connected above a confirmed
transaction, or a disconnected block above it, changes its depth but not the
depth's sign. That is what `CreditByStatus` states: while the named block is
in the chain, the parent's output is spent exactly when the spender is
confirmed or unconfirmed.

The argument rests on these lemmas:

* `RoundTrip`: `Unserialize(Serialize(c))` is `c` with height 0, for every
  well-formed `c`.
* `LoadSound`: `LoadToWallet` restores the height from the chain, or resets.
* `LoadKeepsAbandoned`: the null hash is never on the chain, so an abandonment
  is kept.
* `WriteStep` and `KeepStep`: the two shapes of step.
* One lemma per action.

TLC checked `IInv` as an invariant before the proof was written.

`RescanReserverProofs` proves four theorems. The only assumption is that
`ScanLength` is a natural number; the set of threads is arbitrary.

* `ReservationExclusiveInvariant: Spec => []ReservationExclusive`.
* `ScanHoldsReservationInvariant: Spec => []ScanHoldsReservation`.
* `TypeCorrect: Spec => []TypeOK`.
* `ImplementsRescanLockSafety: Spec => Lock!SafeSpec`. This is the refinement
  of `RescanLock`, without its fairness.

Their inductive invariant `IInv` adds three facts to `TypeOK`:

* `HolderUnique`: at most one reserver has `m_could_reserve`;
* `FlagHeld`: `fScanningWallet` is set exactly when some reserver has it;
* `ScanningHolds`: every scanning thread is that holder.

`ReserveStep` uses `FlagHeld`: a successful `reserve()` found the flag clear,
so nobody held it. `ReleaseStep` uses `HolderUnique`: the holder's destructor
clears the flag, and no other thread was scanning. A failed reserver's
destructor changes nothing.

The refinement proof uses the same `IInv`:

* `Init` maps to `Lock!Init`: no reserver has reserved, and both flags are
  clear.
* `StepRefines` maps each step to a step of `RescanLock` or to a stutter:
  * A successful `reserve()` is `Acquire`. By `FlagHeld`, `Holders` was empty.
  * `ScanStart` is `ClearAbort`. By `ScanningHolds`, the thread is the owner.
  * The destructor of the reserver that reserved is `Relinquish`. By
    `HolderUnique`, `Holders` was exactly that thread.
  * An accepted `abortrescan` is `Abort`.
  * A failed `reserve()`, a batch, and a non-holder's destructor leave
    `Holders` and both flags unchanged (`HoldersUnchanged`).

The fairness part of `ImplementsRescanLock` is liveness, so only TLC checks
it.

`UnlockContextProofs` needs no assumptions. It proves four theorems:

* `ValidContextCanSpendInvariant: Spec => []ValidContextCanSpend`;
* `RelockAfterUnlockHolds: Spec => RelockAfterUnlock`;
* `StakingOnlyNotWidenedHolds: Spec => StakingOnlyNotWidened`;
* `TypeCorrect: Spec => []TypeOK`.

The two action properties are about the destructor, but what it does depends
on `requestUnlock` two steps earlier. So the inductive invariant `IInv` records
what each call carries from step to step:

* `LockedOnlyIfCrypted`: only an encrypted wallet is locked.
* `RelockPending`: after a request on a locked, non-staking wallet, the flag
  stays clear and the context relocks, unless the wallet is still locked.
* `StakingOnlySaved`: after a request on a staking-only wallet, the flag is set
  until the constructor, which saves it and does not relock.

Each action property follows from `IInv /\ [Next]_vars => [A]_vars` and PTL.

`ModelLifecycleProofs` proves `TypeCorrect` for any set of core threads,
assuming only that the bounds are naturals (`LifecycleAssumption`). `TypeOK`
is inductive as it stands. The order of the destructor's steps is
straight-line code, modelled as written, so no invariant about it is stated:
it would only restate `WaitThread`'s guard. What can go wrong there, a wait
that never returns, is liveness and is checked by TLC (`DestructionCompletes`).

* The inductive invariant adds two facts to the property. A finished worker
  has seen `quit()`, and a destructor past `QuitThread` has called it.
* These facts are needed because `WaitThread` only checks
  `worker = "finished"`. Once the worker has finished, the invariant shows
  that no step can make it busy again: `WorkerStart` requires `~quitAsked`.
* `TypeOK` states `workerQueue <= ticks`. This is inductive because each tick
  posts one event and each start takes one.

`SendCoinsProofs` proves `PreparedIsSoundInvariant` under `SendAssumption`.
This holds for any coins, any addresses and labels, and any bounds.

* `PreparedIsSound` is inductive as it stands. Only the OK branch of
  `prepareTransaction` enters `confirm`. That branch sets `rcps` and `tx`
  from the list and transaction it has just checked.
* `sendCoins` and `Cancel` leave `confirm`. `OtherSpend` changes only
  `coins` and `others`.
* Two lemmas carry the argument:
  - `PreCheckOK`: a pre-check of "OK" means no bad row and no duplicate.
  - `RecipientListShape`: this bounds each amount to a natural, so
    "not `<= 0`" becomes "`> 0`".
`SendCoinsProofs` also proves `SendLabelsRecipientsHolds:
Spec => SendLabelsRecipients`, the action property of `sendCoins`. It goes
through the invariant `LabelInvariant: Spec => []LabelInv`, where `LabelInv`
strengthens `PreparedIsSound`:

* `book` and `purpose` have their types;
* an address is in the book exactly when its purpose is not `"none"`;
* in `confirm`, `rcps` is a recipient list of the dialog.

The second conjunct is what the purpose clause needs. `sendCoins` passes the
old purpose for a known address, and "known" is decided by `book`. A purpose
other than `"none"` with no book entry would get `"send"`. `Init` starts with
the two in step, and `sendCoins` keeps them in step: it writes a label, never
`NoEntry`, and the purpose `"send"` exactly for the addresses it adds.

The label clause needs each recipient address to be on one row only. Then the
last row with that address, whose label the book keeps, is the recipient's
own row. This is lemma `DistinctAddresses`. Its premise is the duplicate
check: the address set has `Len(rcps)` elements. Its proof takes the map from
rows to addresses as a surjection from `1..n` onto that set, and uses
`FS_Surjection` and `FS_Interval` from `FiniteSetTheorems`. A surjection
between sets of equal finite size is an injection. `OnlyRow` derives from it
that the rows of a recipient's address are that row alone.

TLC checked `LabelInv` as an invariant of the `sc_pass` configuration before
it was proved (51,679 states).

`WalletRecordsProofs` proves `TxMetaReloadsInvariant: Spec => []TxMetaReloads`.
It uses two assumptions of `WalletRecords`:

* `KeysAssumption`: the keys used through the map are not reserved, as the
  comment at the declaration of `mapValue` requires;
* `RecordsAssumption`: the bounds and the decimals are naturals and 0 is a
  smart time.

The argument:

* `MetaRoundTrip` is the core lemma: `UnserializeMeta(SerializeMeta(w)) = w`
  for every metadata `w` the code can hold. It is split into the map part, the
  order position (case `-1` or not) and the smart time (case `0` or not).
* `TxMetaReloads` holds only while the wallet runs, so it is not inductive. The
  inductive invariant `MetaInv` says that the metadata in memory is always
  well formed and is what its record reads back as, loaded or not.
* `InitMeta` covers both generations of wallet file. A pre-2014 record reads
  back with order position `-1` and smart time 0.
* `StepMeta` has one case per action:
  - the two metadata writes use `MetaRoundTrip`;
  - `Load` reads the record that `MetaInv` ties to memory;
  - the other actions leave both alone.

The same module proves three theorems about the four keyed stores (tokens,
token transfers, delegations, super stakers):

* `TypeCorrect: Spec => []TypeOK`;
* `OneEntryPerEntityInvariant: Spec => []OneEntryPerEntity`;
* `StoredRecordsReloadInvariant`: `LabelBound => (Spec => []StoredRecordsReload)`.
  `LabelBound` says every label length is within `LabelLimit`. It is a
  hypothesis of the theorem, not an `ASSUME` of the module: the configuration
  `WalletRecords_LabelOverLimit.cfg` shows that the property fails without
  it, and the GUI that sets labels is outside `src/`.

The argument, from the bottom up:

* `StreamShape`: a class's `StreamFields(k, FALSE)` is a sequence of its
  members, with no repetitions, and every member of the class is in it.
  * Each class's `SerializationOp` is checked literally (`TokenInfoShape` and
    the three like it): the data part and the hash part have no repetitions,
    share no member, and together cover `SetNull`.
  * `ConcatShape` lifts those facts to the concatenation.
* `RoundTrip`: `Unserialize(k, Serialize(k, r, FALSE)) = r` for every record
  with the members of class `k`. It holds because `FieldIndex` (a `CHOOSE`)
  finds the one position at which each member was written.
  `CandidateIsRec` shows that every record a store is asked to take has
  those members.
* `HashNotWalletData`: no field in a class's hash part is in
  `WalletData(k)`, the fields the code writes outside the `SER_GETHASH`
  guard. It is checked literally, one class at a time.
* `KeyOfEntity`: two records with the members of class `k` that agree
  outside `WalletData(k)` (`SameEntity`) have the same `GetHash`: every
  hashed field is outside `WalletData(k)` by `HashNotWalletData`, and the
  hash is the sequence of those fields' values. The names and decimals a
  caller picks are hashed fields, so the theorem holds for any of them.
* `StoreInv` is the inductive invariant for `TypeOK` and `OneEntryPerEntity`.
  It holds for each store:
  * every entry on disk is `Entry(k, r)` and every entry in memory is
    `MemEntry(k, r)`, for a record `r` the wallet was asked to add;
  * no key has two entries.

  `AddKeepsStore`, `RemoveKeepsStore` and `LoadKeepsStore` show that each
  store action preserves it. `LoadKeepsStore` uses `RoundTrip` through
  `DecodeEntry`. `OneEntryPerEntity` follows from `StoreInv` and
  `KeyOfEntity`.
* `ReloadInv` adds to `StoreInv` that, while the wallet runs, each store in
  memory equals the decoded records on disk. `StoredRecordsReload` is not
  inductive by itself, because it says nothing about the stopped wallet, and
  a step must know that every record on disk is one the wallet wrote.
  * `StepReload` has one case per action. `AddEntry` and `RemoveEntry` filter
    by key, and decoding keeps keys (`DecodeFilter`). `Load` decodes every
    record, because under `LabelBound` none fails to read (`EntryReadable`,
    `LoadAll`).
* `TypeInv` adds `MetaInv` and the range of the metadata record on disk.

TLC checked `ReloadInv` as an invariant on the `wr_pass` configuration, and on
one with two identities, before it was proved.

## Only model-checked

TLAPS cannot prove liveness under fairness, so `NotifiedChangeEventuallyRead` is
checked by TLC only, and so are the fairness part of `ImplementsRescanLock`,
`ScanningEventuallyEnds`,
`DevicesEventuallyCurrent`, `ImportEventuallyHandled` and
`DestructionCompletes`. The four violation runs and the further counterexamples are counterexamples, not theorems.

## Not modelled yet, and the plan

The plan for the next sittings, in this order:

1. A property for the stake-weight refresh dropped during sync.
   The other caches of `CWalletTx` (debit, credit, immature credit, change)
   depend on a transaction's own outputs and maturity, which the model
   does not hold.
2. `ReserveDestination`, the reservation of a key-pool entry, which is
   returned by the destructor unless kept. Its bodies are in `wallet.cpp`.

Left out for good:

* the push button, whose only state is its own painting cache (the stale
  pressed icon after `setIcon` is listed as a hazard), and the dialog
  header, which holds declarations only;
* the receive-request and table getters, which only forward to the database;
* the data-holder structs with no operations in `src/`: `CAddressBookData`,
  `CContractBookData`, `COutput`, `CRecipient` and `COutputEntry`.

--------------------------- MODULE HardwareWallet ----------------------------
(***************************************************************************)
(* The hardware-wallet work of WalletModel (src/unnamed/part_000,          *)
(* qt/walletmodel.cpp): importAddressesData and setFingerprint on the GUI  *)
(* thread; checkHardwareWallet and checkHardwareDevice, which             *)
(* WalletWorker::updateModel runs on the worker thread at every timer      *)
(* tick.                                                                  *)
(*                                                                         *)
(* The import parameters, hardwareWalletInitRequired, fingerprint and     *)
(* devices are plain members shared by the two threads without a lock.    *)
(* A racy read returns the value of the last write (the members are        *)
(* word-sized flags, or QString/QList handles assigned as a whole); the   *)
(* paths are abstracted into the request that wrote them.  The HWI tool   *)
(* (isConnected, getKeyPool*, importMulti, enumerate, rescanBlockchain)   *)
(* is outside src/: its calls succeed or fail.                            *)
(***************************************************************************)
EXTENDS Naturals, FiniteSets

CONSTANTS
    Requests,     \* the importAddressesData calls the user may make (model values)
    Fingerprints, \* fingerprints of devices
    NoFp,         \* the empty QString
    MaxChanges    \* bound on fingerprint changes and device plug events

ASSUME HardwareAssumption ==
    /\ NoFp \notin Fingerprints
    /\ MaxChanges \in Nat

Kinds == {"PKH", "P2SH", "Bech32"}

VARIABLES
    (* WalletModel members *)
    params,           \* importPKH/importP2SH/importBech32/rescan and the paths, by request
    initRequired,     \* hardwareWalletInitRequired
    fingerprint,      \* fingerprint (not stake)
    stakerLedgerId,   \* the wallet's staker ledger id (getFingerprint(true))
    devices,          \* devices
    (* environment *)
    connected,        \* fingerprints of the devices plugged in
    issued,           \* requests the user has made so far
    changes,          \* fingerprint changes and plug events so far
    (* worker thread *)
    wpc,              \* where updateModel is
    error,            \* checkHardwareWallet's error
    (* history *)
    used,             \* requests whose parameters the current import read
    rescanned,        \* requests whose import ended with rescanBlockchain
    reqAfterRead      \* an import was requested after the worker read the flag

vars == <<params, initRequired, fingerprint, stakerLedgerId, devices, connected, issued,
          changes, wpc, error, used, rescanned, reqAfterRead>>

(* importAddressesData's arguments.                                        *)
Params == [id : Requests, rescan : BOOLEAN, import : [Kinds -> BOOLEAN]]

Fps == Fingerprints \cup {NoFp}

WorkerPcs == {"hw", "PKH", "P2SH", "Bech32", "rescan", "clear", "dev"}

(* The steps between the test of hardwareWalletInitRequired and its reset. *)
Importing == {"PKH", "P2SH", "Bech32", "rescan", "clear"}

(* The import steps of checkHardwareWallet, in the order of the code.     *)
NextKind == [PKH |-> "P2SH", P2SH |-> "Bech32", Bech32 |-> "rescan"]

(* The devices checkHardwareDevice should list: those plugged in whose     *)
(* fingerprint is the staker's or the wallet's, when that is not empty.   *)
Expected == {d \in connected : d \in {stakerLedgerId, fingerprint} \ {NoFp}}

-----------------------------------------------------------------------------
Init ==
    /\ params = CHOOSE p \in Params : TRUE
    /\ initRequired = FALSE
    /\ fingerprint \in Fps
    /\ stakerLedgerId \in Fps
    /\ devices = {}
    /\ connected \in SUBSET Fingerprints
    /\ issued = {}
    /\ changes = 0
    /\ wpc = "hw"
    /\ error = FALSE
    /\ used = {}
    /\ rescanned = {}
    /\ reqAfterRead = FALSE

-----------------------------------------------------------------------------
(***************************************************************************)
(* The GUI thread and the user.                                            *)
(***************************************************************************)

guiUnchanged == UNCHANGED <<wpc, error, used, rescanned>>

(* importAddressesData: the parameters, then hardwareWalletInitRequired.   *)
ImportAddressesData(p) ==
    /\ p.id \notin issued
    /\ params' = p
    /\ initRequired' = TRUE
    /\ issued' = issued \cup {p.id}
    /\ reqAfterRead' = (reqAfterRead \/ wpc \in Importing)
    /\ UNCHANGED <<fingerprint, stakerLedgerId, devices, connected, changes>>
    /\ guiUnchanged

(* setFingerprint(value, stake): the wallet's staker ledger id, or the     *)
(* model's fingerprint member.                                            *)
SetFingerprint(f, stake) ==
    /\ changes < MaxChanges
    /\ changes' = changes + 1
    /\ IF stake THEN /\ stakerLedgerId' = f /\ UNCHANGED fingerprint
                ELSE /\ fingerprint' = f /\ UNCHANGED stakerLedgerId
    /\ UNCHANGED <<params, initRequired, devices, connected, issued, reqAfterRead>>
    /\ guiUnchanged

(* A device is plugged in or out.                                          *)
PlugDevice(f) ==
    /\ changes < MaxChanges
    /\ changes' = changes + 1
    /\ connected' = IF f \in connected THEN connected \ {f} ELSE connected \cup {f}
    /\ UNCHANGED <<params, initRequired, fingerprint, stakerLedgerId, devices, issued,
                   reqAfterRead>>
    /\ guiUnchanged

-----------------------------------------------------------------------------
(***************************************************************************)
(* The worker thread: checkHardwareWallet, then checkHardwareDevice.       *)
(***************************************************************************)

workerUnchanged == UNCHANGED <<fingerprint, stakerLedgerId, connected, issued, changes>>

(* Fault model: an early return when the device is not connected.         *)
CheckHardwareWalletReturnEarly ==
    /\ wpc = "hw"
    /\ IF initRequired
       THEN /\ wpc' = IF fingerprint \in connected THEN "PKH" ELSE "dev"
            /\ error' = (fingerprint \notin connected)
            /\ used' = {}
            /\ reqAfterRead' = FALSE
       ELSE /\ wpc' = "dev"
            /\ UNCHANGED <<error, used, reqAfterRead>>
    /\ UNCHANGED <<params, initRequired, devices, rescanned>>
    /\ workerUnchanged

(* if(hardwareWalletInitRequired), then hwiTool.isConnected(fingerprint): *)
(* a device with the fingerprint is plugged in.                           *)
CheckHardwareWallet ==
    /\ wpc = "hw"
    /\ IF initRequired
       THEN /\ wpc' = IF fingerprint \in connected THEN "PKH" ELSE "clear"
            /\ error' = (fingerprint \notin connected)
            /\ used' = {}
            /\ reqAfterRead' = FALSE
       ELSE /\ wpc' = "dev"
            /\ UNCHANGED <<error, used, reqAfterRead>>
    /\ UNCHANGED <<params, initRequired, devices, rescanned>>
    /\ workerUnchanged

(* if(importPKH) / if(importP2SH) / if(importBech32): getKeyPool* and       *)
(* importMulti, each of which may fail.                                   *)
ImportKind(k) ==
    /\ wpc = k
    /\ used' = used \cup {params.id}
    /\ IF params.import[k] THEN \E ok \in BOOLEAN : error' = (error \/ ~ok)
                           ELSE UNCHANGED error
    /\ wpc' = NextKind[k]
    /\ UNCHANGED <<params, initRequired, devices, rescanned, reqAfterRead>>
    /\ workerUnchanged

(* if(rescan && !error) hwiTool.rescanBlockchain().                        *)
RescanStep ==
    /\ wpc = "rescan"
    /\ used' = used \cup {params.id}
    /\ rescanned' = IF params.rescan /\ ~error THEN rescanned \cup used' ELSE rescanned
    /\ wpc' = "clear"
    /\ UNCHANGED <<params, initRequired, devices, error, reqAfterRead>>
    /\ workerUnchanged

(* The error message is emitted, then hardwareWalletInitRequired = false. *)
ClearInitRequired ==
    /\ wpc = "clear"
    /\ initRequired' = FALSE
    /\ wpc' = "dev"
    /\ UNCHANGED <<params, devices, error, used, rescanned, reqAfterRead>>
    /\ workerUnchanged

(* The devices of the enumeration with the given fingerprint, when it is   *)
(* not empty and enumerate succeeded.                                      *)
Matching(fp, ok) == IF fp # NoFp /\ ok THEN {d \in connected : d = fp} ELSE {}

(* checkHardwareDevice when DEVICE_UPDATE_DELAY has not elapsed since the  *)
(* last refresh.                                                          *)
DeviceSkip ==
    /\ wpc = "dev"
    /\ wpc' = "hw"
    /\ UNCHANGED <<params, initRequired, devices, error, used, rescanned, reqAfterRead>>
    /\ workerUnchanged

(* Fault model: the second loop compares with the stake fingerprint.      *)
DeviceRefreshStakeTwice(okStake, okNotStake) ==
    /\ wpc = "dev"
    /\ devices' = Matching(stakerLedgerId, okStake) \cup Matching(stakerLedgerId, okNotStake)
    /\ wpc' = "hw"
    /\ UNCHANGED <<params, initRequired, error, used, rescanned, reqAfterRead>>
    /\ workerUnchanged

(* checkHardwareDevice when the delay has elapsed: the devices matching    *)
(* the stake fingerprint, then those matching the other one, each from an *)
(* enumerate that may fail; then devices = tmpDevices.                    *)
DeviceRefresh(okStake, okNotStake) ==
    /\ wpc = "dev"
    /\ devices' = Matching(stakerLedgerId, okStake) \cup Matching(fingerprint, okNotStake)
    /\ wpc' = "hw"
    /\ UNCHANGED <<params, initRequired, error, used, rescanned, reqAfterRead>>
    /\ workerUnchanged

-----------------------------------------------------------------------------
Worker ==
    \/ CheckHardwareWallet
    \/ \E k \in Kinds : ImportKind(k)
    \/ RescanStep
    \/ ClearInitRequired
    \/ DeviceSkip
    \/ \E s, n \in BOOLEAN : DeviceRefresh(s, n)

Next ==
    \/ Worker
    \/ \E p \in Params : ImportAddressesData(p)
    \/ \E f \in Fps, stake \in BOOLEAN : SetFingerprint(f, stake)
    \/ \E f \in Fingerprints : PlugDevice(f)

(* The wallet timer keeps calling updateModel on the worker thread, time   *)
(* passes so the device delay elapses at some tick after every other one, *)
(* and the HWI tool's enumerate does not fail at every one of them.       *)
Fairness ==
    /\ WF_vars(Worker)
    /\ SF_vars(DeviceRefresh(TRUE, TRUE))

Spec == Init /\ [][Next]_vars /\ Fairness

-----------------------------------------------------------------------------
TypeOK ==
    /\ params \in Params
    /\ initRequired \in BOOLEAN
    /\ fingerprint \in Fps /\ stakerLedgerId \in Fps
    /\ devices \subseteq Fingerprints /\ connected \subseteq Fingerprints
    /\ issued \subseteq Requests
    /\ changes \in 0..MaxChanges
    /\ wpc \in WorkerPcs
    /\ error \in BOOLEAN
    /\ used \subseteq Requests /\ rescanned \subseteq Requests
    /\ reqAfterRead \in BOOLEAN

(* Whatever the user changes, the device list checkHardwareDevice          *)
(* publishes is current again and again: it lists exactly the plugged-in  *)
(* devices with the staker's or the wallet's fingerprint.  (It need not   *)
(* stay current: a failed enumerate empties it until the next refresh.)   *)
DevicesEventuallyCurrent == []<>(devices = Expected)

(* An import request is always answered: hardwareWalletInitRequired,      *)
(* once set by importAddressesData, is cleared by checkHardwareWallet,    *)
(* whether the device is connected and the imports succeed or not.        *)
ImportEventuallyHandled == initRequired ~> ~initRequired

(* An import the user requested by importAddressesData is performed by an  *)
(* import that read the request: a request made after checkHardwareWallet *)
(* tested hardwareWalletInitRequired leaves the flag set for the next one. *)
ImportRequestNotLost == reqAfterRead => initRequired

(* One pass of checkHardwareWallet reads the parameters of one request:    *)
(* importAddressesData never changes them under a running import.          *)
ImportNotTorn == Cardinality(used) <= 1

=============================================================================

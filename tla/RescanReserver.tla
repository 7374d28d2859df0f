--------------------------- MODULE RescanReserver ----------------------------
(***************************************************************************)
(* The reservation of a wallet rescan (WalletRescanReserver in             *)
(* src/src/yupost/yupostutils.h) and the cooperative abort of CWallet      *)
(* (fAbortRescan, AbortRescan, IsAbortingRescan, IsScanning).              *)
(*                                                                         *)
(* Every rescan caller constructs a reserver, calls reserve() and gives    *)
(* up when it fails; otherwise it runs ScanForWalletTransactions with the  *)
(* reserver and then the reserver's destructor runs.  reserve() and the    *)
(* destructor hold mutexScanning, so each is one step; the other accesses  *)
(* are to std::atomic flags.  The scan itself and the abortrescan call are *)
(* CWallet/RPC code outside src/, modelled from the spec (sections 5 and   *)
(* 6): the scan clears the abort flag when it starts, for this rescan, and *)
(* checks it at each batch boundary.                                       *)
(***************************************************************************)
EXTENDS Naturals

CONSTANTS
    Threads,      \* threads that may start a rescan (RPC workers, the loader)
    ScanLength    \* batches a rescan takes when it is not aborted

ASSUME ScanLengthAssumption == ScanLength \in Nat

VARIABLES
    fScanningWallet,  \* CWallet::fScanningWallet
    fAbortRescan,     \* CWallet::fAbortRescan
    couldReserve,     \* m_could_reserve of each thread's current reserver
    pc,               \* where each thread is
    pos,              \* batches its scan has done
    result,           \* what its last scan returned
    abortAccepted     \* history: an abortrescan call returned true during its scan

vars == <<fScanningWallet, fAbortRescan, couldReserve, pc, pos, result, abortAccepted>>

Pcs == {"idle", "scan_start", "scan_loop", "release"}

Scanning == {"scan_start", "scan_loop"}

Results == {"none", "SUCCESS", "FAILURE", "USER_ABORT"}

-----------------------------------------------------------------------------
(* CWallet's atomics start false; no thread holds a reserver.             *)
Init ==
    /\ fScanningWallet = FALSE
    /\ fAbortRescan = FALSE
    /\ couldReserve = [t \in Threads |-> FALSE]
    /\ pc = [t \in Threads |-> "idle"]
    /\ pos = [t \in Threads |-> 0]
    /\ result = [t \in Threads |-> "none"]
    /\ abortAccepted = [t \in Threads |-> FALSE]

(* isReserved().                                                          *)
IsReserved(t) == couldReserve[t] /\ fScanningWallet

(* Fault model for reserve(): the flag is set without checking it.        *)
ReserveIgnoringFlag(t) ==
    /\ pc[t] = "idle"
    /\ fScanningWallet' = TRUE
    /\ couldReserve' = [couldReserve EXCEPT ![t] = TRUE]
    /\ pc' = [pc EXCEPT ![t] = "scan_start"]
    /\ result' = [result EXCEPT ![t] = "none"]
    /\ abortAccepted' = [abortAccepted EXCEPT ![t] = FALSE]
    /\ UNCHANGED <<fAbortRescan, pos>>

(* A new reserver (m_could_reserve = false) and reserve() under           *)
(* mutexScanning: it fails when a rescan is in progress, and the caller    *)
(* gives up and destroys the reserver; otherwise it sets fScanningWallet. *)
Reserve(t) ==
    /\ pc[t] = "idle"
    /\ IF fScanningWallet
       THEN /\ pc' = [pc EXCEPT ![t] = "release"]
            /\ UNCHANGED <<fScanningWallet, couldReserve>>
       ELSE /\ fScanningWallet' = TRUE
            /\ couldReserve' = [couldReserve EXCEPT ![t] = TRUE]
            /\ pc' = [pc EXCEPT ![t] = "scan_start"]
    /\ result' = [result EXCEPT ![t] = "none"]
    /\ abortAccepted' = [abortAccepted EXCEPT ![t] = FALSE]
    /\ UNCHANGED <<fAbortRescan, pos>>

(* ScanForWalletTransactions starts: it clears the abort flag for this    *)
(* rescan.                                                                *)
ScanStart(t) ==
    /\ pc[t] = "scan_start"
    /\ fAbortRescan' = FALSE
    /\ pos' = [pos EXCEPT ![t] = 0]
    /\ pc' = [pc EXCEPT ![t] = "scan_loop"]
    /\ UNCHANGED <<fScanningWallet, couldReserve, result, abortAccepted>>

(* Fault model for the batch loop: the end of the range is tested after   *)
(* one batch too many.                                                    *)
ScanBatchPastEnd(t) ==
    /\ pc[t] = "scan_loop"
    /\ \/ /\ fAbortRescan
          /\ pc' = [pc EXCEPT ![t] = "release"]
          /\ result' = [result EXCEPT ![t] = "USER_ABORT"]
          /\ UNCHANGED pos
       \/ /\ ~fAbortRescan
          /\ pos[t] <= ScanLength
          /\ pos' = [pos EXCEPT ![t] = pos[t] + 1]
          /\ UNCHANGED <<pc, result>>
       \/ /\ ~fAbortRescan
          /\ pos[t] <= ScanLength
          /\ pos' = [pos EXCEPT ![t] = pos[t] + 1]
          /\ result' = [result EXCEPT ![t] = "FAILURE"]
          /\ UNCHANGED pc
       \/ /\ ~fAbortRescan
          /\ pos[t] = ScanLength
          /\ pc' = [pc EXCEPT ![t] = "release"]
          /\ result' = [result EXCEPT ![t] = IF @ = "FAILURE" THEN @ ELSE "SUCCESS"]
          /\ UNCHANGED pos
    /\ UNCHANGED <<fScanningWallet, fAbortRescan, couldReserve, abortAccepted>>

(* A batch boundary: an abort ends the scan with USER_ABORT; otherwise    *)
(* the next batch is scanned, and a block that cannot be read (pruned, a  *)
(* read error) makes the result FAILURE while the scan goes on; at the     *)
(* end of the range the scan returns FAILURE if a block failed, else       *)
(* SUCCESS.                                                                *)
ScanBatch(t) ==
    /\ pc[t] = "scan_loop"
    /\ \/ /\ fAbortRescan
          /\ pc' = [pc EXCEPT ![t] = "release"]
          /\ result' = [result EXCEPT ![t] = "USER_ABORT"]
          /\ UNCHANGED pos
       \/ /\ ~fAbortRescan
          /\ pos[t] < ScanLength
          /\ pos' = [pos EXCEPT ![t] = pos[t] + 1]
          /\ UNCHANGED <<pc, result>>
       \/ /\ ~fAbortRescan
          /\ pos[t] < ScanLength
          /\ pos' = [pos EXCEPT ![t] = pos[t] + 1]
          /\ result' = [result EXCEPT ![t] = "FAILURE"]
          /\ UNCHANGED pc
       \/ /\ ~fAbortRescan
          /\ pos[t] = ScanLength
          /\ pc' = [pc EXCEPT ![t] = "release"]
          /\ result' = [result EXCEPT ![t] = IF @ = "FAILURE" THEN @ ELSE "SUCCESS"]
          /\ UNCHANGED pos
    /\ UNCHANGED <<fScanningWallet, fAbortRescan, couldReserve, abortAccepted>>

(* Fault model for the destructor: the flag is cleared whether or not     *)
(* this reserver set it.                                                  *)
ReleaseUnconditionally(t) ==
    /\ pc[t] = "release"
    /\ fScanningWallet' = FALSE
    /\ couldReserve' = [couldReserve EXCEPT ![t] = FALSE]
    /\ pc' = [pc EXCEPT ![t] = "idle"]
    /\ UNCHANGED <<fAbortRescan, pos, result, abortAccepted>>

(* Fault model for the destructor: the flag is cleared only after a scan  *)
(* that completed, as if it were reset on the scan's success path.        *)
ReleaseAfterSuccessOnly(t) ==
    /\ pc[t] = "release"
    /\ IF couldReserve[t] /\ result[t] = "SUCCESS" THEN fScanningWallet' = FALSE
       ELSE UNCHANGED fScanningWallet
    /\ couldReserve' = [couldReserve EXCEPT ![t] = FALSE]
    /\ pc' = [pc EXCEPT ![t] = "idle"]
    /\ UNCHANGED <<fAbortRescan, pos, result, abortAccepted>>

(* ~WalletRescanReserver under mutexScanning: only a reserver that         *)
(* reserved clears fScanningWallet.                                        *)
Release(t) ==
    /\ pc[t] = "release"
    /\ IF couldReserve[t] THEN fScanningWallet' = FALSE ELSE UNCHANGED fScanningWallet
    /\ couldReserve' = [couldReserve EXCEPT ![t] = FALSE]
    /\ pc' = [pc EXCEPT ![t] = "idle"]
    /\ UNCHANGED <<fAbortRescan, pos, result, abortAccepted>>

(* abortrescan: refused unless IsScanning() and not IsAbortingRescan();    *)
(* otherwise AbortRescan() and it reports success.                        *)
AbortRescanCall ==
    /\ fScanningWallet
    /\ ~fAbortRescan
    /\ fAbortRescan' = TRUE
    /\ abortAccepted' = [t \in Threads |-> abortAccepted[t] \/ (couldReserve[t] /\ pc[t] \in Scanning)]
    /\ UNCHANGED <<fScanningWallet, couldReserve, pc, pos, result>>

Thread(t) == Reserve(t) \/ ScanStart(t) \/ ScanBatch(t) \/ Release(t)

Next == (\E t \in Threads : Thread(t)) \/ AbortRescanCall

(* Each rescanning thread keeps running: the scan and the destructor are   *)
(* not waiting on anything.                                               *)
Fairness == \A t \in Threads : WF_vars(ScanStart(t) \/ ScanBatch(t) \/ Release(t))

Spec == Init /\ [][Next]_vars /\ Fairness

-----------------------------------------------------------------------------
TypeOK ==
    /\ fScanningWallet \in BOOLEAN
    /\ fAbortRescan \in BOOLEAN
    /\ couldReserve \in [Threads -> BOOLEAN]
    /\ pc \in [Threads -> Pcs]
    /\ pos \in [Threads -> 0..ScanLength]
    /\ result \in [Threads -> Results]
    /\ abortAccepted \in [Threads -> BOOLEAN]

(* Rescans are mutually exclusive: reserve() under mutexScanning never     *)
(* lets two threads into ScanForWalletTransactions at once, however the   *)
(* reservations, failed reservations and destructors interleave.          *)
ReservationExclusive ==
    \A t, u \in Threads : pc[t] \in Scanning /\ pc[u] \in Scanning => t = u

(* The assert(reserver.isReserved()) of ScanForWalletTransactions holds    *)
(* throughout the scan: no other thread's destructor, in particular that  *)
(* of a reserver whose reserve() failed, clears fScanningWallet under it.  *)
ScanHoldsReservation == \A t \in Threads : pc[t] \in Scanning => IsReserved(t)

(* The scanning flag is not leaked: whenever a rescan is in progress, it   *)
(* eventually ends and fScanningWallet is cleared, so a later reserve()   *)
(* can succeed.                                                           *)
ScanningEventuallyEnds == fScanningWallet ~> ~fScanningWallet

(* An abortrescan that reported success stops the rescan it was accepted   *)
(* for: that rescan does not go on to return SUCCESS (spec section 6: a   *)
(* rescan exposes a cooperative abort flag).                               *)
AcceptedAbortHonoured == \A t \in Threads : abortAccepted[t] => result[t] # "SUCCESS"

(* The reservation as RescanLock sees it: the rescan is owned by the       *)
(* threads whose reserver reserved, IsScanning() is fScanningWallet and    *)
(* IsAbortingRescan() is fAbortRescan.                                      *)
Holders == {t \in Threads : couldReserve[t]}

Lock == INSTANCE RescanLock
            WITH owner <- Holders, scanning <- fScanningWallet,
                 aborting <- fAbortRescan

(* WalletRescanReserver, the destructor and the abort flag implement the   *)
(* rescan lock: every reserve(), scan start, destructor and abortrescan is *)
(* a step of RescanLock or leaves it unchanged (a failed reserve() and its *)
(* destructor change nothing it sees), and an owner always gives the       *)
(* rescan back.                                                             *)
ImplementsRescanLock == Lock!Spec

=============================================================================

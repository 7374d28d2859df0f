------------------------- MODULE RescanReserverProofs -------------------------
(***************************************************************************)
(* Proofs about the rescan reservation, for every set of threads and every *)
(* scan length: its safety invariants, from the inductive invariant IInv, *)
(* and that it implements the safety part of RescanLock.                  *)
(***************************************************************************)
EXTENDS RescanReserver, TLAPS

(* fScanningWallet is set exactly while one reserver holds it, and every   *)
(* scanning thread is that holder.                                        *)
HolderUnique == \A t, u \in Threads : couldReserve[t] /\ couldReserve[u] => t = u

FlagHeld == fScanningWallet <=> \E t \in Threads : couldReserve[t]

ScanningHolds == \A t \in Threads : pc[t] \in Scanning => couldReserve[t]

IInv == TypeOK /\ HolderUnique /\ FlagHeld /\ ScanningHolds

-----------------------------------------------------------------------------
LEMMA InitIInv == Init => IInv
<1> SUFFICES ASSUME Init PROVE IInv
  OBVIOUS
<1>1. pos \in [Threads -> 0..ScanLength]
  BY ScanLengthAssumption DEF Init
<1>2. /\ couldReserve \in [Threads -> BOOLEAN] /\ abortAccepted \in [Threads -> BOOLEAN]
      /\ pc \in [Threads -> Pcs] /\ result \in [Threads -> Results]
  BY DEF Init, Pcs, Results
<1>3. TypeOK
  BY <1>1, <1>2 DEF Init, TypeOK
<1>4. HolderUnique /\ FlagHeld /\ ScanningHolds
  BY DEF Init, HolderUnique, FlagHeld, ScanningHolds, Scanning
<1> QED
  BY <1>3, <1>4 DEF IInv

(* A successful reserve() takes the flag only when no reserver holds it,   *)
(* so the new holder is the only one.                                     *)
LEMMA ReserveStep ==
    ASSUME IInv, NEW t \in Threads, Reserve(t)
    PROVE  IInv'
<1>1. CASE fScanningWallet
  BY <1>1, ScanLengthAssumption
     DEF Reserve, IInv, TypeOK, HolderUnique, FlagHeld, ScanningHolds, Pcs, Results, Scanning
<1>2. CASE ~fScanningWallet
  <2>1. \A u \in Threads : ~couldReserve[u]
    BY <1>2 DEF IInv, FlagHeld
  <2>2. /\ fScanningWallet'
        /\ couldReserve' = [couldReserve EXCEPT ![t] = TRUE]
        /\ pc' = [pc EXCEPT ![t] = "scan_start"]
    BY <1>2 DEF Reserve
  <2>3. TypeOK'
    BY <2>2 DEF Reserve, IInv, TypeOK, Pcs, Results
  <2>4. HolderUnique'
    BY <2>1, <2>2 DEF IInv, TypeOK, HolderUnique
  <2>5. FlagHeld'
    BY <2>2 DEF IInv, TypeOK, FlagHeld
  <2>6. ScanningHolds'
    BY <2>2 DEF IInv, TypeOK, ScanningHolds
  <2> QED
    BY <2>3, <2>4, <2>5, <2>6 DEF IInv
<1> QED
  BY <1>1, <1>2

(* The destructor clears the flag only for the unique holder; a failed     *)
(* reserver leaves it to the holder.                                      *)
LEMMA ReleaseStep ==
    ASSUME IInv, NEW t \in Threads, Release(t)
    PROVE  IInv'
<1>1. /\ couldReserve' = [couldReserve EXCEPT ![t] = FALSE]
      /\ pc' = [pc EXCEPT ![t] = "idle"]
  BY DEF Release
<1>2. TypeOK'
  BY <1>1 DEF Release, IInv, TypeOK, Pcs
<1>3. HolderUnique'
  BY <1>1 DEF IInv, TypeOK, HolderUnique
<1>4. CASE couldReserve[t]
  <2>1. ~fScanningWallet' /\ \A u \in Threads : ~couldReserve'[u]
    BY <1>1, <1>4 DEF Release, IInv, TypeOK, HolderUnique
  <2>2. \A u \in Threads \ {t} : pc[u] \notin Scanning
    BY <1>4 DEF IInv, HolderUnique, ScanningHolds
  <2>3. ScanningHolds'
    BY <1>1, <2>2 DEF IInv, TypeOK, ScanningHolds, Scanning
  <2> QED
    BY <1>2, <1>3, <2>1, <2>3 DEF IInv, FlagHeld
<1>5. CASE ~couldReserve[t]
  <2>1. fScanningWallet' = fScanningWallet /\ \A u \in Threads : couldReserve'[u] = couldReserve[u]
    <3>1. fScanningWallet' = fScanningWallet
      BY <1>5, Zenon DEF Release
    <3>2. \A u \in Threads : couldReserve'[u] = couldReserve[u]
      BY <1>1, <1>5 DEF IInv, TypeOK
    <3> QED
      BY <3>1, <3>2
  <2>2. ScanningHolds'
    BY <1>1, <2>1 DEF IInv, TypeOK, ScanningHolds, Scanning
  <2> QED
    BY <1>2, <1>3, <2>1, <2>2 DEF IInv, FlagHeld
<1> QED
  BY <1>4, <1>5

(* Every step keeps the inductive invariant.                              *)
LEMMA IInvStep == IInv /\ [Next]_vars => IInv'
<1> SUFFICES ASSUME IInv, [Next]_vars PROVE IInv'
  OBVIOUS
<1>1. ASSUME NEW t \in Threads, Reserve(t) PROVE IInv'
  BY <1>1, ReserveStep
<1>2. ASSUME NEW t \in Threads, ScanStart(t) PROVE IInv'
  <2>1. TypeOK'
    <3>1. pos' \in [Threads -> 0..ScanLength]
      BY <1>2, ScanLengthAssumption DEF ScanStart, IInv, TypeOK
    <3>2. pc' \in [Threads -> Pcs]
      BY <1>2 DEF ScanStart, IInv, TypeOK, Pcs
    <3> QED
      BY <1>2, <3>1, <3>2 DEF ScanStart, IInv, TypeOK
  <2>2. (HolderUnique /\ FlagHeld /\ ScanningHolds)'
    BY <1>2 DEF ScanStart, IInv, TypeOK, HolderUnique, FlagHeld, ScanningHolds, Scanning
  <2> QED
    BY <2>1, <2>2 DEF IInv
<1>3. ASSUME NEW t \in Threads, ScanBatch(t) PROVE IInv'
  <2>1. TypeOK'
    BY <1>3, ScanLengthAssumption DEF ScanBatch, IInv, TypeOK, Pcs, Results
  <2>2. (HolderUnique /\ FlagHeld /\ ScanningHolds)'
    BY <1>3 DEF ScanBatch, IInv, TypeOK, HolderUnique, FlagHeld, ScanningHolds, Scanning
  <2> QED
    BY <2>1, <2>2 DEF IInv
<1>4. ASSUME NEW t \in Threads, Release(t) PROVE IInv'
  BY <1>4, ReleaseStep
<1>5. CASE AbortRescanCall
  BY <1>5 DEF AbortRescanCall, IInv, TypeOK, HolderUnique, FlagHeld, ScanningHolds
<1>6. CASE UNCHANGED vars
  BY <1>6 DEF vars, IInv, TypeOK, HolderUnique, FlagHeld, ScanningHolds
<1> QED
  BY <1>1, <1>2, <1>3, <1>4, <1>5, <1>6 DEF Next, Thread

LEMMA IInvInvariant == Spec => []IInv
BY InitIInv, IInvStep, PTL DEF Spec

-----------------------------------------------------------------------------
(* For any number of threads and any scan length, no two threads are ever *)
(* inside ScanForWalletTransactions at once.                              *)
THEOREM ReservationExclusiveInvariant == Spec => []ReservationExclusive
<1>1. IInv => ReservationExclusive
  BY DEF IInv, HolderUnique, ScanningHolds, ReservationExclusive
<1> QED
  BY <1>1, IInvInvariant, PTL

(* For any number of threads and any scan length, the                    *)
(* assert(reserver.isReserved()) of ScanForWalletTransactions holds at    *)
(* every step of every scan, whatever other reservers do meanwhile.       *)
THEOREM ScanHoldsReservationInvariant == Spec => []ScanHoldsReservation
<1>1. IInv => ScanHoldsReservation
  BY DEF IInv, FlagHeld, ScanningHolds, ScanHoldsReservation, IsReserved
<1> QED
  BY <1>1, IInvInvariant, PTL

(* The reservation state is always well typed; in particular a scan never *)
(* counts past its last batch.                                            *)
THEOREM TypeCorrect == Spec => []TypeOK
<1>1. IInv => TypeOK
  BY DEF IInv
<1> QED
  BY <1>1, IInvInvariant, PTL

-----------------------------------------------------------------------------
(* Refinement: every step of the reservers, scans, destructors and         *)
(* abortrescan calls is a step of RescanLock under the mapping Holders.    *)

(* A failed reserve(), a batch of a scan and the destructor of a reserver  *)
(* that did not reserve leave the lock as RescanLock sees it.             *)
LEMMA HoldersUnchanged ==
    ASSUME IInv, NEW t \in Threads,
           couldReserve' = [couldReserve EXCEPT ![t] = couldReserve[t]]
    PROVE  Holders' = Holders
BY DEF IInv, TypeOK, Holders

(* A successful reserve() is Acquire, ScanStart is ClearAbort, the         *)
(* destructor of the reserver that reserved is Relinquish, and a call of   *)
(* abortrescan that is accepted is Abort.                                  *)
LEMMA StepRefines == IInv /\ [Next]_vars => [Lock!Next]_Lock!avars
<1> SUFFICES ASSUME IInv, [Next]_vars PROVE [Lock!Next]_Lock!avars
  OBVIOUS
<1>1. ASSUME NEW t \in Threads, Reserve(t) PROVE [Lock!Next]_Lock!avars
  <2>1. CASE fScanningWallet
    <3>0. couldReserve' = couldReserve /\ fScanningWallet' = fScanningWallet
      BY <1>1, <2>1, Zenon DEF Reserve
    <3>1. Holders' = Holders
      BY <3>0 DEF Holders
    <3> QED BY <1>1, <3>0, <3>1 DEF Reserve, Lock!avars
  <2>2. CASE ~fScanningWallet
    <3>1. Holders = {}
      BY <2>2 DEF IInv, FlagHeld, Holders
    <3>2. Holders' = {t}
      BY <1>1, <2>2, <3>1 DEF Reserve, IInv, TypeOK, Holders
    <3> QED BY <1>1, <2>2, <3>1, <3>2 DEF Reserve, Lock!Next, Lock!Acquire
  <2> QED BY <2>1, <2>2
<1>2. ASSUME NEW t \in Threads, ScanStart(t) PROVE [Lock!Next]_Lock!avars
  <2>1. t \in Holders
    BY <1>2 DEF ScanStart, IInv, ScanningHolds, Scanning, Holders
  <2>2. Holders' = Holders
    BY <1>2 DEF ScanStart, Holders
  <2> QED BY <1>2, <2>1, <2>2 DEF ScanStart, Lock!Next, Lock!ClearAbort
<1>3. ASSUME NEW t \in Threads, ScanBatch(t) PROVE [Lock!Next]_Lock!avars
  <2>1. Holders' = Holders
    BY <1>3 DEF ScanBatch, Holders
  <2> QED BY <1>3, <2>1 DEF ScanBatch, Lock!avars
<1>4. ASSUME NEW t \in Threads, Release(t) PROVE [Lock!Next]_Lock!avars
  <2>1. CASE couldReserve[t]
    <3>1. Holders = {t}
      BY <2>1 DEF IInv, HolderUnique, Holders
    <3>2. Holders' = {}
      BY <1>4, <2>1, <3>1 DEF Release, IInv, TypeOK, Holders
    <3>3. ~fScanningWallet'
      BY <1>4, <2>1 DEF Release
    <3> QED BY <1>4, <3>1, <3>2, <3>3 DEF Release, Lock!Next, Lock!Relinquish
  <2>2. CASE ~couldReserve[t]
    <3>1. Holders' = Holders
      BY <1>4, <2>2, HoldersUnchanged DEF Release, IInv, TypeOK
    <3>2. fScanningWallet' = fScanningWallet
      BY <1>4, <2>2, Zenon DEF Release
    <3> QED BY <1>4, <3>1, <3>2 DEF Release, Lock!avars
  <2> QED BY <2>1, <2>2
<1>5. CASE AbortRescanCall
  <2>1. Holders' = Holders
    BY <1>5 DEF AbortRescanCall, Holders
  <2> QED BY <1>5, <2>1 DEF AbortRescanCall, Lock!Next, Lock!Abort
<1>6. CASE UNCHANGED vars
  BY <1>6 DEF vars, Lock!avars, Holders
<1> QED BY <1>1, <1>2, <1>3, <1>4, <1>5, <1>6 DEF Next, Thread

(* For any number of threads and any scan length, WalletRescanReserver     *)
(* with CWallet's scanning and abort flags implements the safety part of  *)
(* the rescan lock: one owner at a time, IsScanning() exactly while it is  *)
(* owned, and the abort flag raised only while scanning and cleared only  *)
(* by the owner.                                                           *)
THEOREM ImplementsRescanLockSafety == Spec => Lock!SafeSpec
<1>1. Init => Lock!Init
  BY DEF Init, Lock!Init, Holders
<1>2. IInv /\ [Next]_vars => [Lock!Next]_Lock!avars
  BY StepRefines
<1> QED BY <1>1, <1>2, IInvInvariant, PTL DEF Spec, Lock!SafeSpec

====

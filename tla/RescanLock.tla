----------------------------- MODULE RescanLock ------------------------------
(***************************************************************************)
(* What WalletRescanReserver promises its callers, without the reserver    *)
(* objects, the mutex or the scan: at most one thread owns the right to    *)
(* rescan the wallet, IsScanning() reports whether someone owns it, the    *)
(* owner gives it back, and an abortrescan raises a flag that the owner    *)
(* clears when its scan starts.                                            *)
(***************************************************************************)
CONSTANT Threads

VARIABLES
    owner,     \* the threads that own the rescan: {} or one thread
    scanning,  \* what IsScanning() reports
    aborting   \* what IsAbortingRescan() reports

avars == <<owner, scanning, aborting>>

Init ==
    /\ owner = {}
    /\ scanning = FALSE
    /\ aborting = FALSE

(* A reservation succeeds only when nobody owns the rescan.                *)
Acquire(t) ==
    /\ owner = {}
    /\ owner' = {t}
    /\ scanning' = TRUE
    /\ UNCHANGED aborting

(* The owner starts its scan and clears the abort flag for it.             *)
ClearAbort(t) ==
    /\ t \in owner
    /\ aborting' = FALSE
    /\ UNCHANGED <<owner, scanning>>

(* The owner gives the rescan back.                                        *)
Relinquish(t) ==
    /\ owner = {t}
    /\ owner' = {}
    /\ scanning' = FALSE
    /\ UNCHANGED aborting

(* An abort is accepted only while a rescan is owned and not already       *)
(* aborting.                                                               *)
Abort ==
    /\ scanning
    /\ ~aborting
    /\ aborting' = TRUE
    /\ UNCHANGED <<owner, scanning>>

Next ==
    \/ \E t \in Threads : Acquire(t) \/ ClearAbort(t) \/ Relinquish(t)
    \/ Abort

SafeSpec == Init /\ [][Next]_avars

(* The owner does not keep the rescan forever.                             *)
Spec == SafeSpec /\ \A t \in Threads : WF_avars(Relinquish(t))

=============================================================================

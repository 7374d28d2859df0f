---------------------------- MODULE ModelLifecycle ----------------------------
(***************************************************************************)
(* The life of a WalletModel (src/unnamed/part_000, qt/walletmodel.cpp)   *)
(* and the three kinds of thread that call into it: the GUI thread that   *)
(* owns it, the WalletWorker's QThread t, and the core's threads that run *)
(* the Notify* handlers subscribeToCoreSignals registers.                 *)
(*                                                                         *)
(* The constructor starts t and subscribes the handlers.  The destructor  *)
(* disconnects them, then t.quit() and t.wait(); after its body ~QObject  *)
(* deletes the children (the poll timer) and drops the events posted to   *)
(* the model.  A handler calls QMetaObject::invokeMethod on the raw       *)
(* WalletModel pointer bound at subscription.  Disconnecting a            *)
(* boost::signals2 connection (interfaces::Handler::disconnect, outside   *)
(* src/) stops later calls of the slot but does not wait for a call that  *)
(* is already running.                                                    *)
(***************************************************************************)
EXTENDS Naturals

CONSTANTS
    Threads,     \* the core's threads that emit wallet signals
    MaxSignals,  \* bound on the signals the core emits
    MaxTicks     \* bound on the poll timer's ticks

ASSUME LifecycleAssumption == MaxSignals \in Nat /\ MaxTicks \in Nat

VARIABLES
    model,     \* where the GUI thread is in the model's life
    tpc,       \* each core thread: "idle", or "handler": inside a Notify* handler
    guiQueue,  \* events posted to the model (queued invokeMethod calls)
    workerQueue, \* updateModel events posted to the worker's thread
    worker,    \* the worker thread: "waiting", "busy" (in updateModel), "finished"
    quitAsked, \* t.quit() has been called
    signals,   \* signals emitted so far
    ticks      \* timer ticks so far

vars == <<model, tpc, guiQueue, workerQueue, worker, quitAsked, signals, ticks>>

ModelStates == {"alive", "unsubscribed", "quitting", "deleted"}

-----------------------------------------------------------------------------
(* The constructor has run: t started, the handlers subscribed.            *)
Init ==
    /\ model = "alive"
    /\ tpc = [t \in Threads |-> "idle"]
    /\ guiQueue = 0
    /\ workerQueue = 0
    /\ worker = "waiting"
    /\ quitAsked = FALSE
    /\ signals = 0
    /\ ticks = 0

(* A core thread emits a wallet signal while the handler is connected:     *)
(* signals2 calls NotifyTransactionChanged, NotifyAddressBookChanged, ... *)
(* with the WalletModel pointer bound at subscription.                    *)
CoreSignal(t) ==
    /\ tpc[t] = "idle"
    /\ model = "alive"
    /\ signals < MaxSignals
    /\ signals' = signals + 1
    /\ tpc' = [tpc EXCEPT ![t] = "handler"]
    /\ UNCHANGED <<model, guiQueue, workerQueue, worker, quitAsked, ticks>>

(* The handler's invokeMethod posts the call to the model's thread; Qt    *)
(* keeps it only while the model exists.                                  *)
InvokeMethod(t) ==
    /\ tpc[t] = "handler"
    /\ tpc' = [tpc EXCEPT ![t] = "idle"]
    /\ guiQueue' = IF model = "deleted" THEN guiQueue ELSE guiQueue + 1
    /\ UNCHANGED <<model, workerQueue, worker, quitAsked, signals, ticks>>

(* The GUI thread's event loop runs a queued slot (updateTransaction,     *)
(* updateAddressBook, unload...).  Only between the model's calls.        *)
DeliverEvent ==
    /\ model = "alive"
    /\ guiQueue > 0
    /\ guiQueue' = guiQueue - 1
    /\ UNCHANGED <<model, tpc, workerQueue, worker, quitAsked, signals, ticks>>

(* startPollBalance's timer fires on the GUI thread: pollBalanceChanged,   *)
(* and an updateModel event posted to the worker.                         *)
TimerTick ==
    /\ model = "alive"
    /\ ticks < MaxTicks
    /\ ticks' = ticks + 1
    /\ workerQueue' = workerQueue + 1
    /\ UNCHANGED <<model, tpc, guiQueue, worker, quitAsked, signals>>

(* The worker's event loop takes an updateModel event, unless quit was    *)
(* asked: then exec() returns and the thread finishes.                    *)
WorkerStart ==
    /\ worker = "waiting"
    /\ ~quitAsked
    /\ workerQueue > 0
    /\ workerQueue' = workerQueue - 1
    /\ worker' = "busy"
    /\ UNCHANGED <<model, tpc, guiQueue, quitAsked, signals, ticks>>

(* updateModel returns to the event loop.                                  *)
WorkerEnd ==
    /\ worker = "busy"
    /\ worker' = "waiting"
    /\ UNCHANGED <<model, tpc, guiQueue, workerQueue, quitAsked, signals, ticks>>

WorkerExit ==
    /\ worker = "waiting"
    /\ quitAsked
    /\ worker' = "finished"
    /\ UNCHANGED <<model, tpc, guiQueue, workerQueue, quitAsked, signals, ticks>>

(* ~WalletModel: unsubscribeFromCoreSignals.                               *)
Unsubscribe ==
    /\ model = "alive"
    /\ model' = "unsubscribed"
    /\ UNCHANGED <<tpc, guiQueue, workerQueue, worker, quitAsked, signals, ticks>>

(* Fault model: the destructor calls t.wait() without t.quit().            *)
QuitThreadMissing ==
    /\ model = "unsubscribed"
    /\ model' = "quitting"
    /\ UNCHANGED <<tpc, guiQueue, workerQueue, worker, quitAsked, signals, ticks>>

(* t.quit().                                                               *)
QuitThread ==
    /\ model = "unsubscribed"
    /\ model' = "quitting"
    /\ quitAsked' = TRUE
    /\ UNCHANGED <<tpc, guiQueue, workerQueue, worker, signals, ticks>>

(* t.wait() returns once the worker has finished; then ~QObject deletes   *)
(* the children and drops the events posted to the model.                 *)
WaitThread ==
    /\ model = "quitting"
    /\ worker = "finished"
    /\ model' = "deleted"
    /\ guiQueue' = 0
    /\ UNCHANGED <<tpc, workerQueue, worker, quitAsked, signals, ticks>>

-----------------------------------------------------------------------------
Next ==
    \/ \E t \in Threads : CoreSignal(t) \/ InvokeMethod(t)
    \/ DeliverEvent \/ TimerTick
    \/ WorkerStart \/ WorkerEnd \/ WorkerExit
    \/ Unsubscribe \/ QuitThread \/ WaitThread

(* The worker thread and the GUI thread are scheduled; a core thread that *)
(* entered a handler finishes it.  The destruction itself is the owner's  *)
(* choice, so Unsubscribe has no fairness.                                *)
Fairness ==
    /\ WF_vars(WorkerStart \/ WorkerEnd \/ WorkerExit)
    /\ WF_vars(QuitThread) /\ WF_vars(WaitThread)
    /\ \A t \in Threads : WF_vars(InvokeMethod(t))

Spec == Init /\ [][Next]_vars /\ Fairness

-----------------------------------------------------------------------------
TypeOK ==
    /\ model \in ModelStates
    /\ tpc \in [Threads -> {"idle", "handler"}]
    /\ guiQueue \in Nat
    /\ workerQueue \in 0..ticks
    /\ worker \in {"waiting", "busy", "finished"}
    /\ quitAsked \in BOOLEAN
    /\ signals \in 0..MaxSignals
    /\ ticks \in 0..MaxTicks

(* Once the destructor has begun, it returns: t.wait() is not left waiting *)
(* on a worker thread whose event loop never exits.                       *)
DestructionCompletes == (model = "unsubscribed") ~> (model = "deleted")

(* No core thread is inside a Notify* handler, about to call               *)
(* invokeMethod on the bound pointer, once the model has been freed.       *)
HandlerTargetsLiveModel == \A t \in Threads : tpc[t] = "handler" => model # "deleted"

=============================================================================

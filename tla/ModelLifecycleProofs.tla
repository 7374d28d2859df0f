------------------------- MODULE ModelLifecycleProofs -------------------------
(***************************************************************************)
(* Proof that the lifecycle's state stays well typed, for any number of   *)
(* core threads and any bounds: in particular the worker's queue never     *)
(* holds more updateModel events than the poll timer has posted.           *)
(***************************************************************************)
EXTENDS ModelLifecycle, TLAPS

(* TypeOK is inductive as it stands: each tick posts one event and each   *)
(* WorkerStart takes one.                                                  *)
IInv == TypeOK

LEMMA InitIInv == Init => IInv
<1> SUFFICES ASSUME Init PROVE IInv
  OBVIOUS
<1>1. tpc \in [Threads -> {"idle", "handler"}]
  BY DEF Init
<1>2. model \in ModelStates /\ worker \in {"waiting", "busy", "finished"}
  BY DEF Init, ModelStates
<1>3. guiQueue \in Nat /\ workerQueue \in 0..ticks
      /\ signals \in 0..MaxSignals /\ ticks \in 0..MaxTicks
  BY LifecycleAssumption DEF Init
<1>5. quitAsked \in BOOLEAN
  BY Zenon DEF Init
<1>4. TypeOK
  BY <1>1, <1>2, <1>3, <1>5 DEF TypeOK
<1> QED
  BY <1>4 DEF IInv

LEMMA IInvStep == IInv /\ [Next]_vars => IInv'
<1> SUFFICES ASSUME IInv, [Next]_vars PROVE IInv'
  OBVIOUS
<1> USE LifecycleAssumption DEF IInv, TypeOK, ModelStates
<1>1. ASSUME NEW t \in Threads, CoreSignal(t) PROVE IInv'
  BY <1>1 DEF CoreSignal
<1>2. ASSUME NEW t \in Threads, InvokeMethod(t) PROVE IInv'
  BY <1>2 DEF InvokeMethod
<1>3. CASE DeliverEvent
  BY <1>3 DEF DeliverEvent
<1>4. CASE TimerTick
  BY <1>4 DEF TimerTick
<1>5. CASE WorkerStart
  BY <1>5 DEF WorkerStart
<1>6. CASE WorkerEnd
  BY <1>6 DEF WorkerEnd
<1>7. CASE WorkerExit
  BY <1>7 DEF WorkerExit
<1>8. CASE Unsubscribe
  BY <1>8 DEF Unsubscribe
<1>9. CASE QuitThread
  BY <1>9 DEF QuitThread
<1>10. CASE WaitThread
  BY <1>10 DEF WaitThread
<1>11. CASE UNCHANGED vars
  BY <1>11 DEF vars
<1> QED
  BY <1>1, <1>2, <1>3, <1>4, <1>5, <1>6, <1>7, <1>8, <1>9, <1>10, <1>11 DEF Next

LEMMA IInvInvariant == Spec => []IInv
BY InitIInv, IInvStep, PTL DEF Spec

-----------------------------------------------------------------------------
(* For any number of core threads and any bounds on signals and ticks, the *)
(* lifecycle state, the queues and the thread states stay well typed.     *)
THEOREM TypeCorrect == Spec => []TypeOK
<1>1. IInv => TypeOK
  BY DEF IInv
<1> QED
  BY <1>1, IInvInvariant, PTL
=============================================================================

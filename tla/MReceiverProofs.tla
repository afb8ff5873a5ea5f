-------------------------- MODULE MReceiverProofs --------------------------
(***************************************************************************)
(* Proofs about the multicast receiver (MReceiver): the type invariant and *)
(* StopQuiescent, for every behaviour of the model.                       *)
(***************************************************************************)
EXTENDS MReceiver, TLAPS

(* A handler runs only on the worker thread, inside io_.run.               *)
HandlerOnWorker == rx = "handling" => worker = "running"

(* A receive is posted or handled only on the socket start opened, which  *)
(* nothing closes.                                                         *)
ChainOnOpenSocket == rx # "none" => sock = "open"

IInv == TypeOK /\ StopQuiescent /\ HandlerOnWorker /\ ChainOnOpenSocket

-----------------------------------------------------------------------------
(* The inductive invariant.                                                *)

LEMMA IInvInit == Init => IInv
  BY DEF Init, IInv, TypeOK, StopQuiescent, HandlerOnWorker, ChainOnOpenSocket

(* Every step of the receiver keeps the invariant: one case per action.    *)
LEMMA IInvStep == IInv /\ [Next]_vars => IInv'
  <1> SUFFICES ASSUME IInv, [Next]_vars PROVE IInv'
    OBVIOUS
  <1> USE DEF IInv, TypeOK, StopQuiescent, HandlerOnWorker, ChainOnOpenSocket
  <1>1. ASSUME NEW h \in BOOLEAN, SetHandler(h) PROVE IInv'
    BY <1>1 DEF SetHandler
  <1>2. ASSUME NEW d \in BOOLEAN, SetDest(d) PROVE IInv'
    BY <1>2 DEF SetDest
  <1>3. CASE Start
    (* The failed start finds the socket closed, so no receive is live;   *)
    (* the successful one posts a receive on the socket it opened.        *)
    BY <1>3 DEF Start
  <1>4. CASE ReceiveOk
    BY <1>4 DEF ReceiveOk
  <1>5. CASE ReceiveErr
    BY <1>5 DEF ReceiveErr
  <1>6. CASE HandlerDone
    BY <1>6 DEF HandlerDone
  <1>7. CASE WorkerExit
    BY <1>7 DEF WorkerExit
  <1>8. CASE StopBegin
    BY <1>8 DEF StopBegin
  <1>9. CASE StopJoin
    (* The join returns only when the worker is not running, so no handler *)
    (* is running: HandlerOnWorker gives StopQuiescent after the step.     *)
    BY <1>9 DEF StopJoin
  <1>10. CASE Destroy
    BY <1>10 DEF Destroy
  <1>11. CASE UNCHANGED vars
    BY <1>11 DEF vars
  <1>12. QED
    BY <1>1, <1>2, <1>3, <1>4, <1>5, <1>6, <1>7, <1>8, <1>9, <1>10, <1>11
       DEF Next

-----------------------------------------------------------------------------
(* Theorems.                                                               *)

(* Every reachable state of the receiver has its type.                     *)
THEOREM TypeCorrect == Spec => []TypeOK
  <1>1. Init => IInv
    BY IInvInit
  <1>2. IInv /\ [Next]_vars => IInv'
    BY IInvStep
  <1>3. IInv => TypeOK
    BY DEF IInv
  <1>4. QED
    BY <1>1, <1>2, <1>3, PTL DEF Spec

(* Once stop (or the destructor) has returned after stopping the          *)
(* io_context, no message handler runs: stop joins the worker, and the    *)
(* worker leaves io_.run only between handlers.  This is StopQuiescent,    *)
(* checked by the mreceiver_stop run, for every behaviour.                *)
THEOREM StopIsQuiescent == Spec => []StopQuiescent
  <1>1. Init => IInv
    BY IInvInit
  <1>2. IInv /\ [Next]_vars => IInv'
    BY IInvStep
  <1>3. IInv => StopQuiescent
    BY DEF IInv
  <1>4. QED
    BY <1>1, <1>2, <1>3, PTL DEF Spec

=============================================================================

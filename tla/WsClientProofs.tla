--------------------------- MODULE WsClientProofs ---------------------------
(***************************************************************************)
(* Proofs about the WebSocket client (WsClient): every reachable state    *)
(* has its type, for any reader and operation identities, handlers and    *)
(* urls.                                                                   *)
(***************************************************************************)
EXTENDS WsClient, TLAPS

-----------------------------------------------------------------------------
(* The type.                                                               *)

(* The constructor's state has the type.                                  *)
LEMMA TypeInit == Init => TypeOK
  BY DEF Init, TypeOK

(* Every step of the client keeps the type: one case per action.          *)
LEMMA TypeStep == TypeOK /\ [Next]_vars => TypeOK'
  <1> SUFFICES ASSUME TypeOK, [Next]_vars PROVE TypeOK'
    OBVIOUS
  <1> USE WsClientAssumption DEF TypeOK
  <1>1. ASSUME NEW u \in Urls, Open(u) PROVE TypeOK'
    BY <1>1 DEF Open
  <1>2. ASSUME NEW h \in Handlers, OnMessage(h) PROVE TypeOK'
    BY <1>2 DEF OnMessage, IsOpen
  <1>3. CASE StopJoin
    BY <1>3 DEF StopJoin
  <1>4. CASE Destroy
    BY <1>4 DEF Destroy, Idle
  <1>5. ASSUME NEW o \in Ops,
               Send(o) \/ Close(o) \/ OpStart(o) \/ WriteDone(o) \/ CloseDone(o)
        PROVE TypeOK'
    BY <1>5 DEF Send, Close, OpStart, WriteDone, CloseDone
  <1>6. ASSUME NEW r \in Readers,
               Spawn(r) \/ LoopTest(r) \/ ReadOk(r) \/ ReadFail(r)
        PROVE TypeOK'
    BY <1>6 DEF Spawn, LoopTest, ReadOk, ReadFail
  <1>7. CASE UNCHANGED vars
    BY <1>7 DEF vars
  <1>8. QED
    BY <1>1, <1>2, <1>3, <1>4, <1>5, <1>6, <1>7 DEF Next

-----------------------------------------------------------------------------
(* Theorems.                                                               *)

(* Every reachable state of the client has its type.                       *)
THEOREM TypeCorrect == Spec => []TypeOK
  BY TypeInit, TypeStep, PTL DEF Spec

=============================================================================

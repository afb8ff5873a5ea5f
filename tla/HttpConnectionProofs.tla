------------------------ MODULE HttpConnectionProofs ------------------------
(***************************************************************************)
(* Proofs about one HTTP connection (HttpConnection), for every bound on   *)
(* the requests and the replies and with or without a timeout.            *)
(***************************************************************************)
EXTENDS HttpConnection, TLAPS

(* The request is legal: a known verb and a target under the root.        *)
Legal == req.method # "unknown" /\ req.target = "ok"

(* Only a legal request gets past handleRequest's validation.              *)
PastValidationLegal ==
    phase \in {"handler", "static"} => Legal

(* While an illegal request is served, no handler ran and the doc root  *)
(* was not opened for it.                                                  *)
ValidationFirst ==
    (phase \in Serving /\ (req.method = "unknown" \/ req.target # "ok"))
        => (~handlerRan /\ ~fsTouched)

(* The session's reply set the loop's close flag from this request:       *)
(* SendLambda copies keep-alive into close, and nothing else writes it.   *)
CloseFromReply ==
    (phase \in Serving /\ replied) => (close = ~req.keepAlive)

IInv ==
    /\ TypeOK
    /\ OneResponsePerRequest
    /\ ValidationFirst
    /\ PastValidationLegal
    /\ CloseFromReply

-----------------------------------------------------------------------------
(* The inductive invariant.                                                *)

(* A fresh connection, before its first read, satisfies the invariant.     *)
LEMMA IInvInit == Init => IInv
  <1> SUFFICES ASSUME Init PROVE IInv
    OBVIOUS
  <1>1. TypeOK
    <2>1. phase \in Phases /\ req \in Requests
      BY DEF Init, NoRequest, Requests, Phases
    <2>2. wire \in Seq(HandlerStatus)
      BY DEF Init
    <2>3. nReplies \in 0..MaxReplies /\ served \in 0..MaxRequests
      BY ConnAssumption DEF Init
    <2>4. /\ replied \in BOOLEAN /\ close \in BOOLEAN /\ dupAssert \in BOOLEAN
          /\ handlerRan \in BOOLEAN /\ fsTouched \in BOOLEAN
          /\ armed \in BOOLEAN /\ expired \in BOOLEAN
      BY Zenon DEF Init
    <2>5. QED
      BY <2>1, <2>2, <2>3, <2>4, Zenon DEF TypeOK
  <1>2. OneResponsePerRequest
    BY DEF Init, OneResponsePerRequest, Serving
  <1>3. ValidationFirst /\ PastValidationLegal /\ CloseFromReply
    BY DEF Init, ValidationFirst, PastValidationLegal, CloseFromReply, Serving
  <1>4. QED
    BY <1>1, <1>2, <1>3 DEF IInv

(* Session::reply keeps the type: it appends a status or changes nothing.  *)
LEMMA ReplyType ==
  ASSUME TypeOK, NEW st \in HandlerStatus, Reply(st)
  PROVE  /\ replied' \in BOOLEAN /\ wire' \in Seq(HandlerStatus)
         /\ close' \in BOOLEAN /\ dupAssert' \in BOOLEAN
  <1>1. CASE replied
    BY <1>1, Zenon DEF Reply, TypeOK
  <1>2. CASE ~replied
    <2>1. wire' = Append(wire, st) /\ close' = ~req.keepAlive
          /\ replied' = TRUE /\ dupAssert' = dupAssert
      BY <1>2, Zenon DEF Reply, SendLambda
    <2>2. wire' \in Seq(HandlerStatus)
      BY <2>1 DEF TypeOK
    <2>3. QED
      BY <2>1, <2>2, Zenon DEF TypeOK
  <1>3. QED
    BY <1>1, <1>2

(* What Session::reply does to the wire and the close flag: the first     *)
(* reply writes one response and copies keep-alive into close; a later    *)
(* one changes neither.                                                    *)
LEMMA ReplyEffect ==
  ASSUME TypeOK, NEW st \in HandlerStatus, Reply(st)
  PROVE  /\ replied'
         /\ ~replied => /\ wire' = Append(wire, st)
                        /\ close' = ~req.keepAlive
         /\ replied => UNCHANGED <<wire, close>>
  BY DEF Reply, SendLambda

(* Session::reply leaves the loop's close flag as the request asks: the    *)
(* first reply copies need_eof() into it, and a later one finds it        *)
(* already so.                                                             *)
LEMMA ReplyKeepsClose ==
  ASSUME NEW st, Reply(st), req' = req, replied => close = ~req.keepAlive
  PROVE  replied' /\ close' = ~req'.keepAlive
  <1>1. CASE replied
    BY <1>1, Zenon DEF Reply
  <1>2. CASE ~replied
    BY <1>2, Zenon DEF Reply, SendLambda
  <1>3. QED
    BY <1>1, <1>2

(* Every step of the connection keeps the type: one case per action.     *)
LEMMA TypeStep == TypeOK /\ [Next]_vars => TypeOK'
  <1> SUFFICES ASSUME TypeOK, [Next]_vars PROVE TypeOK'
    OBVIOUS
  <1> USE ConnAssumption DEF TypeOK, Phases, Requests
  <1>1. CASE LoopTop
    <2>1. armed' \in BOOLEAN /\ expired' \in BOOLEAN
      BY <1>1, Zenon DEF LoopTop
    <2>2. QED
      BY <1>1, <2>1 DEF LoopTop
  <1>2. CASE TimerExpire
    BY <1>2 DEF TimerExpire
  <1>3. CASE ReadOk
    <2>1. PICK r \in Requests :
            /\ req' = r /\ served' = served + 1
            /\ phase' = IF r.upgrade THEN "ws" ELSE "validate"
      BY <1>3 DEF ReadOk
    <2>2. served' \in 0..MaxRequests /\ phase' \in Phases
      BY <1>3, <2>1 DEF ReadOk
    <2>3. replied' \in BOOLEAN /\ handlerRan' \in BOOLEAN /\ fsTouched' \in BOOLEAN
      BY <1>3, Zenon DEF ReadOk
    <2>4. nReplies' \in 0..MaxReplies
      BY <1>3 DEF ReadOk
    <2>5. QED
      BY <1>3, <2>1, <2>2, <2>3, <2>4 DEF ReadOk
  <1>4. CASE ReadFail
    BY <1>4 DEF ReadFail
  <1>5. CASE Validate
    BY <1>5, ReplyType, 400 \in HandlerStatus DEF Validate, HandlerStatus
  <1>6. CASE HandlerReply
    BY <1>6, ReplyType DEF HandlerReply
  <1>7. CASE HandlerReturn
    BY <1>7 DEF HandlerReturn
  <1>8. CASE HandlerThrow
    BY <1>8, ReplyType DEF HandlerThrow, HandlerStatus
  <1>9. CASE StaticReply
    BY <1>9, ReplyType DEF StaticReply, HandlerStatus
  <1>10. CASE Finish
    BY <1>10, ReplyType DEF Finish, HandlerStatus
  <1>11. CASE UNCHANGED vars
    BY <1>11 DEF vars
  <1>12. QED
    BY <1>1, <1>2, <1>3, <1>4, <1>5, <1>6, <1>7, <1>8, <1>9, <1>10, <1>11
       DEF Next

(* Every step of the connection keeps the invariant: one case per action, *)
(* and under it one step per conjunct.                                    *)
LEMMA IInvStep == IInv /\ [Next]_vars => IInv'
  <1> SUFFICES ASSUME IInv, [Next]_vars PROVE IInv'
    OBVIOUS
  <1>0. TypeOK /\ TypeOK'
    BY TypeStep DEF IInv
  <1> USE DEF IInv, Serving, Legal, HandlerStatus
  <1>1. CASE LoopTop
    <2>1. OneResponsePerRequest'
      BY <1>1, <1>0 DEF LoopTop, OneResponsePerRequest, TypeOK
    <2>2. ValidationFirst'
      BY <1>1 DEF LoopTop, ValidationFirst
    <2>3. PastValidationLegal'
      BY <1>1 DEF LoopTop, PastValidationLegal
    <2>4. CloseFromReply'
      BY <1>1 DEF LoopTop, CloseFromReply
    <2>5. QED
      BY <1>0, <2>1, <2>2, <2>3, <2>4
  <1>2. CASE TimerExpire
    <2>1. OneResponsePerRequest'
      BY <1>2, <1>0 DEF TimerExpire, OneResponsePerRequest, TypeOK
    <2>2. ValidationFirst'
      BY <1>2 DEF TimerExpire, ValidationFirst
    <2>3. PastValidationLegal'
      BY <1>2 DEF TimerExpire, PastValidationLegal
    <2>4. CloseFromReply'
      BY <1>2 DEF TimerExpire, CloseFromReply
    <2>5. QED
      BY <1>0, <2>1, <2>2, <2>3, <2>4
  <1>3. CASE ReadOk
    <2>1. OneResponsePerRequest'
      BY <1>3, <1>0 DEF ReadOk, OneResponsePerRequest, TypeOK
    <2>2. ValidationFirst'
      BY <1>3 DEF ReadOk, ValidationFirst
    <2>3. PastValidationLegal'
      BY <1>3 DEF ReadOk, PastValidationLegal
    <2>4. CloseFromReply'
      BY <1>3 DEF ReadOk, CloseFromReply
    <2>5. QED
      BY <1>0, <2>1, <2>2, <2>3, <2>4
  <1>4. CASE ReadFail
    <2>1. OneResponsePerRequest'
      BY <1>4, <1>0 DEF ReadFail, OneResponsePerRequest, TypeOK
    <2>2. ValidationFirst'
      BY <1>4 DEF ReadFail, ValidationFirst
    <2>3. PastValidationLegal'
      BY <1>4 DEF ReadFail, PastValidationLegal
    <2>4. CloseFromReply'
      BY <1>4 DEF ReadFail, CloseFromReply
    <2>5. QED
      BY <1>0, <2>1, <2>2, <2>3, <2>4
  <1>5. CASE Validate
    <2>1. OneResponsePerRequest'
      BY <1>5, <1>0, ReplyEffect, 400 \in HandlerStatus DEF Validate, OneResponsePerRequest, TypeOK
    <2>2. ValidationFirst'
      BY <1>5, ReplyEffect, 400 \in HandlerStatus DEF Validate, ValidationFirst
    <2>3. PastValidationLegal'
      BY <1>5, ReplyEffect, 400 \in HandlerStatus DEF Validate, PastValidationLegal
    <2>4. CloseFromReply'
      <3>1. CASE req.method = "unknown" \/ req.target # "ok"
        <4>1. Reply(400) /\ req' = req
          BY <1>5, <3>1 DEF Validate
        <4>2. replied => close = ~req.keepAlive
          BY <1>5 DEF Validate, CloseFromReply
        <4>3. replied' /\ close' = ~req'.keepAlive
          BY <4>1, <4>2, ReplyKeepsClose
        <4>4. QED
          BY <4>3 DEF CloseFromReply
      <3>2. CASE ~(req.method = "unknown" \/ req.target # "ok")
        BY <1>5, <3>2, Zenon DEF Validate, CloseFromReply
      <3>3. QED
        BY <3>1, <3>2
    <2>5. QED
      BY <1>0, <2>1, <2>2, <2>3, <2>4
  <1>6. CASE HandlerReply
    <2>1. OneResponsePerRequest'
      BY <1>6, <1>0, ReplyEffect DEF HandlerReply, OneResponsePerRequest, TypeOK
    <2>2. ValidationFirst'
      BY <1>6, ReplyEffect DEF HandlerReply, ValidationFirst
    <2>3. PastValidationLegal'
      BY <1>6, ReplyEffect DEF HandlerReply, PastValidationLegal
    <2>4. CloseFromReply'
      BY <1>6, ReplyEffect DEF HandlerReply, CloseFromReply
    <2>5. QED
      BY <1>0, <2>1, <2>2, <2>3, <2>4
  <1>7. CASE HandlerReturn
    <2>1. OneResponsePerRequest'
      BY <1>7, <1>0 DEF HandlerReturn, OneResponsePerRequest, TypeOK
    <2>2. ValidationFirst'
      BY <1>7 DEF HandlerReturn, ValidationFirst
    <2>3. PastValidationLegal'
      BY <1>7 DEF HandlerReturn, PastValidationLegal
    <2>4. CloseFromReply'
      BY <1>7 DEF HandlerReturn, CloseFromReply
    <2>5. QED
      BY <1>0, <2>1, <2>2, <2>3, <2>4
  <1>8. CASE HandlerThrow
    <2>1. OneResponsePerRequest'
      BY <1>8, <1>0, ReplyEffect, 500 \in HandlerStatus DEF HandlerThrow, OneResponsePerRequest, TypeOK
    <2>2. ValidationFirst'
      BY <1>8, ReplyEffect, 500 \in HandlerStatus DEF HandlerThrow, ValidationFirst
    <2>3. PastValidationLegal'
      BY <1>8, ReplyEffect, 500 \in HandlerStatus DEF HandlerThrow, PastValidationLegal
    <2>4. CloseFromReply'
      BY <1>8, ReplyEffect, 500 \in HandlerStatus DEF HandlerThrow, CloseFromReply
    <2>5. QED
      BY <1>0, <2>1, <2>2, <2>3, <2>4
  <1>9. CASE StaticReply
    <2>0. \E st \in HandlerStatus :
            /\ phase = "static" /\ Reply(st) /\ phase' = "finish" /\ fsTouched'
            /\ UNCHANGED <<req, nReplies, served, handlerRan, armed, expired>>
      <3>1. CASE req.file = "missing"
        BY <1>9, <3>1 DEF StaticReply
      <3>2. CASE req.file = "error"
        BY <1>9, <3>2 DEF StaticReply
      <3>3. CASE req.file = "exists"
        BY <1>9, <3>3 DEF StaticReply
      <3>4. QED
        BY <1>0, <3>1, <3>2, <3>3 DEF TypeOK, Requests
    <2>6. PICK st \in HandlerStatus :
            /\ phase = "static" /\ Reply(st) /\ phase' = "finish" /\ fsTouched'
            /\ UNCHANGED <<req, nReplies, served, handlerRan, armed, expired>>
      BY <2>0
    <2>1. OneResponsePerRequest'
      <3>1. CASE replied
        BY <1>0, <2>6, <3>1, ReplyEffect DEF OneResponsePerRequest, TypeOK
      <3>2. CASE ~replied
        BY <1>0, <2>6, <3>2, ReplyEffect DEF OneResponsePerRequest, TypeOK
      <3>3. QED
        BY <3>1, <3>2
    <2>2. ValidationFirst'
      BY <2>6, Zenon DEF ValidationFirst, PastValidationLegal
    <2>3. PastValidationLegal'
      BY <1>9, <2>6, ReplyEffect DEF PastValidationLegal
    <2>4. CloseFromReply'
      <3>1. replied => close = ~req.keepAlive
        BY <2>6 DEF CloseFromReply
      <3>2. replied' /\ close' = ~req'.keepAlive
        BY <2>6, <3>1, ReplyKeepsClose
      <3>3. QED
        BY <3>2 DEF CloseFromReply
    <2>5. QED
      BY <1>0, <2>1, <2>2, <2>3, <2>4
  <1>10. CASE Finish
    <2>1. OneResponsePerRequest'
      BY <1>10, <1>0, ReplyEffect, 500 \in HandlerStatus DEF Finish, OneResponsePerRequest, TypeOK
    <2>2. ValidationFirst'
      BY <1>10, ReplyEffect, 500 \in HandlerStatus DEF Finish, ValidationFirst
    <2>3. PastValidationLegal'
      BY <1>10, ReplyEffect, 500 \in HandlerStatus DEF Finish, PastValidationLegal
    <2>4. CloseFromReply'
      BY <1>10, ReplyEffect, 500 \in HandlerStatus DEF Finish, CloseFromReply
    <2>5. QED
      BY <1>0, <2>1, <2>2, <2>3, <2>4
  <1>11. CASE UNCHANGED vars
    BY <1>0, <1>11 DEF vars, OneResponsePerRequest, ValidationFirst,
                 PastValidationLegal, CloseFromReply
  <1>12. QED
    BY <1>1, <1>2, <1>3, <1>4, <1>5, <1>6, <1>7, <1>8, <1>9, <1>10, <1>11
       DEF Next

(* Only doProcessRequest's tail leaves "finish", and it goes back to the   *)
(* loop top exactly when the request asked for keep-alive.                 *)
LEMMA KeepAliveStep ==
  IInv /\ [Next]_vars =>
    [(phase = "finish" /\ phase' # "finish") => (phase' = "top" <=> req.keepAlive)]_vars
  <1> SUFFICES ASSUME IInv, [Next]_vars, phase = "finish", phase' # "finish"
               PROVE  phase' = "top" <=> req.keepAlive
    OBVIOUS
  <1>1. Finish
    <2>1. ~(LoopTop \/ ReadOk \/ ReadFail \/ Validate \/ HandlerReturn
            \/ HandlerThrow \/ StaticReply)
      BY DEF LoopTop, ReadOk, ReadFail, Validate, HandlerReturn, HandlerThrow,
             StaticReply
    <2>2. ~(TimerExpire \/ HandlerReply \/ UNCHANGED vars)
      BY DEF TimerExpire, HandlerReply, vars
    <2>3. QED
      BY <2>1, <2>2 DEF Next
  <1>2. replied => close = ~req.keepAlive
    BY DEF IInv, CloseFromReply, Serving
  <1>3. req' = req /\ close' = ~req.keepAlive
    <2>1. CASE ~replied
      BY <1>1, <1>2, <2>1, ReplyKeepsClose DEF Finish
    <2>2. CASE replied
      BY <1>1, <1>2, <2>2 DEF Finish
    <2>3. QED
      BY <2>1, <2>2
  <1>4. phase' = IF close' THEN "closed" ELSE "top"
    BY <1>1 DEF Finish
  <1>5. QED
    BY <1>3, <1>4, Zenon

-----------------------------------------------------------------------------
(* Refinement: the connection implements HttpExchange under the mapping   *)
(* of HttpConnection's Exchange.                                           *)

(* A first reply to the request being served writes the response the      *)
(* client is waiting for: an HttpExchange Respond.                         *)
LEMMA FirstReplyResponds ==
  ASSUME IInv, NEW st \in HandlerStatus, Reply(st), ~replied,
         phase \in Serving, served' = served, phase' # "ws"
  PROVE  Exchange!Respond
  <1>0. TypeOK
    BY DEF IInv
  <1>1. Len(wire) = served - 1
    BY <1>0 DEF IInv, OneResponsePerRequest, Serving, TypeOK
  <1>2. wire' = Append(wire, st)
    BY <1>0, ReplyEffect
  <1>3. served = Len(wire) + 1 /\ Len(wire') = Len(wire) + 1
    BY <1>0, <1>1, <1>2 DEF TypeOK
  <1>4. phase \notin {"closed", "ws"} /\ (phase \notin {"closed", "ws"})' \in BOOLEAN
    BY DEF Serving
  <1>5. QED
    BY <1>3, <1>4 DEF Exchange!Respond

(* A later reply changes nothing the client sees.                          *)
LEMMA LaterReplyInvisible ==
  ASSUME NEW st, Reply(st), replied
  PROVE  UNCHANGED wire
  BY Zenon DEF Reply

(* A step that reads nothing and writes nothing, inside the HTTP loop, is *)
(* invisible to the client.                                                *)
LEMMA QuietStep ==
  ASSUME served' = served, wire' = wire,
         phase \notin {"closed", "ws"}, phase' \notin {"closed", "ws"}
  PROVE  UNCHANGED Exchange!vars
  BY DEF Exchange!vars

(* A reply made while a request is served, staying in the HTTP loop, is   *)
(* a Respond when it is the first and invisible otherwise.                 *)
LEMMA ReplyStep ==
  ASSUME IInv, NEW st \in HandlerStatus, Reply(st), phase \in Serving,
         served' = served, phase' \notin {"closed", "ws"}
  PROVE  [Exchange!Next]_Exchange!vars
  <1>1. CASE ~replied
    BY <1>1, FirstReplyResponds DEF Exchange!Next
  <1>2. CASE replied
    <2>1. UNCHANGED wire
      BY <1>2, LaterReplyInvisible
    <2>2. phase \notin {"closed", "ws"}
      BY DEF Serving
    <2>3. QED
      BY <2>1, <2>2, QuietStep
  <1>3. QED
    BY <1>1, <1>2

(* Every step of the connection is a step of HttpExchange or leaves the   *)
(* mapped state alone.                                                     *)
LEMMA RefinementStep == IInv /\ [Next]_vars => [Exchange!Next]_Exchange!vars
  <1> SUFFICES ASSUME IInv, [Next]_vars PROVE [Exchange!Next]_Exchange!vars
    OBVIOUS
  <1>0. TypeOK
    BY DEF IInv
  <1> DEFINE Stutter == UNCHANGED <<phase, served, wire>>
  <1>s. Stutter => UNCHANGED Exchange!vars
    BY DEF Exchange!vars
  <1>1. CASE LoopTop
    BY <1>1 DEF LoopTop, Exchange!vars
  <1>2. CASE TimerExpire
    BY <1>2, <1>s DEF TimerExpire
  <1>3. CASE ReadOk
    <2>1. Len(wire) = served
      BY <1>3, <1>0 DEF ReadOk, IInv, OneResponsePerRequest, Serving, TypeOK
    <2>2. PICK r \in Requests :
            /\ req' = r /\ served' = served + 1
            /\ phase' = IF r.upgrade THEN "ws" ELSE "validate"
      BY <1>3 DEF ReadOk
    <2>3. CASE r.upgrade
      <3>1. Exchange!Close
        BY <1>3, <2>1, <2>2, <2>3, <1>0 DEF ReadOk, Exchange!Close, TypeOK
      <3>2. QED
        BY <3>1 DEF Exchange!Next
    <2>4. CASE ~r.upgrade
      <3>1. Exchange!Receive
        BY <1>3, <2>1, <2>2, <2>4, <1>0 DEF ReadOk, Exchange!Receive, TypeOK
      <3>2. QED
        BY <3>1 DEF Exchange!Next
    <2>5. QED
      BY <2>3, <2>4
  <1>4. CASE ReadFail
    <2>1. Exchange!Close
      BY <1>4, <1>0 DEF ReadFail, Exchange!Close, IInv, OneResponsePerRequest,
                        Serving, TypeOK
    <2>2. QED
      BY <2>1 DEF Exchange!Next
  <1>5. CASE Validate
    <2>1. CASE req.method = "unknown" \/ req.target # "ok"
      <3>1. Reply(400) /\ phase = "validate" /\ phase' = "finish" /\ served' = served
        BY <1>5, <2>1 DEF Validate
      <3>2. QED
        BY <3>1, ReplyStep, 400 \in HandlerStatus DEF Serving, HandlerStatus
    <2>2. CASE ~(req.method = "unknown" \/ req.target # "ok")
      <3>1. /\ phase' \in {"handler", "static"} /\ phase = "validate"
            /\ served' = served /\ wire' = wire
        BY <1>5, <2>2 DEF Validate
      <3>2. QED
        BY <3>1, QuietStep
    <2>3. QED
      BY <2>1, <2>2
  <1>6. CASE HandlerReply
    <2>1. PICK st \in HandlerStatus : Reply(st)
      BY <1>6 DEF HandlerReply
    <2>2. phase = "handler" /\ phase' = "handler" /\ served' = served
      BY <1>6 DEF HandlerReply
    <2>3. QED
      BY <2>1, <2>2, ReplyStep DEF Serving
  <1>7. CASE HandlerReturn
    BY <1>7, QuietStep DEF HandlerReturn
  <1>8. CASE HandlerThrow
    <2>1. Reply(500) /\ phase = "handler" /\ phase' = "finish" /\ served' = served
      BY <1>8 DEF HandlerThrow
    <2>2. QED
      BY <2>1, ReplyStep, 500 \in HandlerStatus DEF Serving, HandlerStatus
  <1>9. CASE StaticReply
    <2>1. \E st \in HandlerStatus :
            Reply(st) /\ phase = "static" /\ phase' = "finish" /\ served' = served
      <3>1. CASE req.file = "missing"
        BY <1>9, <3>1 DEF StaticReply, HandlerStatus
      <3>2. CASE req.file = "error"
        BY <1>9, <3>2 DEF StaticReply, HandlerStatus
      <3>3. CASE req.file = "exists"
        BY <1>9, <3>3 DEF StaticReply, HandlerStatus
      <3>4. QED
        BY <1>0, <3>1, <3>2, <3>3 DEF TypeOK, Requests
    <2>2. QED
      BY <2>1, ReplyStep DEF Serving
  <1>10. CASE Finish
    <2>1. phase = "finish" /\ served' = served /\ phase' \in {"closed", "top"}
      BY <1>10 DEF Finish
    <2>2. CASE ~replied
      <3>1. Reply(500)
        BY <1>10, <2>2 DEF Finish
      <3>2. Exchange!Respond
        BY <2>1, <2>2, <3>1, FirstReplyResponds, 500 \in HandlerStatus
           DEF Serving, HandlerStatus
      <3>3. QED
        BY <3>2 DEF Exchange!Next
    <2>3. CASE replied
      <3>1. UNCHANGED wire
        BY <1>10, <2>3 DEF Finish
      <3>2. Len(wire) = served
        BY <1>0, <2>1, <2>3 DEF IInv, OneResponsePerRequest, Serving, TypeOK
      <3>3. CASE phase' = "top"
        BY <2>1, <3>1, <3>3, QuietStep
      <3>4. CASE phase' = "closed"
        <4>1. Exchange!Close
          BY <2>1, <3>1, <3>2, <3>4 DEF Exchange!Close
        <4>2. QED
          BY <4>1 DEF Exchange!Next
      <3>5. QED
        BY <2>1, <3>3, <3>4
    <2>4. QED
      BY <2>2, <2>3
  <1>11. CASE UNCHANGED vars
    BY <1>11 DEF vars, Exchange!vars
  <1>12. QED
    BY <1>1, <1>2, <1>3, <1>4, <1>5, <1>6, <1>7, <1>8, <1>9, <1>10, <1>11
       DEF Next

-----------------------------------------------------------------------------
(* Theorems.                                                               *)

(* Every reachable state of the connection has its type, for every bound  *)
(* on the requests and the replies and with or without a timeout.         *)
THEOREM TypeCorrect == Spec => []TypeOK
  <1>1. Init => IInv
    BY IInvInit
  <1>2. IInv /\ [Next]_vars => IInv'
    BY IInvStep
  <1>3. IInv => TypeOK
    BY DEF IInv
  <1>4. QED
    BY <1>1, <1>2, <1>3, PTL DEF Spec

(* doConnection writes exactly one response per HTTP request it read,     *)
(* whatever the handler did: Session::reply's replied_ flag drops a       *)
(* second reply and doProcessRequest's "No reply" 500 supplies a missing  *)
(* one.  This is OneResponsePerRequest, checked by the http_connection    *)
(* run.                                                                    *)
THEOREM ResponsesMatchRequests == Spec => []OneResponsePerRequest
  <1>1. Init => IInv
    BY IInvInit
  <1>2. IInv /\ [Next]_vars => IInv'
    BY IInvStep
  <1>3. IInv => OneResponsePerRequest
    BY DEF IInv
  <1>4. QED
    BY <1>1, <1>2, <1>3, PTL DEF Spec

(* After a response the loop reads the next request on the same stream    *)
(* exactly when the request asked for keep-alive, and closes it           *)
(* otherwise: SendLambda sets close from need_eof() on every reply path,  *)
(* the "No reply" 500 included.  This is the action property              *)
(* KeepAliveHonoured, checked by the http_connection run.                  *)
THEOREM KeepAliveIsHonoured == Spec => KeepAliveHonoured
  <1>1. Init => IInv
    BY IInvInit
  <1>2. IInv /\ [Next]_vars => IInv'
    BY IInvStep
  <1>3. IInv /\ [Next]_vars =>
          [(phase = "finish" /\ phase' # "finish") => (phase' = "top" <=> req.keepAlive)]_vars
    BY KeepAliveStep
  <1>4. QED
    BY <1>1, <1>2, <1>3, PTL DEF Spec, KeepAliveHonoured

(* The connection implements HttpExchange: doConnection reads a request   *)
(* only when the previous one is answered, each first reply answers the   *)
(* request outstanding, later replies are dropped, and the loop is left   *)
(* only between exchanges.  This is ImplementsExchange, checked by the    *)
(* http_connection run; the mapped initial state is HttpExchange's and     *)
(* every step maps to a Receive, a Respond, a Close or a stutter.         *)
THEOREM ExchangeRefinement == Spec => ImplementsExchange
  <1>1. Init => Exchange!Init
    BY DEF Init, Exchange!Init
  <1>2. Init => IInv
    BY IInvInit
  <1>3. IInv /\ [Next]_vars => IInv'
    BY IInvStep
  <1>4. IInv /\ [Next]_vars => [Exchange!Next]_Exchange!vars
    BY RefinementStep
  <1>5. QED
    BY <1>1, <1>2, <1>3, <1>4, PTL DEF Spec, ImplementsExchange, Exchange!Spec

=============================================================================

--------------------------- MODULE HttpConnection ---------------------------
(***************************************************************************)
(* One accepted connection of the HTTP server (HttpServer.hpp): the loop   *)
(* of Server::doConnection (lines 935-979), the Session built for each     *)
(* request by doProcessRequest (981-992), its dispatch handleRequest       *)
(* (672-702), the reply primitive Session::reply (552-564) behind every    *)
(* reply wrapper, the static fallback replyLocalFile (584-648) and the     *)
(* SendLambda that writes a response and sets the loop's close flag        *)
(* (332-360).                                                              *)
(*                                                                         *)
(* A request is abstracted to the facts dispatch branches on: its verb,    *)
(* whether its target is legal, whether it asks for keep-alive or for a    *)
(* protocol upgrade, whether a registered route matches it (the route      *)
(* registry is the module Router) and what opening its file under the doc *)
(* root gives.  The user handler is any sequence of replies followed by a  *)
(* return or a throw.  A response is its status code.                      *)
(***************************************************************************)
EXTENDS Naturals, Sequences

CONSTANTS
    TimeoutSet,   \* Server::timeout_ > 0 (setTimeout was called)
    MaxRequests,  \* bound on the requests the client sends on the connection
    MaxReplies    \* bound on the reply calls one handler makes

ASSUME ConnAssumption ==
    /\ TimeoutSet \in BOOLEAN
    /\ MaxRequests \in Nat
    /\ MaxReplies \in Nat

Requests ==
    [method : {"get", "head", "unknown"},    \* bh::verb of the request
     target : {"ok", "relative", "dotdot"},  \* "/..", no leading '/', or ".."
     keepAlive : BOOLEAN,
     upgrade : BOOLEAN,                      \* websocket::is_upgrade(req)
     route : BOOLEAN,                        \* registrar->process matches
     file : {"exists", "missing", "error"}]  \* opening docRoot + href

HandlerStatus == {200, 400, 401, 404, 500}

(* Loop and dispatch positions.                                            *)
(*   "top"      head of doConnection's for(;;)                             *)
(*   "reading"  suspended in bh::async_read                                *)
(*   "validate" handleRequest before matching                              *)
(*   "handler"  inside the matched route's handler                         *)
(*   "static"   replyLocalFile                                             *)
(*   "finish"   back in doProcessRequest after handleRequest               *)
(*   "ws"       handed to WebSocketGroupHandler::handle (module WsHub)     *)
(*   "closed"   loop left, send side shut down                             *)
Phases == {"top", "reading", "validate", "handler", "static", "finish", "ws", "closed"}
Serving == {"validate", "handler", "static", "finish"}

VARIABLES
    phase,      \* position of the connection's coroutine
    req,        \* the request being served
    replied,    \* Session::replied_
    nReplies,   \* reply calls the handler has made (bounded)
    wire,       \* statuses written to the socket, in order
    served,     \* requests read and dispatched so far
    close,      \* doConnection's close flag, set by SendLambda
    dupAssert,  \* BOOST_ASSERT_MSG(!replied_, "Duplicate reply") was reached
    handlerRan, \* a handler was entered for the current request
    fsTouched,  \* the current request opened a file
    armed,      \* the tcp_stream has an expiry set (expires_after)
    expired     \* that expiry has passed

vars == <<phase, req, replied, nReplies, wire, served, close, dupAssert,
          handlerRan, fsTouched, armed, expired>>

TypeOK ==
    /\ phase \in Phases
    /\ req \in Requests
    /\ replied \in BOOLEAN
    /\ nReplies \in 0..MaxReplies
    /\ wire \in Seq(HandlerStatus)
    /\ served \in 0..MaxRequests
    /\ close \in BOOLEAN
    /\ dupAssert \in BOOLEAN
    /\ handlerRan \in BOOLEAN
    /\ fsTouched \in BOOLEAN
    /\ armed \in BOOLEAN
    /\ expired \in BOOLEAN

NoRequest ==
    [method |-> "get", target |-> "ok", keepAlive |-> TRUE, upgrade |-> FALSE,
     route |-> FALSE, file |-> "missing"]

Init ==
    /\ phase = "top"
    /\ req = NoRequest
    /\ replied = FALSE
    /\ nReplies = 0
    /\ wire = <<>>
    /\ served = 0
    /\ close = FALSE
    /\ dupAssert = FALSE
    /\ handlerRan = FALSE
    /\ fsTouched = FALSE
    /\ armed = FALSE
    /\ expired = FALSE

(* SendLambda: close is set from need_eof() (the request's keep-alive,     *)
(* copied into the response by every wrapper), then the response written. *)
SendLambda(st) ==
    /\ wire' = Append(wire, st)
    /\ close' = ~req.keepAlive

(* Session::reply: the first call sets replied_ and hands the response to  *)
(* send_; a later call trips the debug assertion and returns.              *)
Reply(st) ==
    IF replied
    THEN /\ dupAssert' = TRUE
         /\ UNCHANGED <<replied, wire, close>>
    ELSE /\ replied' = TRUE
         /\ SendLambda(st)
         /\ UNCHANGED dupAssert

(* Mutant: the expiry is never armed.                                      *)
LoopTopNoTimer ==
    /\ phase = "top"
    /\ phase' = "reading"
    /\ UNCHANGED <<req, replied, nReplies, wire, served, close, dupAssert,
                   handlerRan, fsTouched, armed, expired>>

(* Head of the loop: with a timeout configured, arm the stream's expiry.   *)
LoopTop ==
    /\ phase = "top"
    /\ phase' = "reading"
    /\ IF TimeoutSet
       THEN armed' = TRUE /\ expired' = FALSE
       ELSE UNCHANGED <<armed, expired>>
    /\ UNCHANGED <<req, replied, nReplies, wire, served, close, dupAssert,
                   handlerRan, fsTouched>>

(* The expiry passes (time goes by).                                       *)
TimerExpire ==
    /\ armed
    /\ ~expired
    /\ expired' = TRUE
    /\ UNCHANGED <<phase, req, replied, nReplies, wire, served, close,
                   dupAssert, handlerRan, fsTouched, armed>>

(* async_read yields a request.  An upgrade request leaves the HTTP loop   *)
(* for good; any other gets a fresh Session.                               *)
ReadOk ==
    /\ phase = "reading"
    /\ ~expired
    /\ served < MaxRequests
    /\ \E r \in Requests :
        /\ req' = r
        /\ served' = served + 1
        /\ phase' = IF r.upgrade THEN "ws" ELSE "validate"
    /\ replied' = FALSE
    /\ nReplies' = 0
    /\ handlerRan' = FALSE
    /\ fsTouched' = FALSE
    /\ UNCHANGED <<wire, close, dupAssert, armed, expired>>

(* async_read fails (peer gone, or the expiry passed): the loop is left    *)
(* and the send side shut down; no response is attempted.                  *)
ReadFail ==
    /\ phase = "reading"
    /\ phase' = "closed"
    /\ UNCHANGED <<req, replied, nReplies, wire, served, close, dupAssert,
                   handlerRan, fsTouched, armed, expired>>

(* handleRequest: reject an unknown verb or an illegal target with 400     *)
(* before anything else; otherwise parse the arguments and ask the         *)
(* registrar, falling back to the doc root when no route matches.          *)
Validate ==
    /\ phase = "validate"
    /\ IF req.method = "unknown" \/ req.target # "ok"
       THEN /\ Reply(400)
            /\ phase' = "finish"
       ELSE /\ phase' = IF req.route THEN "handler" ELSE "static"
            /\ UNCHANGED <<replied, wire, close, dupAssert>>
    /\ handlerRan' = (phase' = "handler")
    /\ UNCHANGED <<req, nReplies, served, fsTouched, armed, expired>>

(* The handler calls a reply wrapper.                                      *)
HandlerReply ==
    /\ phase = "handler"
    /\ nReplies < MaxReplies
    /\ nReplies' = nReplies + 1
    /\ \E st \in HandlerStatus : Reply(st)
    /\ UNCHANGED <<phase, req, served, handlerRan, fsTouched, armed, expired>>

(* The handler returns: process returns true.                              *)
HandlerReturn ==
    /\ phase = "handler"
    /\ phase' = "finish"
    /\ UNCHANGED <<req, replied, nReplies, wire, served, close, dupAssert,
                   handlerRan, fsTouched, armed, expired>>

(* Mutant: the 500 of the catch does not copy keep_alive (closes).        *)
HandlerThrowCloses ==
    /\ phase = "handler"
    /\ IF replied
       THEN /\ dupAssert' = TRUE
            /\ UNCHANGED <<replied, wire, close>>
       ELSE /\ replied' = TRUE
            /\ wire' = Append(wire, 500)
            /\ close' = TRUE
            /\ UNCHANGED dupAssert
    /\ phase' = "finish"
    /\ UNCHANGED <<req, nReplies, served, handlerRan, fsTouched, armed, expired>>

(* The handler throws: handleRequest's catch replies 500 with e.what().    *)
HandlerThrow ==
    /\ phase = "handler"
    /\ Reply(500)
    /\ phase' = "finish"
    /\ UNCHANGED <<req, nReplies, served, handlerRan, fsTouched, armed, expired>>

(* replyLocalFile: a missing file is 404, any other open error 500, else   *)
(* the file (or, for HEAD, its headers) with 200.                          *)
StaticReply ==
    /\ phase = "static"
    /\ fsTouched' = TRUE
    /\ Reply(CASE req.file = "missing" -> 404
               [] req.file = "error" -> 500
               [] req.file = "exists" -> 200)
    /\ phase' = "finish"
    /\ UNCHANGED <<req, nReplies, served, handlerRan, armed, expired>>

(* Mutant: no "No reply" fallback.                                        *)
FinishNoFallback ==
    /\ phase = "finish"
    /\ UNCHANGED <<replied, wire, close, dupAssert>>
    /\ phase' = IF close' THEN "closed" ELSE "top"
    /\ UNCHANGED <<req, nReplies, served, handlerRan, fsTouched, armed, expired>>

(* doProcessRequest: a request nobody replied to gets 500 "No reply"; then *)
(* the loop closes if the response asked for it.                           *)
Finish ==
    /\ phase = "finish"
    /\ IF ~replied
       THEN Reply(500)
       ELSE UNCHANGED <<replied, wire, close, dupAssert>>
    /\ phase' = IF close' THEN "closed" ELSE "top"
    /\ UNCHANGED <<req, nReplies, served, handlerRan, fsTouched, armed, expired>>

Next ==
    \/ LoopTop \/ TimerExpire \/ ReadOk \/ ReadFail \/ Validate
    \/ HandlerReply \/ HandlerReturn \/ HandlerThrow \/ StaticReply \/ Finish

(* The coroutine runs whenever it is ready, and time passes.  The client's *)
(* sending (ReadOk) and the handler's choices are not forced.              *)
Fairness ==
    /\ WF_vars(LoopTop) /\ WF_vars(TimerExpire)
    /\ WF_vars(expired /\ ReadFail)
    /\ WF_vars(Validate) /\ WF_vars(StaticReply) /\ WF_vars(Finish)
    /\ WF_vars(HandlerReturn \/ HandlerThrow)

Spec == Init /\ [][Next]_vars
FairSpec == Spec /\ Fairness

-----------------------------------------------------------------------------
(* Properties.                                                             *)

(* Every dispatched request gets exactly one response on the wire, in      *)
(* request order: once a request is finished, the responses written equal  *)
(* the HTTP requests served, whatever the handler did (no reply, several   *)
(* replies, a throw before or after replying).                             *)
OneResponsePerRequest ==
    LET httpServed == served - (IF phase = "ws" THEN 1 ELSE 0)
    IN  IF phase \in Serving /\ ~replied
        THEN Len(wire) = httpServed - 1
        ELSE Len(wire) = httpServed

(* The connection stays open after a response exactly when the request    *)
(* asked for keep-alive, also when the response is the 500 of a throwing   *)
(* handler or of a handler that never replied.                             *)
KeepAliveHonoured ==
    [][(phase = "finish" /\ phase' # "finish") => (phase' = "top" <=> req.keepAlive)]_vars

(* With a timeout configured, no connection stays in the HTTP loop for     *)
(* ever: it is closed or handed to the WebSocket hub.                      *)
ConnectionEnds ==
    TimeoutSet => <>(phase \in {"closed", "ws"})

(* The connection as its client sees it (module HttpExchange): the HTTP   *)
(* requests read, the responses written, and whether the loop still       *)
(* serves HTTP.  An upgrade request is not an HTTP exchange: it hands the *)
(* connection over.                                                        *)
Exchange == INSTANCE HttpExchange
    WITH received <- served - (IF phase = "ws" THEN 1 ELSE 0),
         answered <- Len(wire),
         open <- phase \notin {"closed", "ws"}

(* doConnection alternates requests and responses: it reads a request only *)
(* when the previous one is answered, every response (a handler's, the    *)
(* 400 of validation, a file or the "No reply" 500) answers the request   *)
(* outstanding, and the loop ends only between exchanges, never leaving a *)
(* request read but unanswered.                                            *)
ImplementsExchange == Exchange!Spec

(* Session::reply's assertion: no reply is ever attempted on a session     *)
(* that has already replied.                                               *)
NoDuplicateReply ==
    ~dupAssert

(* The HTTP idle-read deadline is off once the connection belongs to the   *)
(* WebSocket hub, whose frames are timed by the websocket stream.          *)
HttpTimerOffInWs ==
    phase = "ws" => ~armed

=============================================================================

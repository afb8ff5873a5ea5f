------------------------------ MODULE WsClient ------------------------------
(***************************************************************************)
(* The outbound WebSocket client (WebSocketClient.hpp, ws::Client).  The  *)
(* user thread calls open, onMessage, send and close and finally destroys *)
(* the client; send and close spawn doSend and doClose coroutines on the   *)
(* strand, startReceiver starts a short-lived thread that spawns the       *)
(* doReceive coroutine on the strand.  The strand runs one coroutine step  *)
(* at a time, but a coroutine suspended in an async operation leaves the   *)
(* strand to the others, so operations of different coroutines overlap.  *)
(***************************************************************************)
EXTENDS Integers, Sequences, FiniteSets

CONSTANTS
    Readers,   \* identities for the doReceive coroutines that may be spawned
    Ops,       \* identities for the doSend / doClose coroutines
    Handlers,  \* the handlers the user may pass to onMessage: TRUE, or FALSE for nullptr
    Urls       \* the urls the user may pass to open, as sequences of characters

ASSUME WsClientAssumption ==
    /\ IsFiniteSet(Readers) /\ IsFiniteSet(Ops)
    /\ Handlers \subseteq BOOLEAN /\ Handlers # {}
    /\ Urls # {}

-----------------------------------------------------------------------------
(* UrlFromString (40-76) and Url::isValid (33-37).  std::string::substr   *)
(* counts from 0, and a count of npos, or one past the end, runs to the   *)
(* end; size_t arithmetic makes a negative count npos.                     *)

Digits == {"0", "8"}
DigitValue(d) == IF d = "8" THEN 8 ELSE 0

(* The characters of s.                                                   *)
Chars(s) == {s[k] : k \in DOMAIN s}

(* boost::istarts_with(s, p); the model's url characters have one case,    *)
(* so ignoring case changes nothing.                                       *)
StartsWith(p, s) == Len(p) <= Len(s) /\ SubSeq(s, 1, Len(p)) = p

Substr(s, pos, n) ==
    SubSeq(s, pos + 1, IF n < 0 \/ pos + n > Len(s) THEN Len(s) ELSE pos + n)

(* std::string::find_first_of for one character: its 0-based index, or -1. *)
FindFirst(s, ch) ==
    LET I == {k \in 1..Len(s) : s[k] = ch} IN
    IF I = {} THEN -1 ELSE (CHOOSE m \in I : \A k \in I : m <= k) - 1

(* boost::lexical_cast<uint16_t>: all digits, else it throws.  The value *)
(* of the first k digits is val[k].                                        *)
CastPort(s) ==
    LET val[k \in 0..Len(s)] == IF k = 0 THEN 0 ELSE 10 * val[k - 1] + DigitValue(s[k])
    IN  IF s # <<>> /\ \A k \in DOMAIN s : s[k] \in Digits THEN val[Len(s)] ELSE -1

WsPrefix == <<"w", "s", ":", "/", "/">>

UrlFromString(url) ==
    LET temp  == SubSeq(url, 6, Len(url))
        colon == FindFirst(temp, ":")
        slash == FindFirst(temp, "/")
        host  == IF colon # -1 THEN Substr(temp, 0, colon)
                 ELSE Substr(temp, 0, IF slash # -1 THEN slash ELSE -1)
        port  == IF colon # -1
                 THEN CastPort(Substr(temp, colon + 1, IF slash # -1 THEN slash - colon ELSE -1))
                 ELSE 80
        tgt   == IF slash # -1 THEN Substr(temp, slash, -1) ELSE <<"/">>
    IN  IF ~StartsWith(WsPrefix, url)
        THEN [ok |-> FALSE, host |-> <<>>, port |-> 80, target |-> <<"/">>]
        ELSE IF port = -1
        THEN [ok |-> FALSE, host |-> host, port |-> 0, target |-> <<"/">>]
        ELSE [ok |-> host # <<>> /\ port > 0 /\ tgt # <<>>,
              host |-> host, port |-> port, target |-> tgt]

-----------------------------------------------------------------------------
VARIABLES
    stream,      \* wstream_: "init", "open" (is_open()) or "closed"
    lastOpen,    \* the result of the last open: "none", "invalid", "failed", "ok"
    url,         \* the url of the last open
    handler,     \* handler_ # nullptr
    interrupted, \* interrupted_
    rthread,     \* receiveThread_: "none" (nullptr), "running", "finished"
    user,        \* the user thread: "idle", "joining" (in stopReceiver),
                 \* "dtor" (in ~Client's stopReceiver), "gone" (destroyed)
    rd,          \* each doReceive coroutine: "none", "top" (at the loop test), "reading"
    op           \* each doSend / doClose: "none", "send", "close", "writing", "closing", "done"

vars == <<stream, lastOpen, url, handler, interrupted, rthread, user, rd, op>>

TypeOK ==
    /\ stream \in {"init", "open", "closed"}
    /\ lastOpen \in {"none", "invalid", "failed", "ok"}
    /\ url \in Urls \cup {<<>>}
    /\ handler \in BOOLEAN /\ interrupted \in BOOLEAN
    /\ rthread \in {"none", "running", "finished"}
    /\ user \in {"idle", "joining", "dtor", "gone"}
    /\ rd \in [Readers -> {"none", "top", "reading"}]
    /\ op \in [Ops -> {"none", "send", "close", "writing", "closing", "done"}]

(* The constructor starts the workers; nothing is open or running.          *)
Init ==
    /\ stream = "init" /\ lastOpen = "none" /\ url = <<>>
    /\ handler = FALSE /\ interrupted = FALSE /\ rthread = "none"
    /\ user = "idle"
    /\ rd = [r \in Readers |-> "none"]
    /\ op = [o \in Ops |-> "none"]

Idle == user = "idle"
Running == user # "gone"   \* the io_context has not been stopped
IsOpen == stream = "open"

(* open: parse the url, then resolve, connect and handshake synchronously; *)
(* any failure is logged and open returns false.                          *)
Open(u) ==
    /\ Idle /\ stream = "init"
    /\ url' = u
    /\ IF ~UrlFromString(u).ok
       THEN lastOpen' = "invalid" /\ UNCHANGED stream
       ELSE \/ lastOpen' = "failed" /\ UNCHANGED stream
            \/ lastOpen' = "ok" /\ stream' = "open"
    /\ UNCHANGED <<handler, interrupted, rthread, user, rd, op>>

(* Mutant: startReceiver without the "already running" test.               *)
StartNoRunningCheck(h) ==
    /\ Idle
    /\ handler' = h
    /\ IF ~h
       THEN interrupted' = TRUE /\ user' = "joining" /\ UNCHANGED rthread
       ELSE /\ UNCHANGED user
            /\ IF ~IsOpen
               THEN UNCHANGED <<interrupted, rthread>>
               ELSE interrupted' = FALSE /\ rthread' = "running"
    /\ UNCHANGED <<stream, lastOpen, url, rd, op>>

(* onMessage(h): handler_ = h, then stopReceiver if h is null, else        *)
(* startReceiver, which returns early when a receiver thread exists and is *)
(* not interrupted, or the stream is not open, and otherwise clears        *)
(* interrupted_ and starts the thread that spawns doReceive.               *)
OnMessage(h) ==
    /\ Idle
    /\ handler' = h
    /\ IF ~h
       THEN interrupted' = TRUE /\ user' = "joining" /\ UNCHANGED rthread
       ELSE /\ UNCHANGED user
            /\ IF (rthread # "none" /\ ~interrupted) \/ ~IsOpen
               THEN UNCHANGED <<interrupted, rthread>>
               ELSE interrupted' = FALSE /\ rthread' = "running"
    /\ UNCHANGED <<stream, lastOpen, url, rd, op>>

(* stopReceiver's join returns once the spawning thread has run; the      *)
(* pointer is reset.  In ~Client, io_.stop and the workers' join follow:   *)
(* no coroutine runs again.                                               *)
StopJoin ==
    /\ user \in {"joining", "dtor"}
    /\ rthread # "running"
    /\ rthread' = "none"
    /\ user' = IF user = "dtor" THEN "gone" ELSE "idle"
    /\ UNCHANGED <<stream, lastOpen, url, handler, interrupted, rd, op>>

(* ~Client: stopReceiver first.                                            *)
Destroy ==
    /\ Idle
    /\ interrupted' = TRUE /\ user' = "dtor"
    /\ UNCHANGED <<stream, lastOpen, url, handler, rthread, rd, op>>

(* send and close post a coroutine to the strand.                           *)
Send(o) ==
    /\ Idle /\ op[o] = "none"
    /\ op' = [op EXCEPT ![o] = "send"]
    /\ UNCHANGED <<stream, lastOpen, url, handler, interrupted, rthread, user, rd>>

Close(o) ==
    /\ Idle /\ op[o] = "none"
    /\ op' = [op EXCEPT ![o] = "close"]
    /\ UNCHANGED <<stream, lastOpen, url, handler, interrupted, rthread, user, rd>>

-----------------------------------------------------------------------------
(* The coroutines.                                                         *)

(* The receiver thread spawns doReceive and ends.                          *)
Spawn(r) ==
    /\ rthread = "running" /\ rd[r] = "none"
    /\ rd' = [rd EXCEPT ![r] = "top"]
    /\ rthread' = "finished"
    /\ UNCHANGED <<stream, lastOpen, url, handler, interrupted, user, op>>

(* while (!interrupted_): start an async_read, or return.                  *)
LoopTest(r) ==
    /\ Running /\ rd[r] = "top"
    /\ rd' = [rd EXCEPT ![r] = IF interrupted THEN "none" ELSE "reading"]
    /\ UNCHANGED <<stream, lastOpen, url, handler, interrupted, rthread, user, op>>

(* The read delivers a message: handler_ is called if set, and the loop   *)
(* goes round.                                                            *)
ReadOk(r) ==
    /\ Running /\ rd[r] = "reading" /\ IsOpen
    /\ rd' = [rd EXCEPT ![r] = "top"]
    /\ UNCHANGED <<stream, lastOpen, url, handler, interrupted, rthread, user, op>>

(* Mutant: a failed read is logged and the loop goes on.                   *)
ReadFailContinue(r) ==
    /\ Running /\ rd[r] = "reading"
    /\ rd' = [rd EXCEPT ![r] = "top"]
    /\ stream' = "closed"
    /\ UNCHANGED <<lastOpen, url, handler, interrupted, rthread, user, op>>

(* The read fails (the peer went away, or the stream was closed): it is    *)
(* logged and doReceive returns; the stream is no longer open.            *)
ReadFail(r) ==
    /\ Running /\ rd[r] = "reading"
    /\ rd' = [rd EXCEPT ![r] = "none"]
    /\ stream' = "closed"
    /\ UNCHANGED <<lastOpen, url, handler, interrupted, rthread, user, op>>

(* doSend / doClose on the strand: return if the stream is not open, else *)
(* start async_write / async_close.                                        *)
OpStart(o) ==
    /\ Running /\ op[o] \in {"send", "close"}
    /\ op' = [op EXCEPT ![o] =
                IF ~IsOpen THEN "done"
                ELSE IF op[o] = "send" THEN "writing" ELSE "closing"]
    /\ UNCHANGED <<stream, lastOpen, url, handler, interrupted, rthread, user, rd>>

(* async_write completes, with or without an error (logged).               *)
WriteDone(o) ==
    /\ Running /\ op[o] = "writing"
    /\ op' = [op EXCEPT ![o] = "done"]
    /\ UNCHANGED <<stream, lastOpen, url, handler, interrupted, rthread, user, rd>>

(* async_close completes: the stream is closed.                            *)
CloseDone(o) ==
    /\ Running /\ op[o] = "closing"
    /\ op' = [op EXCEPT ![o] = "done"]
    /\ stream' = "closed"
    /\ UNCHANGED <<lastOpen, url, handler, interrupted, rthread, user, rd>>

Next ==
    \/ \E u \in Urls : Open(u)
    \/ \E h \in Handlers : OnMessage(h)
    \/ StopJoin \/ Destroy
    \/ \E o \in Ops : Send(o) \/ Close(o) \/ OpStart(o) \/ WriteDone(o) \/ CloseDone(o)
    \/ \E r \in Readers : Spawn(r) \/ LoopTest(r) \/ ReadOk(r) \/ ReadFail(r)

(* The spawning thread runs, the strand runs a ready coroutine, and a read *)
(* on a closed stream completes (with an error).  Nothing is assumed of    *)
(* the peer or of the user.                                                *)
Fairness ==
    /\ \A r \in Readers :
        /\ WF_vars(Spawn(r)) /\ WF_vars(LoopTest(r))
        /\ WF_vars(~IsOpen /\ ReadFail(r))
    /\ WF_vars(StopJoin)
    /\ \A o \in Ops : WF_vars(OpStart(o)) /\ WF_vars(CloseDone(o))

Spec == Init /\ [][Next]_vars
FairSpec == Spec /\ Fairness

-----------------------------------------------------------------------------
(* Properties.                                                             *)

(* At most one async_read is outstanding on the stream at a time, as Beast *)
(* requires: startReceiver's "already running" test is meant to keep a    *)
(* second doReceive from starting.  After onMessage(nullptr) it does not  *)
(* (MCWsClient_AtMostOneReader.cfg).                                       *)
AtMostOneReader ==
    Cardinality({r \in Readers : rd[r] = "reading"}) <= 1

(* At most one write-side operation (async_write or async_close) is       *)
(* outstanding on the stream at a time, as Beast requires.                *)
AtMostOneWriter ==
    Cardinality({o \in Ops : op[o] \in {"writing", "closing"}}) <= 1

(* Once the stream is closed, every doReceive coroutine returns (unless   *)
(* the client is destroyed first): a failed read ends the receive loop.   *)
ReceiverEndsAfterClose ==
    stream = "closed" ~> (user = "gone" \/ \A r \in Readers : rd[r] = "none")

(* A url open rejects as invalid is malformed: "ws://", a host, optionally *)
(* ":" and a port, optionally a path.                                     *)
WellFormed(u) ==
    /\ StartsWith(WsPrefix, u)
    /\ LET rest == SubSeq(u, 6, Len(u)) IN
       \E a, b \in 0..Len(rest) :
         LET h == SubSeq(rest, 1, a)
             p == SubSeq(rest, a + 1, b)
             t == SubSeq(rest, b + 1, Len(rest))
         IN
         /\ a <= b
         /\ h # <<>> /\ Chars(h) \cap {":", "/"} = {}
         /\ \/ p = <<>>
            \/ p[1] = ":" /\ Len(p) > 1 /\ Chars(Tail(p)) \subseteq Digits
               /\ CastPort(Tail(p)) > 0
         /\ t = <<>> \/ t[1] = "/"
OpenRejectsOnlyMalformed ==
    lastOpen = "invalid" => ~WellFormed(url)

=============================================================================

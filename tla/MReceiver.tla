----------------------------- MODULE MReceiver -----------------------------
(***************************************************************************)
(* The multicast UDP receiver (MulticastReceiver.hpp).  A user thread     *)
(* configures it, starts it and stops it (the destructor stops it too);   *)
(* start opens, binds and joins the socket, starts a worker thread running *)
(* io_.run and posts the first async_receive_from; each completion runs    *)
(* on the worker, calls the handler and posts the next receive.  A work   *)
(* guard keeps io_.run from returning for lack of work until stop.        *)
(* The settings (destination address, port, local address) are one flag: *)
(* valid or not.                                                          *)
(***************************************************************************)
EXTENDS Naturals

VARIABLES
    handler,   \* handler_ # nullptr
    dest,      \* destIp_ non-empty and port_ > 0
    sock,      \* socket_: "closed" or "open" (is_open())
    ioStopped, \* io_.stopped(); isRunning() is its negation
    worker,    \* worker_: "none" (not joinable), "running" (in io_.run), "done"
    rx,        \* the receive chain: "none", "pending" (a receive posted), "handling"
    user,      \* the user thread: "idle", "stopping" (joining the worker in stop),
               \* "dtor" (the same in ~MulticastReceiver), "gone" (destroyed)
    lastStart  \* the result of the last start: "none", "invalid", "duplicate", "failed", "ok"

vars == <<handler, dest, sock, ioStopped, worker, rx, user, lastStart>>

TypeOK ==
    /\ handler \in BOOLEAN /\ dest \in BOOLEAN
    /\ sock \in {"closed", "open"} /\ ioStopped \in BOOLEAN
    /\ worker \in {"none", "running", "done"}
    /\ rx \in {"none", "pending", "handling"}
    /\ user \in {"idle", "stopping", "dtor", "gone"}
    /\ lastStart \in {"none", "invalid", "duplicate", "failed", "ok"}

(* Constructed with or without a handler and settings.                     *)
Init ==
    /\ handler \in BOOLEAN /\ dest \in BOOLEAN
    /\ sock = "closed" /\ ioStopped = FALSE /\ worker = "none"
    /\ rx = "none" /\ user = "idle" /\ lastStart = "none"

(* setMessageHandler, and setDestIp / setPort / setLocalIp.                *)
SetHandler(h) ==
    /\ user = "idle"
    /\ handler' = h
    /\ UNCHANGED <<dest, sock, ioStopped, worker, rx, user, lastStart>>

SetDest(d) ==
    /\ user = "idle"
    /\ dest' = d
    /\ UNCHANGED <<handler, sock, ioStopped, worker, rx, user, lastStart>>

(* start: refuse a null handler or bad settings, then an open socket;     *)
(* socket_.open may throw (socket still closed), and set_option, bind or  *)
(* join_group may throw after it (socket left open): false either way.    *)
(* Otherwise the worker runs io_.run and the first receive is posted.     *)
Start ==
    /\ user = "idle"
    /\ \/ /\ ~handler \/ ~dest
          /\ lastStart' = "invalid"
          /\ UNCHANGED <<sock, worker, rx>>
       \/ /\ handler /\ dest /\ sock = "open"
          /\ lastStart' = "duplicate"
          /\ UNCHANGED <<sock, worker, rx>>
       \/ /\ handler /\ dest /\ sock = "closed"
          /\ sock' \in {"closed", "open"}
          /\ lastStart' = "failed"
          /\ UNCHANGED <<worker, rx>>
       \/ /\ handler /\ dest /\ sock = "closed"
          /\ sock' = "open" /\ worker' = "running" /\ rx' = "pending"
          /\ lastStart' = "ok"
    /\ UNCHANGED <<handler, dest, ioStopped, user>>

(* A datagram arrives: the handler runs if one is set, and only then is   *)
(* the next receive posted.                                               *)
ReceiveOk ==
    /\ worker = "running" /\ ~ioStopped /\ rx = "pending"
    /\ rx' = IF handler THEN "handling" ELSE "none"
    /\ UNCHANGED <<handler, dest, sock, ioStopped, worker, user, lastStart>>

(* The receive fails: the error is logged and no receive is posted again. *)
ReceiveErr ==
    /\ worker = "running" /\ ~ioStopped /\ rx = "pending"
    /\ rx' = "none"
    /\ UNCHANGED <<handler, dest, sock, ioStopped, worker, user, lastStart>>

(* The handler returns and doReceive posts the next receive.               *)
HandlerDone ==
    /\ rx = "handling"
    /\ rx' = "pending"
    /\ UNCHANGED <<handler, dest, sock, ioStopped, worker, user, lastStart>>

(* io_.run returns once the context is stopped and the running handler    *)
(* has returned.                                                          *)
WorkerExit ==
    /\ worker = "running" /\ ioStopped /\ rx # "handling"
    /\ worker' = "done"
    /\ UNCHANGED <<handler, dest, sock, ioStopped, rx, user, lastStart>>

(* Mutant: stop resets the guard but does not stop the io_context.         *)
StopBeginNoIoStop ==
    /\ user = "idle" /\ ~ioStopped
    /\ user' = "stopping"
    /\ UNCHANGED <<handler, dest, sock, ioStopped, worker, rx, lastStart>>

(* stop (and ~MulticastReceiver): nothing to do unless isRunning();        *)
(* otherwise reset the guard and stop io_, then join the worker.           *)
StopBegin ==
    /\ user = "idle" /\ ~ioStopped
    /\ ioStopped' = TRUE
    /\ user' = "stopping"
    /\ UNCHANGED <<handler, dest, sock, worker, rx, lastStart>>

(* Mutant: stop returns without joining the worker.                        *)
StopJoinNoWait ==
    /\ user \in {"stopping", "dtor"}
    /\ user' = IF user = "dtor" THEN "gone" ELSE "idle"
    /\ UNCHANGED <<handler, dest, sock, ioStopped, worker, rx, lastStart>>

StopJoin ==
    /\ user \in {"stopping", "dtor"} /\ worker # "running"
    /\ worker' = "none"
    /\ user' = IF user = "dtor" THEN "gone" ELSE "idle"
    /\ UNCHANGED <<handler, dest, sock, ioStopped, rx, lastStart>>

(* ~MulticastReceiver: stop, then the members are destroyed.               *)
Destroy ==
    /\ user = "idle"
    /\ ioStopped' = TRUE
    /\ user' = IF ioStopped THEN "gone" ELSE "dtor"
    /\ UNCHANGED <<handler, dest, sock, worker, rx, lastStart>>

Next ==
    \/ \E h \in BOOLEAN : SetHandler(h)
    \/ \E d \in BOOLEAN : SetDest(d)
    \/ Start \/ ReceiveOk \/ ReceiveErr \/ HandlerDone \/ WorkerExit
    \/ StopBegin \/ StopJoin \/ Destroy

(* The worker finishes a handler it runs and leaves io_.run when the      *)
(* context is stopped; join then returns.  Datagrams get no fairness.      *)
Fairness ==
    WF_vars(HandlerDone) /\ WF_vars(WorkerExit) /\ WF_vars(StopJoin)

Spec == Init /\ [][Next]_vars
FairSpec == Spec /\ Fairness

-----------------------------------------------------------------------------
(* Properties.                                                             *)

(* Once stop has returned, no handler runs: stop waits for the worker, so  *)
(* the handler's captured state may be released after it.                 *)
StopQuiescent ==
    (user \in {"idle", "gone"} /\ ioStopped) => rx # "handling"

(* stop, and the destructor, return: the worker leaves io_.run once the   *)
(* context is stopped.                                                    *)
StopReturns ==
    user \in {"stopping", "dtor"} ~> user \in {"idle", "gone"}

Receiving == rx \in {"pending", "handling"}

(* While the receiver reports isRunning() with its socket open, datagrams *)
(* are being received: a receive is posted or its handler is running.     *)
ReceiverNotSilentlyDead ==
    (~ioStopped /\ sock = "open") => Receiving

(* start refuses a "Duplicate socket open" only while the receiver is     *)
(* running: after stop it can be started again.                           *)
StartRefusedOnlyWhileRunning ==
    lastStart = "duplicate" => ~ioStopped

=============================================================================

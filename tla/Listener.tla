------------------------------ MODULE Listener ------------------------------
(***************************************************************************)
(* The server's life cycle (HttpServer.hpp, class Server): listen runs     *)
(* the io_context on threadCount threads and blocks until they return      *)
(* (826-848); the doListen coroutine opens, binds and listens, then        *)
(* accepts for ever (887-932); each accepted socket gets a doConnection    *)
(* coroutine; stop resets registrar_ and stops the io_context (850-857),   *)
(* and the destructor calls stop again.                                    *)
(*                                                                         *)
(* A connection is abstracted to the spans that matter for stop: waiting   *)
(* in async_read, the synchronous span from a read's completion through    *)
(* doProcessRequest into registrar->process and the handler, and waiting   *)
(* in the response's async_write.  A synchronous span occupies one io      *)
(* thread until it reaches its next await; io_context::stop does not      *)
(* interrupt it, it only keeps suspended coroutines from resuming.         *)
(***************************************************************************)
EXTENDS Naturals, FiniteSets

CONSTANTS
    Conns,           \* the sockets the acceptor may accept
    Threads,         \* Server::threadCount_
    MaxAcceptErrors  \* bound on the failed accepts explored

ASSUME ListenerAssumption ==
    /\ IsFiniteSet(Conns)
    /\ Threads \in Nat \ {0}
    /\ MaxAcceptErrors \in Nat

ConnStates == {"none", "reading", "dispatch", "process", "writing", "done"}

VARIABLES
    lst,        \* doListen: "idle" (listen not called), "setup", "accepting", "dead"
    running,    \* listen() is blocked joining the io threads
    returned,   \* listen() has returned
    ioStopped,  \* io_.stopped()
    stopPc,     \* the thread calling stop(): "none", "reset" (registrar_ reset), "done"
    registrar,  \* registrar_: "live", or "reset" (the registry destroyed)
    conn,       \* position of each connection's coroutine
    acceptErrs, \* failed accepts so far
    fault       \* a request used registrar_ after it was reset

vars == <<lst, running, returned, ioStopped, stopPc, registrar, conn,
          acceptErrs, fault>>

TypeOK ==
    /\ lst \in {"idle", "setup", "accepting", "dead"}
    /\ running \in BOOLEAN /\ returned \in BOOLEAN
    /\ ioStopped \in BOOLEAN
    /\ stopPc \in {"none", "reset", "done"}
    /\ registrar \in {"live", "reset"}
    /\ conn \in [Conns -> ConnStates]
    /\ acceptErrs \in 0..MaxAcceptErrors
    /\ fault \in BOOLEAN

(* Connections running synchronous code on an io thread.                   *)
Busy == {c \in Conns : conn[c] \in {"dispatch", "process"}}

(* The Server constructor makes the registry (and registers "/$apis").    *)
Init ==
    /\ lst = "idle"
    /\ running = FALSE /\ returned = FALSE
    /\ ioStopped = FALSE /\ stopPc = "none"
    /\ registrar = "live"
    /\ conn = [c \in Conns |-> "none"]
    /\ acceptErrs = 0
    /\ fault = FALSE

(* listen: spawn doListen and start the io threads, then join them.        *)
Listen ==
    /\ lst = "idle" /\ ~running /\ ~returned
    /\ lst' = "setup"
    /\ running' = TRUE
    /\ UNCHANGED <<returned, ioStopped, stopPc, registrar, conn, acceptErrs, fault>>

(* doListen's synchronous prologue: open, set_option, bind and listen; any *)
(* error is logged and the coroutine returns.                              *)
Setup ==
    /\ lst = "setup" /\ ~ioStopped
    /\ lst' \in {"accepting", "dead"}
    /\ UNCHANGED <<running, returned, ioStopped, stopPc, registrar, conn, acceptErrs, fault>>

(* async_accept succeeds: a doConnection coroutine is spawned.             *)
AcceptOk(c) ==
    /\ lst = "accepting" /\ ~ioStopped
    /\ conn[c] = "none"
    /\ conn' = [conn EXCEPT ![c] = "reading"]
    /\ UNCHANGED <<lst, running, returned, ioStopped, stopPc, registrar, acceptErrs, fault>>

(* async_accept fails: logged, and the loop accepts again at once.         *)
AcceptErr ==
    /\ lst = "accepting" /\ ~ioStopped
    /\ acceptErrs < MaxAcceptErrors
    /\ acceptErrs' = acceptErrs + 1
    /\ UNCHANGED <<lst, running, returned, ioStopped, stopPc, registrar, conn, fault>>

(* async_read completes with a request: the coroutine resumes on a free    *)
(* io thread and calls doProcessRequest.                                   *)
ReadRequest(c) ==
    /\ conn[c] = "reading" /\ ~ioStopped
    /\ Cardinality(Busy) < Threads
    /\ conn' = [conn EXCEPT ![c] = "dispatch"]
    /\ UNCHANGED <<lst, running, returned, ioStopped, stopPc, registrar, acceptErrs, fault>>

(* async_read fails (peer gone, timeout): the loop is left.                *)
ReadEnd(c) ==
    /\ conn[c] = "reading" /\ ~ioStopped
    /\ conn' = [conn EXCEPT ![c] = "done"]
    /\ UNCHANGED <<lst, running, returned, ioStopped, stopPc, registrar, acceptErrs, fault>>

(* doProcessRequest calls s->handleRequest(registrar_), which calls        *)
(* registrar->process through the reference to the member: a reset        *)
(* registrar_ is a null dereference.                                       *)
Dispatch(c) ==
    /\ conn[c] = "dispatch"
    /\ IF registrar = "reset"
       THEN fault' = TRUE /\ conn' = [conn EXCEPT ![c] = "done"]
       ELSE conn' = [conn EXCEPT ![c] = "process"] /\ UNCHANGED fault
    /\ UNCHANGED <<lst, running, returned, ioStopped, stopPc, registrar, acceptErrs>>

(* process walks hooks_ and runs the handler up to the reply's write.  No  *)
(* shared_ptr copy keeps the registry alive: if stop reset registrar_      *)
(* meanwhile, the registry was destroyed under it.                         *)
ProcessEnd(c) ==
    /\ conn[c] = "process"
    /\ fault' = (fault \/ registrar = "reset")
    /\ conn' = [conn EXCEPT ![c] = "writing"]
    /\ UNCHANGED <<lst, running, returned, ioStopped, stopPc, registrar, acceptErrs>>

(* The response's async_write completes: read the next request, or close. *)
WriteDone(c) ==
    /\ conn[c] = "writing" /\ ~ioStopped
    /\ conn' \in {[conn EXCEPT ![c] = "reading"], [conn EXCEPT ![c] = "done"]}
    /\ UNCHANGED <<lst, running, returned, ioStopped, stopPc, registrar, acceptErrs, fault>>

(* stop, called from a thread other than the io threads (or from          *)
(* ~Server): first registrar_.reset() ...                                  *)
StopReset ==
    /\ stopPc = "none"
    /\ stopPc' = "reset"
    /\ registrar' = "reset"
    /\ UNCHANGED <<lst, running, returned, ioStopped, conn, acceptErrs, fault>>

(* Mutant: stop returns without stopping the io_context.                   *)
StopIoSkipped ==
    /\ stopPc = "reset"
    /\ stopPc' = "done"
    /\ UNCHANGED <<lst, running, returned, ioStopped, registrar, conn, acceptErrs, fault>>

(* ... then io_.stop() unless io_.stopped().  A later call of stop (the    *)
(* destructor's) changes nothing more.                                     *)
StopIo ==
    /\ stopPc = "reset"
    /\ stopPc' = "done"
    /\ ioStopped' = TRUE
    /\ UNCHANGED <<lst, running, returned, registrar, conn, acceptErrs, fault>>

(* No coroutine will ever resume: every live coroutine waits on an I/O the *)
(* stopped io_context will not complete, or none is left.                  *)
OutOfWork ==
    /\ lst \in {"idle", "dead"}
    /\ \A c \in Conns : conn[c] \in {"none", "done"}

(* io_.run returns on every thread once the context is stopped (or out of  *)
(* work) and the thread's current handler has returned; listen's joins     *)
(* then return.                                                            *)
ListenReturn ==
    /\ running
    /\ ioStopped \/ OutOfWork
    /\ Busy = {}
    /\ running' = FALSE /\ returned' = TRUE
    /\ UNCHANGED <<lst, ioStopped, stopPc, registrar, conn, acceptErrs, fault>>

Next ==
    \/ Listen \/ Setup \/ AcceptErr \/ StopReset \/ StopIo \/ ListenReturn
    \/ \E c \in Conns :
        \/ AcceptOk(c) \/ ReadRequest(c) \/ ReadEnd(c) \/ Dispatch(c)
        \/ ProcessEnd(c) \/ WriteDone(c)

(* A thread running synchronous code finishes it (the stop caller         *)
(* included), and the io threads exit run and are joined when nothing can  *)
(* resume.  Reads, accepts and writes depend on peers and get no fairness.*)
Fairness ==
    /\ WF_vars(Setup) /\ WF_vars(StopIo) /\ WF_vars(ListenReturn)
    /\ \A c \in Conns : WF_vars(Dispatch(c)) /\ WF_vars(ProcessEnd(c))

Spec == Init /\ [][Next]_vars
FairSpec == Spec /\ Fairness

-----------------------------------------------------------------------------
(* Properties.                                                             *)

(* Once stop has been called while the server is listening, listen()      *)
(* returns: every thread's in-flight synchronous work ends and the accept  *)
(* loop and the connections stop being resumed.                            *)
ListenReturnsAfterStop ==
    (running /\ stopPc # "none") ~> returned

(* No request reaches a registry that stop has reset: neither the null     *)
(* registrar_ in doProcessRequest nor a registry destroyed during process. *)
NoDanglingRegistrar ==
    ~fault

=============================================================================

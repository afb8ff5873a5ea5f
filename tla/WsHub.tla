------------------------------- MODULE WsHub -------------------------------
(***************************************************************************)
(* The WebSocket group hub of the HTTP server (HttpServer.hpp, class       *)
(* WebSocketGroupHandler, lines 365-489, entered from Server::doConnection *)
(* line 962-964 and torn down by Server::stop and the hub's destructor).   *)
(*                                                                         *)
(* Every upgraded connection runs WebSocketGroupHandler::handle as a       *)
(* stackful coroutine on the server's io_context.  It suspends only at     *)
(* async_accept, async_read and async_write; everything between two such   *)
(* awaits is one atomic step here.  The lock_guard sections of join and    *)
(* multicastMessage hold no await, so they are atomic steps too.           *)
(*                                                                         *)
(* Data is abstracted: a group is a lower-cased request target, a frame    *)
(* is "data" (a frame read from the peer) or "empty" (the untouched        *)
(* buffer of a failed read).  The text/binary flag copied by line 468 is   *)
(* not modelled.                                                           *)
(***************************************************************************)
EXTENDS Naturals, FiniteSets

CONSTANTS
    Conns,      \* the accepted TCP connections (model values)
    Groups,     \* the lower-cased request targets they may upgrade on
    MaxFrames   \* bound on the frames one peer sends

ASSUME HubAssumption ==
    /\ IsFiniteSet(Conns)
    /\ Groups # {}
    /\ MaxFrames \in Nat

(* Coroutine states of one connection.                                     *)
(*   "http"      still in Server::doConnection, not upgraded               *)
(*   "handshake" suspended in wstream->async_accept (line 393)             *)
(*   "loop"      at the top of the for(;;) of handle (line 404)            *)
(*   "reading"   suspended in wstream->async_read (line 411)               *)
(*   "mcast"     walking its snapshot in multicastMessage (line 457)       *)
(*   "writing"   suspended in c->async_write to a peer (line 469)          *)
(*   "done"      handle has returned                                       *)
PcStates == {"http", "handshake", "loop", "reading", "mcast", "writing", "done"}
Active == {"loop", "reading", "mcast", "writing"}
Frames == {"data", "empty"}

VARIABLES
    pc,       \* [Conns -> PcStates]
    grp,      \* the group (lower-cased target) a connection upgraded on
    open,     \* ws_stream::is_open() of the connection's stream
    clients,  \* WebSocketGroupHandler::clients_ : group -> set of streams
    known,    \* the keys present in clients_ (clients_.count(group) # 0)
    snap,     \* the part of the snapshot `clients` not yet walked
    closedL,  \* the local list `closed` of multicastMessage
    cur,      \* the peer an in-flight async_write goes to
    buf,      \* the frame in the coroutine's flat_buffer
    frames,   \* frames read so far (bounded by MaxFrames)
    got,      \* the kinds of frame each stream has been sent
    stopped   \* Server::stop ran and the hub was destroyed

vars == <<pc, grp, open, clients, known, snap, closedL, cur, buf, frames, got, stopped>>

TypeOK ==
    /\ pc \in [Conns -> PcStates]
    /\ grp \in [Conns -> Groups]
    /\ open \in [Conns -> BOOLEAN]
    /\ clients \in [Groups -> SUBSET Conns]
    /\ known \subseteq Groups
    /\ snap \in [Conns -> SUBSET Conns]
    /\ closedL \in [Conns -> SUBSET Conns]
    /\ cur \in [Conns -> Conns]
    /\ buf \in [Conns -> Frames]
    /\ frames \in [Conns -> 0..MaxFrames]
    /\ got \in [Conns -> SUBSET Frames]
    /\ stopped \in BOOLEAN

Init ==
    /\ pc = [c \in Conns |-> "http"]
    /\ grp = [c \in Conns |-> CHOOSE g \in Groups : TRUE]
    /\ open = [c \in Conns |-> TRUE]
    /\ clients = [g \in Groups |-> {}]
    /\ known = {}
    /\ snap = [c \in Conns |-> {}]
    /\ closedL = [c \in Conns |-> {}]
    /\ cur = [c \in Conns |-> c]
    /\ buf = [c \in Conns |-> "data"]
    /\ frames = [c \in Conns |-> 0]
    /\ got = [c \in Conns |-> {}]
    /\ stopped = FALSE

(* doConnection: websocket::is_upgrade(req) hands the stream to handle,    *)
(* which wraps it in a ws_stream; the group is the lower-cased target.     *)
Upgrade(c) ==
    /\ ~stopped
    /\ pc[c] = "http"
    /\ \E g \in Groups : grp' = [grp EXCEPT ![c] = g]
    /\ pc' = [pc EXCEPT ![c] = "handshake"]
    /\ UNCHANGED <<open, clients, known, snap, closedL, cur, buf, frames, got, stopped>>

(* async_accept completes.  On success the coroutine joins its group under *)
(* the hub's mutex (join, lines 423-431) before its next await; on failure *)
(* handle returns and the ws_stream is released.                           *)
AcceptOk(c) ==
    /\ ~stopped
    /\ pc[c] = "handshake"
    /\ clients' = [clients EXCEPT ![grp[c]] = @ \cup {c}]
    /\ known' = known \cup {grp[c]}
    /\ pc' = [pc EXCEPT ![c] = "loop"]
    /\ UNCHANGED <<grp, open, snap, closedL, cur, buf, frames, got, stopped>>

AcceptFail(c) ==
    /\ ~stopped
    /\ pc[c] = "handshake"
    /\ open' = [open EXCEPT ![c] = FALSE]
    /\ pc' = [pc EXCEPT ![c] = "done"]
    /\ UNCHANGED <<grp, clients, known, snap, closedL, cur, buf, frames, got, stopped>>

(* Mutant: the loop does not test is_open before reading again.           *)
LoopTopNoOpenCheck(c) ==
    /\ ~stopped
    /\ pc[c] = "loop"
    /\ pc' = [pc EXCEPT ![c] = "reading"]
    /\ UNCHANGED <<grp, open, clients, known, snap, closedL, cur, buf, frames, got, stopped>>

(* Top of the read loop: return when the stream is no longer open.         *)
LoopTop(c) ==
    /\ ~stopped
    /\ pc[c] = "loop"
    /\ pc' = [pc EXCEPT ![c] = IF open[c] THEN "reading" ELSE "done"]
    /\ UNCHANGED <<grp, open, clients, known, snap, closedL, cur, buf, frames, got, stopped>>

(* multicastMessage up to its first await: a group never joined is a       *)
(* no-op; otherwise the member set is copied under the mutex.              *)
StartMulticast(c) ==
    IF grp[c] \notin known
    THEN /\ pc' = [pc EXCEPT ![c] = "loop"]
         /\ UNCHANGED <<snap, closedL>>
    ELSE /\ snap' = [snap EXCEPT ![c] = clients[grp[c]]]
         /\ closedL' = [closedL EXCEPT ![c] = {}]
         /\ pc' = [pc EXCEPT ![c] = "mcast"]

(* async_read completes with a frame; it is multicast to the group.        *)
ReadFrame(c) ==
    /\ ~stopped
    /\ pc[c] = "reading"
    /\ open[c]
    /\ frames[c] < MaxFrames
    /\ frames' = [frames EXCEPT ![c] = @ + 1]
    /\ buf' = [buf EXCEPT ![c] = "data"]
    /\ StartMulticast(c)
    /\ UNCHANGED <<grp, open, clients, known, cur, got, stopped>>

(* async_read completes with websocket::error::closed (the peer's close    *)
(* frame): handle returns (lines 412-416).                                 *)
ReadClosed(c) ==
    /\ ~stopped
    /\ pc[c] = "reading"
    /\ open[c]
    /\ open' = [open EXCEPT ![c] = FALSE]
    /\ pc' = [pc EXCEPT ![c] = "done"]
    /\ UNCHANGED <<grp, clients, known, snap, closedL, cur, buf, frames, got, stopped>>

(* async_read fails with any other error (eof, reset, timeout, or the      *)
(* stream already failed): the stream is no longer open, but line 412 only *)
(* tests for error::closed, so the untouched buffer is multicast.          *)
ReadFail(c) ==
    /\ ~stopped
    /\ pc[c] = "reading"
    /\ open' = [open EXCEPT ![c] = FALSE]
    /\ buf' = [buf EXCEPT ![c] = "empty"]
    /\ StartMulticast(c)
    /\ UNCHANGED <<grp, clients, known, cur, frames, got, stopped>>

(* Mutant: the walk's is_open test negated (every peer queued as closed). *)
McVisitInverted(c) ==
    /\ ~stopped
    /\ pc[c] = "mcast"
    /\ \E d \in snap[c] :
        /\ snap' = [snap EXCEPT ![c] = @ \ {d}]
        /\ \/ /\ d = c
              /\ UNCHANGED <<pc, closedL, cur>>
           \/ /\ d # c
              /\ closedL' = [closedL EXCEPT ![c] = @ \cup {d}]
              /\ UNCHANGED <<pc, cur>>
    /\ UNCHANGED <<grp, open, clients, known, buf, frames, got, stopped>>

(* One iteration of the snapshot walk, in the set's (address) order:       *)
(* skip the sender, queue a closed peer for pruning, else start a write.   *)
McVisit(c) ==
    /\ ~stopped
    /\ pc[c] = "mcast"
    /\ \E d \in snap[c] :
        /\ snap' = [snap EXCEPT ![c] = @ \ {d}]
        /\ \/ /\ d = c
              /\ UNCHANGED <<pc, closedL, cur>>
           \/ /\ d # c
              /\ ~open[d]
              /\ closedL' = [closedL EXCEPT ![c] = @ \cup {d}]
              /\ UNCHANGED <<pc, cur>>
           \/ /\ d # c
              /\ open[d]
              /\ cur' = [cur EXCEPT ![c] = d]
              /\ pc' = [pc EXCEPT ![c] = "writing"]
              /\ UNCHANGED closedL
    /\ UNCHANGED <<grp, open, clients, known, buf, frames, got, stopped>>

(* The walk is over (or was broken off): erase the peers found closed from *)
(* the canonical member set under the mutex (lines 477-483).               *)
McPrune(c) ==
    /\ ~stopped
    /\ pc[c] = "mcast"
    /\ snap[c] = {}
    /\ clients' = [clients EXCEPT ![grp[c]] = @ \ closedL[c]]
    /\ pc' = [pc EXCEPT ![c] = "loop"]
    \* the locals `closed` and the loop's buffer go out of scope
    /\ closedL' = [closedL EXCEPT ![c] = {}]
    /\ buf' = [buf EXCEPT ![c] = "data"]
    /\ UNCHANGED <<grp, open, known, snap, cur, frames, got, stopped>>

(* async_write to the peer completes.                                      *)
WriteOk(c) ==
    /\ ~stopped
    /\ pc[c] = "writing"
    /\ open[cur[c]]
    /\ got' = [got EXCEPT ![cur[c]] = @ \cup {buf[c]}]
    /\ pc' = [pc EXCEPT ![c] = "mcast"]
    /\ cur' = [cur EXCEPT ![c] = c]
    /\ UNCHANGED <<grp, open, clients, known, snap, closedL, buf, frames, stopped>>

(* async_write fails: the peer's stream fails, and the round is broken off *)
(* (line 470-474): no later peer of the snapshot is written to.            *)
WriteFail(c) ==
    /\ ~stopped
    /\ pc[c] = "writing"
    /\ open' = [open EXCEPT ![cur[c]] = FALSE]
    /\ snap' = [snap EXCEPT ![c] = {}]
    /\ pc' = [pc EXCEPT ![c] = "mcast"]
    /\ cur' = [cur EXCEPT ![c] = c]
    /\ UNCHANGED <<grp, clients, known, closedL, buf, frames, got, stopped>>

(* Server::stop stops the io_context (no coroutine resumes again) and the  *)
(* hub's destructor closes every stream it still tracks.                   *)
Shutdown ==
    /\ ~stopped
    /\ stopped' = TRUE
    /\ open' = [c \in Conns |->
                  IF \E g \in Groups : c \in clients[g] THEN FALSE ELSE open[c]]
    /\ UNCHANGED <<pc, grp, clients, known, snap, closedL, cur, buf, frames, got>>

Next ==
    \/ Shutdown
    \/ \E c \in Conns :
        \/ Upgrade(c) \/ AcceptOk(c) \/ AcceptFail(c) \/ LoopTop(c)
        \/ ReadFrame(c) \/ ReadClosed(c) \/ ReadFail(c)
        \/ McVisit(c) \/ McPrune(c) \/ WriteOk(c) \/ WriteFail(c)

(* The io_context resumes every ready coroutine; an operation on a stream  *)
(* that is no longer open completes at once, and an in-flight write ends   *)
(* by success or by the ws stream's idle timeout (timeout::suggested,      *)
(* line 387).  No fairness for the peer's behaviour: ReadFrame,            *)
(* ReadClosed and an open stream's ReadFail are the client's choice.       *)
Fairness ==
    \A c \in Conns :
        /\ WF_vars(LoopTop(c))
        /\ WF_vars(McVisit(c))
        /\ WF_vars(McPrune(c))
        /\ WF_vars(WriteOk(c) \/ WriteFail(c))
        /\ WF_vars(~open[c] /\ ReadFail(c))

Spec == Init /\ [][Next]_vars
FairSpec == Spec /\ Fairness

-----------------------------------------------------------------------------
(* Properties.                                                             *)

(* The hub implements the abstract group membership: joins are AcceptOk,  *)
(* a stream closes in AcceptFail, ReadClosed, ReadFail, WriteFail and      *)
(* Shutdown, and the prune of multicastMessage (lines 477-483) erases from *)
(* clients_ only streams its walk found closed; every other step leaves    *)
(* the member sets and the streams alone.                                  *)
Membership == INSTANCE GroupMembership WITH members <- clients
ImplementsMembership == Membership!Spec

(* Every upgraded connection whose stream is still open is a member of its *)
(* own group: a concurrent multicast's prune (which works on a snapshot    *)
(* taken before the connection joined or before it was seen) never drops  *)
(* a live member.  This is the "atomic membership mutation" of join and    *)
(* prune under WebSocketGroupHandler::mutex_.                              *)
LiveMembersJoined ==
    \A c \in Conns : (pc[c] \in Active /\ open[c]) => c \in clients[grp[c]]

(* A connection whose stream is no longer open eventually leaves handle    *)
(* (the coroutine ends), unless the server stops first.                    *)
ClosedConnectionFinishes ==
    \A c \in Conns :
        (pc[c] \in Active /\ ~open[c]) ~> (pc[c] = "done" \/ stopped)

(* The Beast stream contract: at most one async_write is in flight on a    *)
(* websocket stream at any time.                                           *)
AtMostOneWriter ==
    \A d \in Conns : Cardinality({c \in Conns : pc[c] = "writing" /\ cur[c] = d}) <= 1

(* A peer is only ever sent frames some member actually read: a failed     *)
(* read ends the connection (spec 4.5, "Closed on read error") and relays  *)
(* nothing.                                                                *)
NoSpuriousFrame ==
    \A d \in Conns : "empty" \notin got[d]

=============================================================================

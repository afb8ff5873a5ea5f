----------------------------- MODULE TcpClient -----------------------------
(***************************************************************************)
(* The blocking TCP client TcpClientSync (TcpClientSync.hpp), driven by   *)
(* one thread.  isConnected() is socket_.is_open(), so a socket that is   *)
(* open but not connected (after bind, or after a failed connect, which   *)
(* asio leaves open) counts as connected.  Addresses are valid or not:    *)
(* address::from_string throws on an invalid one, and the exception       *)
(* leaves the call.  err_ is abstracted to empty or not.                   *)
(***************************************************************************)
EXTENDS Naturals

VARIABLES
    sock,  \* socket_: "closed", "open", "bound" or "connected"
    err,   \* err_ # ""
    last   \* the last call: its name and its result ("true", "false" or "throw")

vars == <<sock, err, last>>

Calls == {"none", "bind", "connect", "disconnect", "send", "receive", "receiveSome"}

TypeOK ==
    /\ sock \in {"closed", "open", "bound", "connected"}
    /\ err \in BOOLEAN
    /\ last \in [call : Calls, result : {"true", "false", "throw"}]

IsConnected == sock # "closed"

Init ==
    /\ sock = "closed" /\ err = FALSE
    /\ last = [call |-> "none", result |-> "true"]

(* bind: clear err_; refuse if isConnected(); else open the socket, parse *)
(* the address (may throw, socket left open) and bind (may fail, socket   *)
(* left open).  The close of an open socket at 45-50 is never reached:    *)
(* an open socket was refused just before.                                *)
Bind ==
    \/ /\ IsConnected
       /\ err' = TRUE /\ last' = [call |-> "bind", result |-> "false"]
       /\ UNCHANGED sock
    \/ /\ ~IsConnected
       /\ \/ sock' = "open" /\ err' = FALSE /\ last' = [call |-> "bind", result |-> "throw"]
          \/ sock' = "open" /\ err' = TRUE /\ last' = [call |-> "bind", result |-> "false"]
          \/ sock' = "bound" /\ err' = FALSE /\ last' = [call |-> "bind", result |-> "true"]

(* connectTo: clear err_; if isConnected() report a duplicate connect and *)
(* return true; else parse the address (may throw) and connect, which     *)
(* opens the socket and leaves it open when the connection fails.         *)
ConnectTo ==
    \/ /\ IsConnected
       /\ err' = FALSE /\ last' = [call |-> "connect", result |-> "true"]
       /\ UNCHANGED sock
    \/ /\ ~IsConnected
       /\ \/ err' = FALSE /\ last' = [call |-> "connect", result |-> "throw"] /\ UNCHANGED sock
          \/ sock' = "open" /\ err' = TRUE /\ last' = [call |-> "connect", result |-> "false"]
          \/ sock' = "connected" /\ err' = FALSE /\ last' = [call |-> "connect", result |-> "true"]

(* disconnect: clear err_, shut down and close an open socket.             *)
Disconnect ==
    /\ sock' = "closed" /\ err' = FALSE
    /\ last' = [call |-> "disconnect", result |-> "true"]

(* send, receive(buf, size) and receive(buf) share one shape: clear err_; *)
(* "No connection" when not isConnected(); else the blocking write or     *)
(* read, which fails on a socket that is not connected and may fail on    *)
(* one that is; a failure sets err_ and calls disconnect(), which clears  *)
(* err_ again and closes the socket.                                      *)
Io(call) ==
    \/ /\ ~IsConnected
       /\ err' = TRUE /\ last' = [call |-> call, result |-> "false"]
       /\ UNCHANGED sock
    \/ /\ IsConnected
       /\ sock' = "closed" /\ err' = FALSE
       /\ last' = [call |-> call, result |-> "false"]
    \/ /\ sock = "connected"
       /\ err' = FALSE /\ last' = [call |-> call, result |-> "true"]
       /\ UNCHANGED sock

Send == Io("send")
Receive == Io("receive")
ReceiveSome == Io("receiveSome")

Next == Bind \/ ConnectTo \/ Disconnect \/ Send \/ Receive \/ ReceiveSome

Spec == Init /\ [][Next]_vars

-----------------------------------------------------------------------------
(* Properties.                                                             *)

(* When connectTo returns true the socket is connected to the peer, so a  *)
(* send that follows goes to it.                                          *)
ConnectedWhenReported ==
    (last.call = "connect" /\ last.result = "true") => sock = "connected"

(* error() describes every call that returned false.                       *)
ErrorReported ==
    last.result = "false" => err

=============================================================================

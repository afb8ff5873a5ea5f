---------------------------- MODULE HttpExchange ----------------------------
(***************************************************************************)
(* What one HTTP/1.1 connection of the server promises its client, with   *)
(* no pipelining: requests and responses alternate.  A request is taken   *)
(* only when every earlier one has been answered, each response answers   *)
(* the one request outstanding and may be the last, and the server closes *)
(* the connection (or hands it over to another protocol) only between two *)
(* exchanges, never with a request left unanswered.                        *)
(***************************************************************************)
EXTENDS Naturals

VARIABLES
    received,  \* requests the server has taken from the connection
    answered,  \* responses it has written
    open       \* the connection still carries HTTP exchanges

vars == <<received, answered, open>>

Init ==
    /\ received = 0
    /\ answered = 0
    /\ open = TRUE

(* The next request is read once the previous one is answered.             *)
Receive ==
    /\ open
    /\ answered = received
    /\ received' = received + 1
    /\ UNCHANGED <<answered, open>>

(* The outstanding request is answered; the response may end the          *)
(* connection.                                                             *)
Respond ==
    /\ open
    /\ received = answered + 1
    /\ answered' = answered + 1
    /\ open' \in BOOLEAN
    /\ UNCHANGED received

(* The connection is closed, or leaves HTTP, between two exchanges.        *)
Close ==
    /\ open
    /\ answered = received
    /\ open' = FALSE
    /\ UNCHANGED <<received, answered>>

Next == Receive \/ Respond \/ Close

Spec == Init /\ [][Next]_vars

=============================================================================

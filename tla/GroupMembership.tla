--------------------------- MODULE GroupMembership ---------------------------
(***************************************************************************)
(* What the WebSocket group hub promises about its member sets: a         *)
(* connection joins one group at a time, streams only ever close, and a   *)
(* member leaves a group only once its stream is closed.  A multicast may *)
(* therefore reach a member late or not at all, but never because the hub *)
(* forgot a live member.                                                   *)
(***************************************************************************)
CONSTANTS
    Conns,   \* the connections
    Groups   \* the groups they may join

VARIABLES
    members, \* members[g]: the connections the hub keeps for group g
    open     \* open[c]: connection c's stream is still open

vars == <<members, open>>

Init ==
    /\ members = [g \in Groups |-> {}]
    /\ open = [c \in Conns |-> TRUE]

(* Connection c enters group g.                                            *)
Join(c, g) ==
    /\ members' = [members EXCEPT ![g] = @ \cup {c}]
    /\ UNCHANGED open

(* The streams of S close (a peer's close, a failed read or write, or the *)
(* hub closing what it tracks).                                            *)
Close(S) ==
    /\ open' = [c \in Conns |-> IF c \in S THEN FALSE ELSE open[c]]
    /\ UNCHANGED members

(* Connections of S leave group g; every one of them is already closed.    *)
Prune(g, S) ==
    /\ \A c \in S : ~open[c]
    /\ members' = [members EXCEPT ![g] = @ \ S]
    /\ UNCHANGED open

Next ==
    \/ \E c \in Conns, g \in Groups : Join(c, g)
    \/ \E S \in SUBSET Conns : Close(S)
    \/ \E g \in Groups, S \in SUBSET Conns : Prune(g, S)

Spec == Init /\ [][Next]_vars

=============================================================================

----------------------------- MODULE MCManager -----------------------------
(* Three objects: a1 and a2 share an id, a2 and b share a code.  Four     *)
(* push_backs are enough to add, remove and add again.                     *)
EXTENDS Manager

CONSTANTS a1, a2, b, t1

MCObjs == {a1, a2, b}
MCId == (a1 :> 1) @@ (a2 :> 1) @@ (b :> 2)
MCCode == (a1 :> "x") @@ (a2 :> "y") @@ (b :> "y")

=============================================================================

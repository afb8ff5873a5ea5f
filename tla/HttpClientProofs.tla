-------------------------- MODULE HttpClientProofs --------------------------
(***************************************************************************)
(* Proofs about the asynchronous HTTP client, for every set of requests,  *)
(* every set of urls, every thread count and every timeout.               *)
(***************************************************************************)
EXTENDS HttpClientModel, TLAPS

TypeOK ==
    /\ url \in [Reqs -> Urls \cup {<<>>}]
    /\ st \in [Reqs -> States]
    /\ replies \in [Reqs -> Nat]
    /\ waitOn \in [Reqs -> Reqs]
    /\ dropped \in BOOLEAN

(* A request's handler has been called exactly once when its coroutine    *)
(* has returned (or its handler sits in syncSend), and never before.      *)
RepliedIffFinished ==
    \A r \in Reqs : replies[r] = IF st[r] \in {"blocked", "done"} THEN 1 ELSE 0

IInv == TypeOK /\ RepliedIffFinished

(* The states a coroutine passes through before its handler is called.    *)
Pending == States \ {"blocked", "done"}

-----------------------------------------------------------------------------
LEMMA IInvInit == Init => IInv
  <1> SUFFICES ASSUME Init PROVE IInv
    OBVIOUS
  <1>1. dropped \in BOOLEAN
    BY Zenon DEF Init
  <1>2. /\ url \in [Reqs -> Urls \cup {<<>>}]
        /\ st \in [Reqs -> States]
        /\ replies \in [Reqs -> Nat]
        /\ waitOn \in [Reqs -> Reqs]
    BY DEF Init, States
  <1>3. RepliedIffFinished
    BY DEF Init, RepliedIffFinished
  <1>4. QED
    BY <1>1, <1>2, <1>3 DEF IInv, TypeOK

(* A step of doSend that moves request r between two states before its    *)
(* reply keeps the invariant.                                              *)
LEMMA PendingStep ==
    ASSUME IInv, NEW r \in Reqs, st[r] \in Pending,
           NEW s \in Pending, Goto(r, s)
    PROVE  IInv'
  BY DEF IInv, TypeOK, RepliedIffFinished, Goto, Pending

(* The states a failable await leads to.                                   *)
LEMMA Branch ==
    ASSUME NEW a, NEW b, NEW r, NEW ok \in BOOLEAN, Goto(r, IF ok THEN a ELSE b)
    PROVE  \E s \in {a, b} : Goto(r, s)
  <1>1. CASE ok
    BY <1>1
  <1>2. CASE ~ok
    BY <1>2
  <1>3. QED
    BY <1>1, <1>2

LEMMA IInvStep == IInv /\ [Next]_vars => IInv'
  <1> SUFFICES ASSUME IInv, [Next]_vars PROVE IInv'
    OBVIOUS
  <1>1. ASSUME NEW r \in Reqs, NEW u \in Urls, Issue(r, u) PROVE IInv'
    BY <1>1 DEF Issue, IInv, TypeOK, RepliedIffFinished, States
  <1>2. ASSUME NEW r \in Reqs, Begin(r) PROVE IInv'
    <2>1. \E s \in {"resolving", "replying"} : Goto(r, s)
      BY <1>2 DEF Begin
    <2>2. PICK s \in {"resolving", "replying"} : Goto(r, s)
      BY <2>1
    <2>3. st[r] \in Pending /\ s \in Pending
      BY <1>2 DEF Begin, Runs, Pending, States
    <2>4. QED
      BY <2>2, <2>3, PendingStep
  <1>3. ASSUME NEW r \in Reqs,
               Resolved(r) \/ Connected(r) \/ Written(r) \/ ReadDone(r) \/ Expire(r)
        PROVE  IInv'
    <2>1. \E s \in {"connecting", "writing", "reading", "replying"} : Goto(r, s)
      <3>1. CASE Resolved(r)
        BY <3>1, Branch DEF Resolved
      <3>2. CASE Connected(r)
        BY <3>2, Branch DEF Connected
      <3>3. CASE Written(r)
        BY <3>3, Branch DEF Written
      <3>4. QED
        BY <1>3, <3>1, <3>2, <3>3 DEF ReadDone, Expire
    <2>2. st[r] \in Pending
      BY <1>3 DEF Resolved, Connected, Written, ReadDone, Expire, Runs,
                  Pending, States
    <2>3. PICK s \in {"connecting", "writing", "reading", "replying"} : Goto(r, s)
      BY <2>1
    <2>4. s \in Pending
      BY DEF Pending, States
    <2>5. QED
      BY <2>2, <2>3, <2>4, PendingStep
  <1>4. ASSUME NEW r \in Reqs, Reply(r) PROVE IInv'
    \* the handler is called once, with st[r] = "replying" and no reply yet
    <2>1. replies[r] = 0
      BY <1>4 DEF Reply, Runs, IInv, RepliedIffFinished, TypeOK
    <2>2. CASE st' = [st EXCEPT ![r] = "done"] /\ UNCHANGED <<url, waitOn>>
      BY <1>4, <2>1, <2>2 DEF Reply, IInv, TypeOK, RepliedIffFinished, States
    <2>3. ASSUME NEW q \in Reqs, NEW u \in Urls,
                 st[q] = "none",
                 url' = [url EXCEPT ![q] = u],
                 st' = [st EXCEPT ![r] = "blocked", ![q] = "posted"],
                 waitOn' = [waitOn EXCEPT ![r] = q]
          PROVE  IInv'
      BY <1>4, <2>1, <2>3 DEF Reply, Runs, IInv, TypeOK, RepliedIffFinished, States
    <2>4. QED
      BY <1>4, <2>2, <2>3 DEF Reply
  <1>5. ASSUME NEW r \in Reqs, Unblock(r) PROVE IInv'
    BY <1>5 DEF Unblock, Goto, IInv, TypeOK, RepliedIffFinished, States
  <1>6. CASE Drop
    BY <1>6 DEF Drop, IInv, TypeOK, RepliedIffFinished
  <1>7. CASE UNCHANGED vars
    BY <1>7 DEF vars, IInv, TypeOK, RepliedIffFinished
  <1>8. QED
    BY <1>1, <1>2, <1>3, <1>4, <1>5, <1>6, <1>7 DEF Next

(* The client's state always has its type.                                 *)
THEOREM TypeCorrect == Spec => []TypeOK
  BY IInvInit, IInvStep, PTL DEF Spec, IInv

(* Every path of doSend, including the early return of an invalid url, a  *)
(* timer that fails a pending step and a handler that blocks in syncSend, *)
(* calls the reply handler at most once.                                   *)
THEOREM RepliesAtMostOnce == Spec => []OneReplyPerRequest
  <1>1. IInv => OneReplyPerRequest
    BY DEF IInv, TypeOK, RepliedIffFinished, OneReplyPerRequest
  <1>2. QED
    BY <1>1, IInvInit, IInvStep, PTL DEF Spec


=============================================================================

---------------------------- MODULE WsHubProofs ----------------------------
(***************************************************************************)
(* Proofs about the WebSocket group hub, for every set of connections and  *)
(* groups and every frame bound.                                           *)
(***************************************************************************)
EXTENDS WsHub, TLAPS

(* Every stream a multicast round has queued for pruning is closed.  The   *)
(* prune of a round works from this list, so this is what makes the prune  *)
(* harmless to live members.                                               *)
ClosedListClosed ==
    \A c \in Conns : \A d \in closedL[c] : ~open[d]

(* The inductive invariant behind LiveMembersJoined.                       *)
IInv == TypeOK /\ LiveMembersJoined /\ ClosedListClosed

-----------------------------------------------------------------------------
(* Type correctness.                                                       *)

LEMMA TypeInit == Init => TypeOK
  <1> SUFFICES ASSUME Init PROVE TypeOK
    OBVIOUS
  <1>1. (CHOOSE g \in Groups : TRUE) \in Groups
    BY HubAssumption
  <1>2. grp \in [Conns -> Groups]
    BY <1>1 DEF Init
  <1>3. frames \in [Conns -> 0..MaxFrames]
    BY HubAssumption DEF Init
  <1>4. /\ pc \in [Conns -> PcStates]
        /\ buf \in [Conns -> Frames]
        /\ got \in [Conns -> SUBSET Frames]
    BY DEF Init, PcStates, Frames
  <1>5. QED
    BY <1>2, <1>3, <1>4 DEF Init, TypeOK

LEMMA TypeStep == TypeOK /\ [Next]_vars => TypeOK'
  <1> SUFFICES ASSUME TypeOK, [Next]_vars PROVE TypeOK'
    OBVIOUS
  <1> USE DEF TypeOK, PcStates, Frames
  <1>1. CASE Shutdown
    BY <1>1 DEF Shutdown
  <1>2. ASSUME NEW c \in Conns,
               \/ Upgrade(c) \/ AcceptOk(c) \/ AcceptFail(c) \/ LoopTop(c)
               \/ ReadFrame(c) \/ ReadClosed(c) \/ ReadFail(c)
               \/ McVisit(c) \/ McPrune(c) \/ WriteOk(c) \/ WriteFail(c)
        PROVE TypeOK'
    <2>1. CASE Upgrade(c)
      BY <2>1 DEF Upgrade
    <2>2. CASE AcceptOk(c)
      BY <2>2 DEF AcceptOk
    <2>3. CASE AcceptFail(c)
      BY <2>3 DEF AcceptFail
    <2>4. CASE LoopTop(c)
      BY <2>4 DEF LoopTop
    <2>5. CASE ReadFrame(c)
      <3>1. frames' \in [Conns -> 0..MaxFrames] /\ buf' \in [Conns -> Frames]
        BY <2>5, HubAssumption DEF ReadFrame
      <3>2. CASE grp[c] \in known
        BY <2>5, <3>1, <3>2 DEF ReadFrame, StartMulticast
      <3>3. CASE grp[c] \notin known
        BY <2>5, <3>1, <3>3 DEF ReadFrame, StartMulticast
      <3>4. QED
        BY <3>2, <3>3
    <2>6. CASE ReadClosed(c)
      BY <2>6 DEF ReadClosed
    <2>7. CASE ReadFail(c)
      BY <2>7 DEF ReadFail, StartMulticast
    <2>8. CASE McVisit(c)
      BY <2>8 DEF McVisit
    <2>9. CASE McPrune(c)
      BY <2>9 DEF McPrune
    <2>10. CASE WriteOk(c)
      BY <2>10 DEF WriteOk
    <2>11. CASE WriteFail(c)
      BY <2>11 DEF WriteFail
    <2>12. QED
      BY <1>2, <2>1, <2>2, <2>3, <2>4, <2>5, <2>6, <2>7, <2>8, <2>9,
         <2>10, <2>11
  <1>3. CASE UNCHANGED vars
    BY <1>3 DEF vars
  <1>4. QED
    BY <1>1, <1>2, <1>3 DEF Next

(* The hub's state always has its type.                                    *)
THEOREM TypeCorrect == Spec => []TypeOK
  BY TypeInit, TypeStep, PTL DEF Spec

-----------------------------------------------------------------------------
(* Membership: a live member is never pruned.                              *)

(* Streams only ever close: no step of the hub reopens one.                *)
LEMMA OpenOnlyFalls ==
    ASSUME TypeOK, [Next]_vars, NEW d \in Conns, ~open[d]
    PROVE  ~open'[d]
  <1>1. CASE Shutdown
    BY <1>1 DEF Shutdown, TypeOK
  <1>2. ASSUME NEW c \in Conns,
               \/ Upgrade(c) \/ AcceptOk(c) \/ AcceptFail(c) \/ LoopTop(c)
               \/ ReadFrame(c) \/ ReadClosed(c) \/ ReadFail(c)
               \/ McVisit(c) \/ McPrune(c) \/ WriteOk(c) \/ WriteFail(c)
        PROVE  ~open'[d]
    BY <1>2 DEF Upgrade, AcceptOk, AcceptFail, LoopTop, ReadFrame, ReadClosed,
                ReadFail, McVisit, McPrune, WriteOk, WriteFail, TypeOK
  <1>3. CASE UNCHANGED vars
    BY <1>3 DEF vars
  <1>4. QED
    BY <1>1, <1>2, <1>3 DEF Next

LEMMA IInvInit == Init => IInv
  BY TypeInit DEF Init, IInv, LiveMembersJoined, ClosedListClosed, Active

LEMMA IInvStep == IInv /\ [Next]_vars => IInv'
  <1> SUFFICES ASSUME IInv, [Next]_vars PROVE IInv'
    OBVIOUS
  <1>1. TypeOK'
    BY TypeStep DEF IInv
  <1>2. ClosedListClosed'
    <2> SUFFICES ASSUME NEW c \in Conns, NEW d \in closedL'[c] PROVE ~open'[d]
      BY DEF ClosedListClosed
    <2> USE DEF IInv, TypeOK
    <2>1. d \in Conns
      BY <1>1
    <2>2. CASE d \in closedL[c]
      BY <2>1, <2>2, OpenOnlyFalls DEF ClosedListClosed
    <2>3. CASE d \notin closedL[c]
      \* only a McVisit of c that found d closed adds d to c's list
      <3>1. CASE Shutdown
        BY <2>3, <3>1 DEF Shutdown
      <3>2. ASSUME NEW e \in Conns, McVisit(e) PROVE ~open'[d]
        BY <2>3, <3>2 DEF McVisit
      <3>3. ASSUME NEW e \in Conns,
                   \/ Upgrade(e) \/ AcceptOk(e) \/ AcceptFail(e) \/ LoopTop(e)
                   \/ ReadClosed(e) \/ McPrune(e) \/ WriteOk(e) \/ WriteFail(e)
            PROVE  ~open'[d]
        BY <2>3, <3>3 DEF Upgrade, AcceptOk, AcceptFail, LoopTop, ReadClosed,
                          McPrune, WriteOk, WriteFail
      <3>4. ASSUME NEW e \in Conns, ReadFrame(e) \/ ReadFail(e) PROVE ~open'[d]
        \* a new round starts with an empty list
        BY <2>3, <3>4 DEF ReadFrame, ReadFail, StartMulticast
      <3>5. CASE UNCHANGED vars
        BY <2>3, <3>5 DEF vars
      <3>6. QED
        BY <3>1, <3>2, <3>3, <3>4, <3>5 DEF Next
    <2>4. QED
      BY <2>2, <2>3
  <1>3. LiveMembersJoined'
    <2> SUFFICES ASSUME NEW c \in Conns, pc'[c] \in Active, open'[c]
                 PROVE  c \in clients'[grp'[c]]
      BY DEF LiveMembersJoined
    <2> USE DEF IInv, TypeOK
    <2>1. CASE Shutdown
      BY <2>1 DEF Shutdown, LiveMembersJoined
    <2>2. ASSUME NEW e \in Conns, Upgrade(e) PROVE c \in clients'[grp'[c]]
      BY <2>2 DEF Upgrade, LiveMembersJoined, Active
    <2>3. ASSUME NEW e \in Conns, AcceptOk(e) PROVE c \in clients'[grp'[c]]
      BY <2>3 DEF AcceptOk, LiveMembersJoined, Active
    <2>4. ASSUME NEW e \in Conns, AcceptFail(e) PROVE c \in clients'[grp'[c]]
      BY <2>4 DEF AcceptFail, LiveMembersJoined, Active
    <2>5. ASSUME NEW e \in Conns, LoopTop(e) PROVE c \in clients'[grp'[c]]
      BY <2>5 DEF LoopTop, LiveMembersJoined, Active
    <2>6. ASSUME NEW e \in Conns, ReadFrame(e) PROVE c \in clients'[grp'[c]]
      BY <2>6 DEF ReadFrame, StartMulticast, LiveMembersJoined, Active
    <2>7. ASSUME NEW e \in Conns, ReadClosed(e) PROVE c \in clients'[grp'[c]]
      BY <2>7 DEF ReadClosed, LiveMembersJoined, Active
    <2>8. ASSUME NEW e \in Conns, ReadFail(e) PROVE c \in clients'[grp'[c]]
      BY <2>8 DEF ReadFail, StartMulticast, LiveMembersJoined, Active
    <2>9. ASSUME NEW e \in Conns, McVisit(e) PROVE c \in clients'[grp'[c]]
      BY <2>9 DEF McVisit, LiveMembersJoined, Active
    <2>10. ASSUME NEW e \in Conns, McPrune(e) PROVE c \in clients'[grp'[c]]
      \* the prune removes only streams of e's list, all closed; c is open
      <3>1. c \notin closedL[e]
        BY <2>10 DEF McPrune, ClosedListClosed
      <3>2. c \in clients[grp[c]]
        BY <2>10 DEF McPrune, LiveMembersJoined, Active
      <3>3. QED
        BY <2>10, <3>1, <3>2 DEF McPrune
    <2>11. ASSUME NEW e \in Conns, WriteOk(e) PROVE c \in clients'[grp'[c]]
      BY <2>11 DEF WriteOk, LiveMembersJoined, Active
    <2>12. ASSUME NEW e \in Conns, WriteFail(e) PROVE c \in clients'[grp'[c]]
      BY <2>12 DEF WriteFail, LiveMembersJoined, Active
    <2>13. CASE UNCHANGED vars
      BY <2>13 DEF vars, LiveMembersJoined
    <2>14. QED
      BY <2>1, <2>2, <2>3, <2>4, <2>5, <2>6, <2>7, <2>8, <2>9, <2>10,
         <2>11, <2>12, <2>13 DEF Next
  <1>4. QED
    BY <1>1, <1>2, <1>3 DEF IInv

(* A connection whose stream is open and whose coroutine is past the       *)
(* handshake is always a member of its group (the hub's join and prune are *)
(* atomic under mutex_ and the prune only erases closed streams).          *)
THEOREM MembershipSafe == Spec => []LiveMembersJoined
  BY IInvInit, IInvStep, PTL DEF Spec, IInv


-----------------------------------------------------------------------------
(* Refinement of the abstract group membership.                            *)

(* A step that closes the streams of S, and only those, is a Close(S).     *)
LEMMA CloseStep ==
    ASSUME TypeOK, NEW S \in SUBSET Conns, UNCHANGED clients,
           open' = [c \in Conns |-> IF c \in S THEN FALSE ELSE open[c]]
    PROVE  Membership!Next
  <1>1. Membership!Close(S)
    BY DEF Membership!Close
  <1>2. QED
    BY <1>1 DEF Membership!Next

(* Closing one stream is closing the set of it.                            *)
LEMMA CloseOne ==
    ASSUME TypeOK, NEW c \in Conns, UNCHANGED clients,
           open' = [open EXCEPT ![c] = FALSE]
    PROVE  Membership!Next
  <1>1. open' = [x \in Conns |-> IF x \in {c} THEN FALSE ELSE open[x]]
    BY DEF TypeOK
  <1>2. QED
    BY <1>1, CloseStep

LEMMA MembershipInit == Init => Membership!Init
  BY DEF Init, Membership!Init

LEMMA MembershipStep ==
    IInv /\ [Next]_vars => [Membership!Next]_Membership!vars
  <1> SUFFICES ASSUME IInv, [Next]_vars
               PROVE  [Membership!Next]_Membership!vars
    OBVIOUS
  <1>0. TypeOK
    BY DEF IInv
  <1> DEFINE Quiet == UNCHANGED Membership!vars
  <1>1. CASE Shutdown
    <2> DEFINE S == {x \in Conns : \E g \in Groups : x \in clients[g]}
    <2>1. S \in SUBSET Conns
      OBVIOUS
    <2>2. QED
      BY <1>0, <1>1, <2>1, CloseStep DEF Shutdown
  <1>2. ASSUME NEW c \in Conns, AcceptOk(c) PROVE Membership!Next
    <2>1. Membership!Join(c, grp[c])
      BY <1>2 DEF AcceptOk, Membership!Join
    <2>2. QED
      BY <1>0, <2>1 DEF Membership!Next, TypeOK
  <1>3. ASSUME NEW c \in Conns, AcceptFail(c) \/ ReadClosed(c) \/ ReadFail(c)
        PROVE  Membership!Next
    BY <1>0, <1>3, CloseOne DEF AcceptFail, ReadClosed, ReadFail
  <1>4. ASSUME NEW c \in Conns, WriteFail(c) PROVE Membership!Next
    BY <1>0, <1>4, CloseOne DEF WriteFail, TypeOK
  <1>5. ASSUME NEW c \in Conns, McPrune(c) PROVE Membership!Next
    \* the walk queued only streams it found closed, and none reopened
    <2>1. \A d \in closedL[c] : ~open[d]
      BY DEF IInv, ClosedListClosed
    <2>2. Membership!Prune(grp[c], closedL[c])
      BY <1>5, <2>1 DEF McPrune, Membership!Prune
    <2>3. QED
      BY <1>0, <2>2 DEF Membership!Next, TypeOK
  <1>6. ASSUME NEW c \in Conns,
               Upgrade(c) \/ LoopTop(c) \/ ReadFrame(c) \/ McVisit(c) \/ WriteOk(c)
        PROVE  Quiet
    BY <1>6 DEF Upgrade, LoopTop, ReadFrame, StartMulticast, McVisit, WriteOk,
                Membership!vars
  <1>7. CASE UNCHANGED vars
    BY <1>7 DEF vars, Membership!vars
  <1>8. QED
    BY <1>1, <1>2, <1>3, <1>4, <1>5, <1>6, <1>7 DEF Next

(* The hub implements the abstract membership: every join is a join, every *)
(* stream closed by a failed accept, read or write or by the destructor is *)
(* a close, and the prune of multicastMessage removes only closed streams. *)
THEOREM MembershipRefinement == Spec => ImplementsMembership
  <1>1. Init => Membership!Init
    BY MembershipInit
  <1>2. IInv /\ [Next]_vars => [Membership!Next]_Membership!vars
    BY MembershipStep
  <1>3. QED
    BY <1>1, <1>2, IInvInit, IInvStep, PTL
       DEF Spec, ImplementsMembership, Membership!Spec

=============================================================================

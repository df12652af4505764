------------------------- MODULE RelayServer_proofs -------------------------
(***************************************************************************)
(* The relay is a caller of its room and of its session table: every step  *)
(* of a handler is an operation of each, or leaves it alone.  So what is   *)
(* proved of a room and of the table under arbitrary callers holds of the  *)
(* relay, for every number of clients, sessions, frames and ticks.         *)
(***************************************************************************)
EXTENDS RelayServer, RelayRoom_proofs, RelaySession_proofs

\* A clock reading a handler keeps was taken in the past.
ReadingsArePast ==
  /\ \A p \in Producers : readAt[p] <= clock
  /\ \A r \in Requests : loginAt[r] <= clock
  /\ tickAt <= clock

\* A viewer handler past authentication, and its writer, know their session.
SessionKnown ==
  \A v \in Viewers :
    (vpc[v] \notin {"idle", "admitted", "rejecting", "done"} \/ wpc[v] # "off")
      => sessionOf[v] \in Sessions

\* The types, with what keeps the steps of the handlers operations of the
\* room and of the table.
ServerInv == TypeOK /\ ReadingsArePast /\ SessionKnown

\* Every step of the relay is a step of its room.
LEMMA ServerStepIsRoomStep ==
  ASSUME ServerInv, [Next]_vars
  PROVE  [RoomNext]_<<clock, roomVars>>
<1> USE ServerAssumption DEF ServerInv, TypeOK, RoomNext, RoomOperation
<1> clock \in 0 .. clock
  BY MaxTimeAssumption DEF RoomTypeOK, ClockTypeOK
<1>1. ASSUME NEW v \in Viewers, ViewerStep(v)
      PROVE  [RoomNext]_<<clock, roomVars>>
  BY <1>1 DEF ViewerStep, ViewerUnauthenticated, ViewerAuthenticated, ViewerFindsInvalid,
     ViewerRejected, ViewerReserves, ViewerOverLimit, ViewerEntersRoom, ViewerRoomFull,
     ViewerUpgrades, ViewerUpgradeFails, ViewerAttachesToRoom, ViewerRoomClosing,
     ViewerAttachesToSession, ViewerSessionGone, ViewerStartsWriter, ViewerLeavesRoom,
     ViewerReleases
<1>2. ASSUME NEW v \in Viewers, WriterStep(v) \/ WriteEnds(v)
      PROVE  [RoomNext]_<<clock, roomVars>>
  BY <1>2 DEF WriterStep, WriterStops, WriterExpires, WriterExpired, WriterTakes,
     WriteEnds, WriterWrites, WriterFails
<1>3. ASSUME NEW p \in Producers, ProducerStep(p)
      PROVE  [RoomNext]_<<clock, roomVars>>
  <2>1. ASSUME ProducerPublishes(p) PROVE [RoomNext]_<<clock, roomVars>>
    <3>1. readAt[p] \in 0 .. clock
      BY DEF ReadingsArePast, RoomTypeOK, ClockTypeOK
    <3> QED
      BY <2>1, <3>1 DEF ProducerPublishes
  <2>2. ASSUME ProducerOffers(p) PROVE [RoomNext]_<<clock, roomVars>>
    <3>1. PICK offer \in offers[p] : PublishOffer(p, offer[1], offer[2])
      BY <2>2 DEF ProducerOffers
    <3>2. offer[1] \in Viewers /\ offer[2] \in Frame
      BY <3>1 DEF RoomTypeOK
    <3> QED
      BY <2>2, <3>1, <3>2 DEF ProducerOffers
  <2> QED
    BY <1>3, <2>1, <2>2 DEF ProducerStep, ProducerClaims, ProducerConflict, ProducerUpgrades,
       ProducerUpgradeFails, ProducerAttaches, ProducerRoomClosing, ProducerOffered,
       ProducerReleases
<1>4. ASSUME NEW r \in Requests, RequestStep(r)
      PROVE  [RoomNext]_<<clock, roomVars>>
  BY <1>4 DEF RequestStep, LoginRejected, LoginCommits, LoginRevokesReplaced, RequestDone
<1>5. ASSUME JanitorStep \/ CloseStep
      PROVE  [RoomNext]_<<clock, roomVars>>
  BY <1>5 DEF JanitorStep, JanitorExpires, JanitorPrunes, JanitorRests, JanitorStops,
     CloseStep, CloseStarts, CloseClearsSessions, CloseClosesRoom, CloseReturns
<1>6. ASSUME Environment
      PROVE  [RoomNext]_<<clock, roomVars>>
  BY <1>6 DEF Environment, ViewerAdmitted, ViewerSpeaks, ViewerReadFails, WriterPingFails,
     ProducerAdmitted, ProducerReads, ProducerRefused, ProducerReadFails, LoginStarts,
     LogoutRemoves, ProbeFindsInvalid, ShutdownRequested
<1>7. ASSUME Tick \/ ClosingLoop \/ UNCHANGED vars
      PROVE  [RoomNext]_<<clock, roomVars>>
  BY <1>7 DEF Tick, ClosingLoop, vars
<1> QED
  BY <1>1, <1>2, <1>3, <1>4, <1>5, <1>6, <1>7 DEF Next

\* Whatever a handler does to its own connection, a connection may undergo.
LEMMA OwnConnection ==
  ASSUME NEW c \in Conns, NEW code \in Codes, UNCHANGED sessionVars,
         \/ OpenSocket(c) \/ HangUp(c) \/ HangUpWith(c, code)
         \/ CloseSocket(c) /\ writing' = writing \ {c} /\ UNCHANGED <<toClose, deadline>>
         \/ /\ writing' \in {writing \cup {c}, writing \ {c}}
            /\ UNCHANGED <<socket, closeCode, toClose, deadline>>
  PROVE  SocketOperation
BY DEF OpenSocket, HangUp, HangUpWith, SocketOperation

\* Every step of the relay is a step of its session table and connections.
LEMMA ServerStepIsSessionStep ==
  ASSUME ServerInv, [Next]_vars
  PROVE  [SessionNext]_<<clock, socketVars, sessionVars>>
<1> DEFINE Step == [SessionNext]_<<clock, socketVars, sessionVars>>
<1> USE ServerAssumption DEF ServerInv, TypeOK
<1>1. clock \in 0 .. clock /\ Refused \in Codes /\ SessionEnded \in Codes
  BY MaxTimeAssumption DEF RoomTypeOK, ClockTypeOK, Codes
<1>2. ASSUME SocketOperation, UNCHANGED clock PROVE Step
  BY <1>2 DEF SessionNext
<1>3. ASSUME SessionOperation, UNCHANGED clock PROVE Step
  BY <1>3 DEF SessionNext
<1>4. ASSUME UNCHANGED <<clock, socketVars, sessionVars>> PROVE Step
  BY <1>4
<1> HIDE DEF Step
<1>5. ASSUME NEW v \in Viewers, ViewerStep(v)
      PROVE  Step
  <2>1. ASSUME NEW s \in Sessions, ViewerFindsInvalid(v, s) PROVE Step
    BY <1>3, <2>1 DEF ViewerFindsInvalid, SessionOperation
  <2>2. ASSUME ViewerReserves(v) PROVE Step
    <3>1. sessionOf[v] \in Sessions /\ Reserve(sessionOf[v], v, clock) /\ UNCHANGED clock
      BY <2>2 DEF ViewerReserves, ViewerGoes, SessionKnown
    <3> QED
      BY <1>1, <1>3, <3>1 DEF SessionOperation
  <2>3. ASSUME ViewerAttachesToSession(v) PROVE Step
    <3>1. sessionOf[v] \in Sessions /\ Attach(sessionOf[v], v, clock) /\ UNCHANGED clock
      BY <2>3 DEF ViewerAttachesToSession, ViewerGoes, SessionKnown
    <3> QED
      BY <1>1, <1>3, <3>1 DEF SessionOperation
  <2>4. ASSUME ViewerReleases(v) PROVE Step
    <3>1. sessionOf[v] \in Sessions /\ Release(sessionOf[v], v) /\ UNCHANGED clock
      BY <2>4 DEF ViewerReleases, ViewerGoes, SessionKnown
    <3> QED
      BY <1>3, <3>1 DEF SessionOperation
  <2>5. ASSUME ViewerUpgrades(v) \/ ViewerRoomClosing(v) \/ ViewerSessionGone(v) PROVE Step
    BY <1>1, <1>2, <2>5, OwnConnection
       DEF ViewerUpgrades, ViewerRoomClosing, ViewerSessionGone
  <2> QED
    BY <1>4, <1>5, <2>1, <2>2, <2>3, <2>4, <2>5
       DEF ViewerStep, ViewerUnauthenticated, ViewerAuthenticated, ViewerRejected,
           ViewerOverLimit, ViewerEntersRoom, ViewerRoomFull, ViewerUpgradeFails,
           ViewerAttachesToRoom, ViewerStartsWriter, ViewerLeavesRoom
<1>6. ASSUME NEW v \in Viewers, WriterStep(v) \/ WriteEnds(v)
      PROVE  Step
  <2>1. ASSUME WriterExpires(v) PROVE Step
    <3>1. sessionOf[v] \in Sessions /\ RevokeOne(v, sessionOf[v]) /\ UNCHANGED clock
      BY <2>1 DEF WriterExpires, WriterGoes, SessionKnown
    <3> QED
      BY <1>3, <3>1 DEF SessionOperation
  <2>2. ASSUME WriterTakes(v) PROVE Step
    <3>1. CASE writing' = writing \cup {v}
      BY <1>1, <1>2, <2>2, <3>1, OwnConnection DEF WriterTakes
    <3>2. CASE writing' = writing
      BY <1>4, <2>2, <3>2 DEF WriterTakes, socketVars
    <3> QED
      BY <2>2, <3>1, <3>2 DEF WriterTakes
  <2>3. ASSUME WriteEnds(v) PROVE Step
    BY <1>1, <1>2, <2>3, OwnConnection DEF WriteEnds, WriterWrites, WriterFails
  <2> QED
    BY <1>4, <1>6, <2>1, <2>2, <2>3 DEF WriterStep, WriterStops, WriterExpired
<1>7. ASSUME NEW p \in Producers, ProducerStep(p)
      PROVE  Step
  BY <1>1, <1>2, <1>4, <1>7, OwnConnection
     DEF ProducerStep, ProducerClaims, ProducerConflict, ProducerUpgrades,
         ProducerUpgradeFails, ProducerAttaches, ProducerRoomClosing, ProducerPublishes,
         ProducerOffers, ProducerOffered, ProducerReleases
<1>8. ASSUME NEW r \in Requests, RequestStep(r)
      PROVE  Step
  <2>1. ASSUME NEW s \in Sessions, NEW old \in Sessions, LoginCommits(r, s, old) PROVE Step
    <3>1. loginAt[r] \in 0 .. clock
      BY DEF ReadingsArePast, RoomTypeOK, ClockTypeOK
    <3> QED
      BY <1>3, <2>1, <3>1 DEF LoginCommits, SessionOperation
  <2> QED
    BY <1>3, <1>4, <1>8, <2>1
       DEF RequestStep, LoginRejected, LoginRevokesReplaced, RequestDone, SessionOperation
<1>9. ASSUME JanitorStep
      PROVE  Step
  <2>1. tickAt \in 0 .. clock
    BY DEF ReadingsArePast, RoomTypeOK, ClockTypeOK
  <2> QED
    BY <1>3, <1>4, <1>9, <2>1
       DEF JanitorStep, JanitorExpires, JanitorPrunes, JanitorRests, JanitorStops,
           SessionOperation
<1>10. ASSUME CloseStep
       PROVE  Step
  <2>1. RoomConns \in SUBSET Conns
    BY DEF RoomConns, RoomTypeOK
  <2> QED
    BY <1>3, <1>4, <1>10, <2>1, SocketAssumption
       DEF CloseStep, CloseStarts, CloseClearsSessions, CloseClosesRoom, CloseReturns,
           SessionOperation
<1>11. ASSUME Environment
       PROVE  Step
  BY <1>1, <1>2, <1>3, <1>4, <1>11, OwnConnection
     DEF Environment, ViewerAdmitted, ViewerSpeaks, ViewerReadFails, WriterPingFails,
         ProducerAdmitted, ProducerReads, ProducerRefused, ProducerReadFails, LoginStarts,
         LogoutRemoves, ProbeFindsInvalid, ShutdownRequested, SessionOperation
<1>12. ASSUME Tick \/ UNCHANGED vars
       PROVE  Step
  BY <1>12 DEF Tick, vars, Step, SessionNext
<1>13. ASSUME ClosingLoop
       PROVE  Step
  <2>1. SessionLoop /\ UNCHANGED clock
    BY <1>13 DEF ClosingLoop, SessionLoop, SessionTypeOK, SocketTypeOK
  <2> QED
    BY <2>1 DEF Step, SessionNext
<1> QED
  BY <1>5, <1>6, <1>7, <1>8, <1>9, <1>10, <1>11, <1>12, <1>13 DEF Next, Step
-----------------------------------------------------------------------------
(***************************************************************************)
(* The types of the handlers, and the invariant the two lemmas above ask   *)
(* for.  A step of a handler changes its own program counter and, for a    *)
(* few of them, the session it authenticated or the time it has read.      *)
(***************************************************************************)

\* The conjuncts of TypeOK that are about handlers.
HandlerTypeOK ==
  /\ ready \in BOOLEAN
  /\ phase \in Phases
  /\ vpc \in [Viewers -> ViewerPC]
  /\ sessionOf \in [Viewers -> Sessions \cup {None}]
  /\ wpc \in [Viewers -> WriterPC]
  /\ ppc \in [Producers -> ProducerPC]
  /\ readAt \in [Producers -> 0 .. MaxTime]
  /\ rpc \in [Requests -> RequestPC]
  /\ loginAt \in [Requests -> 0 .. MaxTime]
  /\ jpc \in JanitorPC
  /\ tickAt \in 0 .. MaxTime

\* What the handlers owe the room and the table, beside the types of these.
HandlerInv == HandlerTypeOK /\ ReadingsArePast /\ SessionKnown

\* Every step of a handler keeps what it owes.
LEMMA HandlerInvStep ==
  ASSUME ServerInv, [Next]_vars
  PROVE  HandlerInv'
<1> /\ HandlerInv /\ clock \in 0 .. MaxTime /\ MaxTime \in Nat
    /\ clock \in 0 .. clock /\ tickAt \in 0 .. clock
  BY MaxTimeAssumption
     DEF ServerInv, TypeOK, RoomTypeOK, ClockTypeOK, HandlerInv, HandlerTypeOK, ReadingsArePast
<1> USE DEF HandlerInv, HandlerTypeOK, handlerVars, processVars
<1>1. ASSUME NEW v \in Viewers, NEW to \in ViewerPC, UNCHANGED <<clock, viewerRest, processVars>>,
             vpc' = [vpc EXCEPT ![v] = to],
             \/ \E s \in Sessions : sessionOf' = [sessionOf EXCEPT ![v] = s]
             \/ /\ UNCHANGED sessionOf
                /\ \/ vpc[v] \notin {"idle", "admitted", "rejecting", "done"}
                   \/ to \in {"admitted", "rejecting", "done"}
      PROVE  HandlerInv'
  BY <1>1 DEF viewerRest, ReadingsArePast, SessionKnown
<1>2. ASSUME NEW v \in Viewers, UNCHANGED <<clock, writerRest, processVars>>,
             \/ UNCHANGED wpc
             \/ \E to \in WriterPC : wpc[v] # "off" /\ wpc' = [wpc EXCEPT ![v] = to]
      PROVE  HandlerInv'
  BY <1>2 DEF writerRest, ReadingsArePast, SessionKnown
<1>3. ASSUME NEW p \in Producers, NEW to \in ProducerPC,
             UNCHANGED <<clock, producerRest, processVars>>,
             ppc' = [ppc EXCEPT ![p] = to],
             UNCHANGED readAt \/ \E t \in 0 .. clock : readAt' = [readAt EXCEPT ![p] = t]
      PROVE  HandlerInv'
  BY <1>3 DEF producerRest, ReadingsArePast, SessionKnown
<1>4. ASSUME NEW r \in Requests, NEW to \in RequestPC,
             UNCHANGED <<clock, requestRest, processVars>>,
             rpc' = [rpc EXCEPT ![r] = to],
             UNCHANGED loginAt \/ \E t \in 0 .. clock : loginAt' = [loginAt EXCEPT ![r] = t]
      PROVE  HandlerInv'
  BY <1>4 DEF requestRest, ReadingsArePast, SessionKnown
<1>5. ASSUME UNCHANGED <<clock, handlerVars>>, ready' \in BOOLEAN, phase' \in Phases,
             jpc' \in JanitorPC, tickAt' \in 0 .. clock
      PROVE  HandlerInv'
  BY <1>5 DEF ReadingsArePast, SessionKnown
<1>6. ASSUME NEW v \in Viewers, ViewerStep(v)
      PROVE  HandlerInv'
  <2>1. ASSUME NEW s \in Sessions, ViewerAuthenticated(v, s) PROVE HandlerInv'
    BY <1>1, <2>1 DEF ViewerAuthenticated, ViewerGoes, ViewerPC
  <2>2. ASSUME ViewerStartsWriter(v) PROVE HandlerInv'
    BY <2>2 DEF ViewerStartsWriter, ViewerGoes, ViewerPC, WriterPC, ReadingsArePast, SessionKnown
  <2>3. ASSUME NEW s \in Sessions, ViewerFindsInvalid(v, s) PROVE HandlerInv'
    BY <1>1, <2>3 DEF ViewerGoes, ViewerPC, ViewerFindsInvalid
  <2>4. ASSUME ViewerEntersRoom(v) \/ ViewerRoomFull(v) \/ ViewerUpgrades(v)
                 \/ ViewerUpgradeFails(v) \/ ViewerAttachesToRoom(v) \/ ViewerRoomClosing(v)
        PROVE HandlerInv'
    BY <1>1, <2>4
       DEF ViewerGoes, ViewerPC, ViewerEntersRoom, ViewerRoomFull, ViewerUpgrades,
           ViewerUpgradeFails, ViewerAttachesToRoom, ViewerRoomClosing
  <2>5. ASSUME ViewerAttachesToSession(v) \/ ViewerSessionGone(v) \/ ViewerLeavesRoom(v)
                 \/ ViewerReleases(v)
        PROVE HandlerInv'
    BY <1>1, <2>5
       DEF ViewerGoes, ViewerPC, ViewerAttachesToSession, ViewerSessionGone, ViewerLeavesRoom,
           ViewerReleases
  <2>6. ASSUME ViewerUnauthenticated(v) \/ ViewerRejected(v) \/ ViewerReserves(v)
                 \/ ViewerOverLimit(v)
        PROVE HandlerInv'
    BY <1>1, <2>6
       DEF ViewerGoes, ViewerPC, ViewerUnauthenticated, ViewerRejected, ViewerReserves,
           ViewerOverLimit
  <2> QED
    BY <1>6, <2>1, <2>2, <2>3, <2>4, <2>5, <2>6 DEF ViewerStep
<1>7. ASSUME NEW v \in Viewers, WriterStep(v) \/ WriteEnds(v) \/ WriterPingFails(v)
      PROVE  HandlerInv'
  BY <1>2, <1>7
     DEF WriterGoes, WriterPC, WriterStep, WriterStops, WriterExpires, WriterExpired,
         WriterTakes, WriteEnds, WriterWrites, WriterFails, WriterPingFails
<1>8. ASSUME NEW v \in Viewers, ViewerAdmitted(v) \/ ViewerSpeaks(v) \/ ViewerReadFails(v)
      PROVE  HandlerInv'
  BY <1>1, <1>8 DEF ViewerGoes, ViewerPC, ViewerAdmitted, ViewerSpeaks, ViewerReadFails
<1>9. ASSUME NEW p \in Producers, ProducerStep(p)
      PROVE  HandlerInv'
  <2>1. ASSUME ProducerOffers(p) PROVE HandlerInv'
    BY <1>5, <2>1 DEF ProducerOffers, ReadingsArePast
  <2> QED
    BY <1>3, <1>9, <2>1
       DEF ProducerGoes, ProducerPC, ProducerStep, ProducerClaims, ProducerConflict,
           ProducerUpgrades, ProducerUpgradeFails, ProducerAttaches, ProducerRoomClosing,
           ProducerPublishes, ProducerOffered, ProducerReleases
<1>10. ASSUME NEW p \in Producers,
              \/ ProducerAdmitted(p) \/ ProducerReads(p) \/ ProducerRefused(p)
              \/ ProducerReadFails(p)
       PROVE  HandlerInv'
  BY <1>3, <1>10
     DEF ProducerGoes, ProducerPC, ProducerAdmitted, ProducerReads, ProducerRefused,
         ProducerReadFails
<1>11. ASSUME NEW r \in Requests, RequestStep(r)
       PROVE  HandlerInv'
  <2>1. ASSUME LoginRevokesReplaced(r) PROVE HandlerInv'
    BY <1>5, <2>1 DEF LoginRevokesReplaced, ReadingsArePast
  <2> QED
    BY <1>4, <1>11, <2>1
       DEF RequestGoes, RequestPC, RequestStep, LoginRejected, LoginCommits, RequestDone
<1>12. ASSUME NEW r \in Requests, NEW s \in Sessions,
              LogoutRemoves(r, s) \/ ProbeFindsInvalid(r, s)
       PROVE  HandlerInv'
  BY <1>4, <1>12 DEF RequestGoes, RequestPC, LogoutRemoves, ProbeFindsInvalid
<1>13. ASSUME NEW r \in Requests, LoginStarts(r)
       PROVE  HandlerInv'
  <2>1. /\ rpc' = [rpc EXCEPT ![r] = "creating"]
        /\ loginAt' = [loginAt EXCEPT ![r] = clock]
        /\ UNCHANGED <<clock, requestRest, processVars>>
    BY <1>13 DEF RequestGoes, LoginStarts
  <2> QED
    BY <1>4, <2>1 DEF RequestPC
<1>14. ASSUME JanitorStep
       PROVE  HandlerInv'
  BY <1>5, <1>14
     DEF JanitorGoes, JanitorPC, JanitorStep, JanitorExpires, JanitorPrunes, JanitorRests,
         JanitorStops, ReadingsArePast
<1>15. ASSUME CloseStep \/ ShutdownRequested
       PROVE  HandlerInv'
  <2>1. phase' \in Phases
    BY <1>15
       DEF PhaseGoes, Phases, CloseStep, CloseStarts, CloseClearsSessions, CloseClosesRoom,
           CloseReturns, ShutdownRequested
  <2>2. ready' \in BOOLEAN /\ UNCHANGED <<clock, handlerVars, jpc, tickAt>>
    BY <1>15
       DEF CloseStep, CloseStarts, CloseClearsSessions, CloseClosesRoom, CloseReturns,
           ShutdownRequested
  <2> QED
    BY <1>5, <2>1, <2>2
<1>16. ASSUME ClosingLoop \/ UNCHANGED vars
       PROVE  HandlerInv'
  BY <1>5, <1>16 DEF ClosingLoop, vars, ReadingsArePast
<1>17. ASSUME Tick
       PROVE  HandlerInv'
  BY <1>17 DEF Tick, Advance, ReadingsArePast, SessionKnown
<1> QED
  BY <1>6, <1>7, <1>8, <1>9, <1>10, <1>11, <1>12, <1>13, <1>14, <1>15, <1>16, <1>17
     DEF Next, Environment

\* The invariant is inductive: a step of the relay is one of the room and of
\* the table, which keep their own types.
LEMMA ServerInvStep == ServerInv /\ [Next]_vars => ServerInv'
<1> SUFFICES ASSUME ServerInv, [Next]_vars PROVE ServerInv'
  OBVIOUS
<1>1. RoomTypeOK'
  BY ServerStepIsRoomStep, RoomTypeStep DEF ServerInv, TypeOK
<1>2. SessionTypeOK'
  BY ServerStepIsSessionStep, SessionTypeStep DEF ServerInv, TypeOK
<1>3. HandlerInv'
  BY HandlerInvStep
<1> QED
  BY <1>1, <1>2, <1>3 DEF ServerInv, TypeOK, HandlerInv, HandlerTypeOK

\* The relay starts with the types of its parts.
LEMMA ServerInvInit == Init => ServerInv
<1> SUFFICES ASSUME Init PROVE ServerInv
  OBVIOUS
<1>1. RoomTypeOK
  BY RoomTypeInit DEF Init
<1>2. SessionTypeOK
  BY SessionTypeInit DEF Init, RoomInit
<1>3. HandlerInv
  BY MaxTimeAssumption
     DEF Init, RoomInit, ClockInit, HandlerInv, HandlerTypeOK, ReadingsArePast, SessionKnown,
         Phases, ViewerPC, WriterPC, ProducerPC, RequestPC, JanitorPC
<1> QED
  BY <1>1, <1>2, <1>3 DEF ServerInv, TypeOK, HandlerInv, HandlerTypeOK

\* The types of the relay are an invariant.
THEOREM ServerTypeCorrect == SafeSpec => []TypeOK
<1>1. ServerInv => TypeOK
  BY DEF ServerInv
<1> QED
  BY <1>1, ServerInvInit, ServerInvStep, PTL DEF SafeSpec
-----------------------------------------------------------------------------
(***************************************************************************)
(* What the room and the table promise to any callers, the relay has.      *)
(***************************************************************************)

\* The relay implements its room: its handlers use it in no other way than
\* the operations of RoomSpec.
THEOREM RelayImplementsRoom == SafeSpec => RoomSpec
<1>1. Init => RoomInit
  BY DEF Init
<1> QED
  BY <1>1, ServerInvInit, ServerInvStep, ServerStepIsRoomStep, PTL DEF SafeSpec, RoomSpec

\* The relay implements its session table.
THEOREM RelayImplementsSessions == SafeSpec => SessionSpec
<1>1. Init => ClockInit /\ SocketInit /\ SessionInit
  BY DEF Init, RoomInit
<1> QED
  BY <1>1, ServerInvInit, ServerInvStep, ServerStepIsSessionStep, PTL DEF SafeSpec, SessionSpec

\* The relay delivers frames as the abstract feed does.
THEOREM RelayImplementsFeed == SafeSpec => FrameFeed
BY RelayImplementsRoom, RoomImplementsFeed, PTL

\* Whatever its clients do: queues in order, no frame missed, the slot with
\* its holder, and the room within its capacity.
THEOREM RelayRoomSafety ==
  SafeSpec => [](QueueOrder /\ NoMissedFrame /\ SlotHolder /\ ViewersWithinCapacity)
BY RelayImplementsRoom, RoomKeepsQueueOrder, RoomMissesNoFrame, RoomKeepsSlotHolder,
   RoomKeepsCapacity, PTL

\* Whatever its clients do: sessions within their capacities, no viewer of a
\* revoked session left alone, no session forgotten.
THEOREM RelaySessionSafety ==
  SafeSpec => [](SessionsWithinCapacity /\ NoOrphanViewer /\ LeavingSessionRevoked)
BY RelayImplementsSessions, SessionsKeepCapacity, NoViewerOutlivesSession,
   NoSessionForgotten, PTL
=============================================================================

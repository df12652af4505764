----------------------- MODULE RelayProperties_proofs -----------------------
(***************************************************************************)
(* Theorems about the relay that need the program counters of its          *)
(* handlers, for every number of clients, sessions, frames and ticks: what *)
(* producers and viewers do, and what Server.Close leaves.                 *)
(***************************************************************************)
EXTENDS RelayProperties, RelayServer_proofs

USE DEF roomVars, slotVars, memberVars, frameVars, queueVars

\* The steps of a producer's handler, those of its peer included.
ProducerMoves ==
  \E p \in Producers :
    \/ ProducerStep(p) \/ ProducerAdmitted(p) \/ ProducerReads(p) \/ ProducerRefused(p)
    \/ ProducerReadFails(p)

\* The steps of a viewer's handler, those of its peer included.
ViewerMoves ==
  \E v \in Viewers :
    ViewerStep(v) \/ ViewerAdmitted(v) \/ ViewerSpeaks(v) \/ ViewerReadFails(v)

\* The other steps of a viewer and its writer leave the producers alone.
LEMMA ViewersLeaveProducers ==
  ASSUME NEW v \in Viewers,
         \/ ViewerStep(v) \/ ViewerAdmitted(v) \/ ViewerSpeaks(v) \/ ViewerReadFails(v)
         \/ WriterStep(v) \/ WriteEnds(v) \/ WriterPingFails(v)
  PROVE  UNCHANGED <<slotVars, ppc, readAt, latest, frameGeneration, clock>>
<1>1. ASSUME ViewerStep(v)
      PROVE  UNCHANGED <<slotVars, ppc, readAt, latest, frameGeneration, clock>>
  BY <1>1
     DEF viewerRest, ViewerStep, ViewerUnauthenticated, ViewerAuthenticated,
         ViewerFindsInvalid, ViewerRejected, ViewerReserves, ViewerOverLimit, ViewerEntersRoom,
         ViewerRoomFull, ViewerUpgrades, ViewerUpgradeFails, ViewerAttachesToRoom,
         ViewerRoomClosing, ViewerAttachesToSession, ViewerSessionGone, ViewerStartsWriter,
         ViewerLeavesRoom, ViewerReleases, AddViewer, AttachViewer, OfferLatest, RemoveViewer
<1>2. ASSUME ViewerAdmitted(v) \/ ViewerSpeaks(v) \/ ViewerReadFails(v)
      PROVE  UNCHANGED <<slotVars, ppc, readAt, latest, frameGeneration, clock>>
  BY <1>2 DEF viewerRest, ViewerAdmitted, ViewerSpeaks, ViewerReadFails
<1>3. ASSUME WriterStep(v) \/ WriteEnds(v) \/ WriterPingFails(v)
      PROVE  UNCHANGED <<slotVars, ppc, readAt, latest, frameGeneration, clock>>
  BY <1>3
     DEF writerRest, WriterStep, WriterStops, WriterExpires, WriterExpired, WriterTakes,
         WriteEnds, WriterWrites, WriterFails, WriterPingFails, Take
<1> QED
  BY <1>1, <1>2, <1>3

\* Nobody but a producer's handler touches the slot, its program counter or
\* its reading; the latest frame may expire and time may pass meanwhile.
LEMMA OthersLeaveProducers ==
  ASSUME [Next]_vars, ~ProducerMoves
  PROVE  /\ UNCHANGED <<slotVars, ppc, readAt, frameGeneration>>
         /\ latest' \in {latest, NoFrame}
         /\ clock' \in {clock, clock + 1}
<1> DEFINE Left == /\ UNCHANGED <<slotVars, ppc, readAt, frameGeneration>>
                   /\ latest' \in {latest, NoFrame}
                   /\ clock' \in {clock, clock + 1}
<1>1. ASSUME NEW r \in Requests, RequestStep(r) \/ LoginStarts(r) PROVE Left
  BY <1>1
     DEF requestRest, handlerVars, RequestStep, LoginRejected, LoginCommits,
         LoginRevokesReplaced, RequestDone, LoginStarts
<1>2. ASSUME NEW r \in Requests, NEW s \in Sessions, LogoutRemoves(r, s) \/ ProbeFindsInvalid(r, s)
      PROVE  Left
  BY <1>2 DEF requestRest, LogoutRemoves, ProbeFindsInvalid
<1>3. ASSUME JanitorStep \/ CloseStep \/ ShutdownRequested PROVE Left
  BY <1>3
     DEF handlerVars, JanitorStep, JanitorExpires, JanitorPrunes, JanitorRests,
         JanitorStops, CloseStep, CloseStarts, CloseClearsSessions, CloseClosesRoom,
         CloseReturns, ShutdownRequested, Expire, CloseRoom
<1>4. ASSUME Tick \/ ClosingLoop \/ UNCHANGED vars PROVE Left
  BY <1>4 DEF Tick, Advance, ClosingLoop, vars, handlerVars
<1>5. ASSUME UNCHANGED <<slotVars, ppc, readAt, latest, frameGeneration, clock>> PROVE Left
  BY <1>5
<1> HIDE DEF Left
<1>6. Left
  BY <1>1, <1>2, <1>3, <1>4, <1>5, ViewersLeaveProducers DEF Next, Environment, ProducerMoves
<1> QED
  BY <1>6 DEF Left
-----------------------------------------------------------------------------
(***************************************************************************)
(* The producer slot.                                                      *)
(***************************************************************************)

\* OneProducer with what its induction needs: the holder of the slot is the
\* one whose claim is the current one.
SlotInv ==
  /\ OneProducer
  /\ \A p \in Producers : HoldsSlot(p) => claim[p] # 0 /\ claim[p] = producerGeneration

\* A claim is made when nobody holds the slot, a release by who holds it.
LEMMA SlotInvStep ==
  ASSUME TypeOK, SlotInv, [Next]_vars
  PROVE  SlotInv'
<1> USE DEF TypeOK, RoomTypeOK
<1>1. ASSUME NEW p \in Producers, ClaimProducer(p), ProducerGoes(p, "admitted", "claimed")
      PROVE  SlotInv'
  <2>1. /\ \A q \in Producers : ~HoldsSlot(q)
        /\ producerActive' = TRUE
        /\ claim'[p] # 0 /\ claim'[p] = producerGeneration'
    BY <1>1 DEF ClaimProducer, SlotFree, SlotInv, OneProducer
  <2>2. \A q \in Producers : HoldsSlot(q)' <=> q = p
    BY <1>1, <2>1 DEF ProducerGoes, HoldsSlot
  <2> QED
    BY <2>1, <2>2 DEF SlotInv, OneProducer
<1>2. ASSUME NEW p \in Producers, ReleaseProducer(p), ProducerGoes(p, "releasing", "done")
      PROVE  SlotInv'
  <2>1. HoldsSlot(p)
    BY <1>2 DEF ProducerGoes, HoldsSlot
  <2>2. producerActive' = FALSE
    BY <1>2, <2>1 DEF ReleaseProducer, SlotInv
  <2>3. \A q \in Producers : ~HoldsSlot(q)'
    BY <1>2, <2>1 DEF ProducerGoes, HoldsSlot, SlotInv, OneProducer
  <2> QED
    BY <2>2, <2>3 DEF SlotInv, OneProducer
<1>3. ASSUME \A p \in Producers : HoldsSlot(p)' <=> HoldsSlot(p),
             UNCHANGED <<producerActive, producerGeneration, claim>>
      PROVE  SlotInv'
  BY <1>3 DEF SlotInv, OneProducer
<1>4. ASSUME NEW p \in Producers, ProducerStep(p)
      PROVE  SlotInv'
  <2>1. ASSUME \/ ProducerConflict(p) \/ ProducerUpgrades(p) \/ ProducerUpgradeFails(p)
               \/ ProducerAttaches(p) \/ ProducerRoomClosing(p) \/ ProducerPublishes(p)
               \/ ProducerOffered(p)
        PROVE  SlotInv'
    <3>1. \A q \in Producers : HoldsSlot(q)' <=> HoldsSlot(q)
      BY <2>1
         DEF HoldsSlot, ProducerGoes, ProducerConflict, ProducerUpgrades, ProducerUpgradeFails,
             ProducerAttaches, ProducerRoomClosing, ProducerPublishes, ProducerOffered
    <3>2. UNCHANGED <<producerActive, producerGeneration, claim>>
      BY <2>1
         DEF ProducerConflict, ProducerUpgrades, ProducerUpgradeFails, ProducerAttaches,
             ProducerRoomClosing, ProducerPublishes, ProducerOffered, AttachProducer, Publish
    <3> QED
      BY <1>3, <3>1, <3>2
  <2>2. ASSUME ProducerOffers(p) PROVE SlotInv'
    BY <1>3, <2>2 DEF ProducerOffers, PublishOffer, handlerVars, HoldsSlot
  <2> QED
    BY <1>1, <1>2, <1>4, <2>1, <2>2 DEF ProducerStep, ProducerClaims, ProducerReleases
<1>5. ASSUME NEW p \in Producers,
             \/ ProducerAdmitted(p) \/ ProducerReads(p) \/ ProducerRefused(p)
             \/ ProducerReadFails(p)
      PROVE  SlotInv'
  <2>1. \A q \in Producers : HoldsSlot(q)' <=> HoldsSlot(q)
    BY <1>5
       DEF HoldsSlot, ProducerGoes, ProducerAdmitted, ProducerReads, ProducerRefused,
           ProducerReadFails
  <2>2. UNCHANGED <<producerActive, producerGeneration, claim>>
    BY <1>5 DEF ProducerAdmitted, ProducerReads, ProducerRefused, ProducerReadFails
  <2> QED
    BY <1>3, <2>1, <2>2
<1>6. ASSUME ~ProducerMoves
      PROVE  SlotInv'
  BY <1>3, <1>6, OthersLeaveProducers DEF HoldsSlot
<1> QED
  BY <1>4, <1>5, <1>6 DEF ProducerMoves

\* The slot invariant holds at the start.
LEMMA SlotInvInit == Init => SlotInv
BY DEF Init, RoomInit, SlotInv, OneProducer, HoldsSlot

\* The slot is taken exactly while one handler holds it, and by one only.
THEOREM RelayHasOneProducer == SafeSpec => []OneProducer
<1>1. SlotInv => OneProducer
  BY DEF SlotInv
<1> QED
  BY <1>1, SlotInvInit, SlotInvStep, ServerTypeCorrect, PTL DEF SafeSpec
-----------------------------------------------------------------------------
(***************************************************************************)
(* The order of publication.  A producer reads the clock before it         *)
(* publishes; that no other frame can come between is what the slot is     *)
(* for.                                                                    *)
(***************************************************************************)

\* No reading a producer is about to publish is older than the latest frame.
ReadInOrder ==
  /\ latest # NoFrame => latest.publishedAt <= clock
  /\ \A p \in Producers :
       ppc[p] = "publishing" /\ latest # NoFrame => latest.publishedAt <= readAt[p]

\* What the order of publication rests on.
OrderInv == ServerInv /\ SlotInv /\ Numbered /\ ReadInOrder

\* A publication is later than the frame it replaces, and read later.
LEMMA PublishingInOrder ==
  ASSUME OrderInv, [Next]_vars, NEW p \in Producers, ProducerPublishes(p)
  PROVE  /\ ReadInOrder'
         /\ latest # NoFrame => /\ latest'.generation > latest.generation
                                /\ latest'.publishedAt >= latest.publishedAt
<1> USE DEF OrderInv, ServerInv, TypeOK, RoomTypeOK, ClockTypeOK, Frame
<1>1. /\ latest' = [generation |-> frameGeneration + 1, publishedAt |-> readAt[p]]
      /\ ppc[p] = "publishing"
      /\ ppc' = [ppc EXCEPT ![p] = "offering"]
      /\ UNCHANGED clock
  BY DEF ProducerPublishes, Publish, ProducerGoes
<1>2. readAt[p] \in 0 .. clock
  BY DEF ReadingsArePast
<1>3. \A q \in Producers : ppc'[q] # "publishing"
  BY <1>1 DEF SlotInv, OneProducer, HoldsSlot
<1>4. ReadInOrder'
  BY <1>1, <1>2, <1>3 DEF ReadInOrder
<1>5. ASSUME latest # NoFrame
      PROVE  latest'.generation > latest.generation /\ latest'.publishedAt >= latest.publishedAt
  BY <1>1, <1>2, <1>5, RoomAssumption DEF ReadInOrder, Numbered
<1> QED
  BY <1>4, <1>5

\* Every other step leaves the latest frame, or takes it away.
LEMMA NothingElsePublishes ==
  ASSUME OrderInv, [Next]_vars, \A p \in Producers : ~ProducerPublishes(p)
  PROVE  ReadInOrder' /\ latest' \in {latest, NoFrame}
<1> USE MaxTimeAssumption DEF OrderInv, ServerInv, TypeOK, RoomTypeOK, ClockTypeOK, Frame
<1>1. CASE ~ProducerMoves
  <2>1. /\ UNCHANGED <<ppc, readAt>>
        /\ latest' \in {latest, NoFrame}
        /\ clock' \in {clock, clock + 1}
    BY <1>1, OthersLeaveProducers
  <2> QED
    BY <2>1 DEF ReadInOrder
<1>2. ASSUME NEW p \in Producers, ProducerReads(p)
      PROVE  ReadInOrder' /\ latest' \in {latest, NoFrame}
  <2>1. /\ ppc' = [ppc EXCEPT ![p] = "publishing"]
        /\ readAt' = [readAt EXCEPT ![p] = clock]
        /\ UNCHANGED <<latest, clock>>
    BY <1>2 DEF ProducerReads, ProducerGoes
  <2> QED
    BY <2>1 DEF ReadInOrder
<1>3. ASSUME NEW p \in Producers,
             ProducerStep(p) \/ ProducerAdmitted(p) \/ ProducerRefused(p) \/ ProducerReadFails(p)
      PROVE  ReadInOrder' /\ latest' \in {latest, NoFrame}
  <2>1. ppc' = ppc \/ \E to \in ProducerPC \ {"publishing"} : ppc' = [ppc EXCEPT ![p] = to]
    BY <1>3
       DEF ProducerGoes, ProducerPC, handlerVars, ProducerStep, ProducerClaims,
           ProducerConflict, ProducerUpgrades, ProducerUpgradeFails, ProducerAttaches,
           ProducerRoomClosing, ProducerPublishes, ProducerOffers, ProducerOffered,
           ProducerReleases, ProducerAdmitted, ProducerRefused, ProducerReadFails
  <2>2. UNCHANGED <<readAt, latest, clock>>
    BY <1>3
       DEF handlerVars, ProducerStep, ProducerClaims, ProducerConflict, ProducerUpgrades,
           ProducerUpgradeFails, ProducerAttaches, ProducerRoomClosing, ProducerOffers,
           ProducerOffered, ProducerReleases, ProducerAdmitted, ProducerRefused,
           ProducerReadFails, ClaimProducer, AttachProducer, ReleaseProducer, PublishOffer
  <2> QED
    BY <2>1, <2>2 DEF ReadInOrder
<1> QED
  BY <1>1, <1>2, <1>3 DEF ProducerMoves

\* OrderInv is inductive.
LEMMA OrderInvStep == OrderInv /\ [Next]_vars => OrderInv'
<1> SUFFICES ASSUME OrderInv, [Next]_vars PROVE OrderInv'
  OBVIOUS
<1>1. ServerInv'
  BY ServerInvStep DEF OrderInv
<1>2. SlotInv'
  BY SlotInvStep DEF OrderInv, ServerInv
<1>3. Numbered'
  BY ServerStepIsRoomStep, NumberedStep DEF OrderInv, ServerInv, TypeOK
<1>4. ReadInOrder'
  BY PublishingInOrder, NothingElsePublishes
<1> QED
  BY <1>1, <1>2, <1>3, <1>4 DEF OrderInv

\* The relay never goes back to an older snapshot, across a change of
\* producer either.
THEOREM RelayPublishesInOrder == SafeSpec => PublishedInOrder
<1>1. Init => OrderInv
  <2>1. Init => RoomInit
    BY DEF Init
  <2>2. Init => ReadInOrder
    BY DEF Init, RoomInit, ReadInOrder
  <2> QED
    BY <2>1, <2>2, ServerInvInit, SlotInvInit, NumberedInit DEF OrderInv
<1> DEFINE InOrder ==
             latest # latest' /\ latest # NoFrame /\ latest' # NoFrame =>
               /\ latest'.generation > latest.generation
               /\ latest'.publishedAt >= latest.publishedAt
<1>2. ASSUME OrderInv, [Next]_vars PROVE [InOrder]_vars
  BY <1>2, PublishingInOrder, NothingElsePublishes
<1> QED
  BY <1>1, <1>2, OrderInvStep, PTL DEF SafeSpec, PublishedInOrder
-----------------------------------------------------------------------------
(***************************************************************************)
(* Places: reservations of a session and registrations of a room.          *)
(***************************************************************************)

USE DEF socketVars, sessionVars, tableVars, lifeVars

\* Nobody but a viewer's handler takes or gives back a place.
LEMMA OthersLeaveViewers ==
  ASSUME [Next]_vars, ~ViewerMoves
  PROVE  UNCHANGED <<vpc, sessionOf, reservations, viewers>>
<1> DEFINE Left == UNCHANGED <<vpc, sessionOf, reservations, viewers>>
<1>1. ASSUME NEW v \in Viewers, WriterStep(v) \/ WriteEnds(v) \/ WriterPingFails(v) PROVE Left
  BY <1>1
     DEF writerRest, WriterStep, WriterStops, WriterExpires, WriterExpired, WriterTakes,
         WriteEnds, WriterWrites, WriterFails, WriterPingFails, Take, RevokeOne
<1>2. ASSUME NEW p \in Producers, ProducerStep(p) PROVE Left
  BY <1>2
     DEF producerRest, handlerVars, ProducerStep, ProducerClaims, ProducerConflict,
         ProducerUpgrades, ProducerUpgradeFails, ProducerAttaches, ProducerRoomClosing,
         ProducerPublishes, ProducerOffers, ProducerOffered, ProducerReleases, ClaimProducer,
         AttachProducer, ReleaseProducer, Publish, PublishOffer
<1>3. ASSUME NEW p \in Producers,
             \/ ProducerAdmitted(p) \/ ProducerReads(p) \/ ProducerRefused(p)
             \/ ProducerReadFails(p)
      PROVE  Left
  BY <1>3 DEF producerRest, ProducerAdmitted, ProducerReads, ProducerRefused, ProducerReadFails
<1>4. ASSUME NEW r \in Requests, RequestStep(r) \/ LoginStarts(r) PROVE Left
  BY <1>4
     DEF requestRest, handlerVars, RequestStep, LoginRejected, LoginCommits, Login,
         LoginRevokesReplaced, RevokeReplaced, RequestDone, LoginStarts
<1>5. ASSUME NEW r \in Requests, NEW s \in Sessions, LogoutRemoves(r, s) \/ ProbeFindsInvalid(r, s)
      PROVE  Left
  BY <1>5 DEF requestRest, LogoutRemoves, ProbeFindsInvalid, TakeOut
<1>6. ASSUME JanitorStep \/ CloseStep \/ ShutdownRequested PROVE Left
  BY <1>6
     DEF handlerVars, JanitorStep, JanitorExpires, JanitorPrunes, JanitorRests,
         JanitorStops, CloseStep, CloseStarts, CloseClearsSessions, CloseClosesRoom,
         CloseReturns, ShutdownRequested, Expire, CloseRoom, Prune, ClearTable, CloseBatch
<1>7. ASSUME Tick \/ ClosingLoop \/ UNCHANGED vars PROVE Left
  BY <1>7 DEF Tick, ClosingLoop, vars, handlerVars, RevokeNext
<1> HIDE DEF Left
<1>8. Left
  BY <1>1, <1>2, <1>3, <1>4, <1>5, <1>6, <1>7 DEF Next, Environment, ViewerMoves
<1> QED
  BY <1>8 DEF Left

\* Each step of a viewer's handler takes or gives back exactly what its
\* program counter says it takes or gives back.
LEMMA PlacesHeldStep ==
  ASSUME ServerInv, PlacesHeld, [Next]_vars
  PROVE  PlacesHeld'
<1> USE DEF ServerInv, TypeOK, RoomTypeOK, SessionTypeOK
<1>1. ASSUME UNCHANGED <<sessionOf, reservations, viewers>>,
             \A v \in Viewers : /\ HoldsReservation(v)' <=> HoldsReservation(v)
                                /\ HoldsRoomPlace(v)' <=> HoldsRoomPlace(v)
      PROVE  PlacesHeld'
  BY <1>1 DEF PlacesHeld
<1>2. ASSUME NEW v \in Viewers, ViewerReserves(v) PROVE PlacesHeld'
  <2>1. /\ vpc[v] = "authenticated" /\ vpc' = [vpc EXCEPT ![v] = "reserved"]
        /\ sessionOf[v] \in Sessions
        /\ reservations' = [reservations EXCEPT ![sessionOf[v]] = @ \cup {v}]
        /\ UNCHANGED <<sessionOf, viewers>>
    BY <1>2 DEF ViewerReserves, ViewerGoes, Reserve, SessionKnown
  <2> QED
    BY <2>1 DEF PlacesHeld, HoldsReservation, HoldsRoomPlace
<1>3. ASSUME NEW v \in Viewers, ViewerReleases(v) PROVE PlacesHeld'
  <2>1. /\ vpc[v] = "releasing" /\ vpc' = [vpc EXCEPT ![v] = "done"]
        /\ sessionOf[v] \in Sessions
        /\ reservations' = [reservations EXCEPT ![sessionOf[v]] = @ \ {v}]
        /\ UNCHANGED <<sessionOf, viewers>>
    BY <1>3 DEF ViewerReleases, ViewerGoes, Release, SessionKnown
  <2> QED
    BY <2>1 DEF PlacesHeld, HoldsReservation, HoldsRoomPlace
<1>4. ASSUME NEW v \in Viewers, ViewerEntersRoom(v) PROVE PlacesHeld'
  <2>1. /\ vpc[v] = "reserved" /\ vpc' = [vpc EXCEPT ![v] = "added"]
        /\ viewers' = viewers \cup {v}
        /\ UNCHANGED <<sessionOf, reservations>>
    BY <1>4 DEF ViewerEntersRoom, ViewerGoes, AddViewer
  <2> QED
    BY <2>1 DEF PlacesHeld, HoldsReservation, HoldsRoomPlace
<1>5. ASSUME NEW v \in Viewers, ViewerLeavesRoom(v) PROVE PlacesHeld'
  <2>1. /\ vpc[v] = "leaving" /\ vpc' = [vpc EXCEPT ![v] = "releasing"]
        /\ viewers' = viewers \ {v}
        /\ UNCHANGED <<sessionOf, reservations>>
    BY <1>5 DEF ViewerLeavesRoom, ViewerGoes, RemoveViewer
  <2> QED
    BY <2>1 DEF PlacesHeld, HoldsReservation, HoldsRoomPlace
<1>6. ASSUME NEW v \in Viewers, NEW s \in Sessions, ViewerAuthenticated(v, s) PROVE PlacesHeld'
  <2>1. /\ vpc[v] = "admitted" /\ vpc' = [vpc EXCEPT ![v] = "authenticated"]
        /\ sessionOf' = [sessionOf EXCEPT ![v] = s]
        /\ UNCHANGED <<reservations, viewers>>
    BY <1>6 DEF ViewerAuthenticated, ViewerGoes
  <2>2. \A w \in Viewers :
          /\ HoldsReservation(w)' <=> HoldsReservation(w)
          /\ HoldsReservation(w) => sessionOf'[w] = sessionOf[w]
          /\ HoldsRoomPlace(w)' <=> HoldsRoomPlace(w)
    BY <2>1 DEF HoldsReservation, HoldsRoomPlace
  <2> QED
    BY <2>1, <2>2 DEF PlacesHeld
<1>7. ASSUME NEW v \in Viewers,
             \/ ViewerUnauthenticated(v) \/ ViewerRejected(v) \/ ViewerOverLimit(v)
             \/ ViewerRoomFull(v) \/ ViewerUpgrades(v) \/ ViewerUpgradeFails(v)
             \/ ViewerAttachesToRoom(v) \/ ViewerRoomClosing(v)
             \/ ViewerAttachesToSession(v) \/ ViewerSessionGone(v) \/ ViewerStartsWriter(v)
             \/ \E s \in Sessions : ViewerFindsInvalid(v, s)
             \/ ViewerAdmitted(v) \/ ViewerSpeaks(v) \/ ViewerReadFails(v)
      PROVE  PlacesHeld'
  <2>1. UNCHANGED <<sessionOf, reservations, viewers>>
    BY <1>7
       DEF viewerRest, ViewerUnauthenticated, ViewerRejected, ViewerOverLimit, ViewerRoomFull,
           ViewerUpgrades, ViewerUpgradeFails, ViewerAttachesToRoom, ViewerRoomClosing,
           ViewerAttachesToSession, ViewerSessionGone, ViewerStartsWriter, ViewerFindsInvalid,
           ViewerAdmitted, ViewerSpeaks, ViewerReadFails, AttachViewer, Attach, OfferLatest,
           TakeOut
  <2>2. \A w \in Viewers : /\ HoldsReservation(w)' <=> HoldsReservation(w)
                           /\ HoldsRoomPlace(w)' <=> HoldsRoomPlace(w)
    BY <1>7
       DEF HoldsReservation, HoldsRoomPlace, ViewerGoes, ViewerUnauthenticated, ViewerRejected,
           ViewerOverLimit, ViewerRoomFull, ViewerUpgrades, ViewerUpgradeFails,
           ViewerAttachesToRoom, ViewerRoomClosing, ViewerAttachesToSession, ViewerSessionGone,
           ViewerStartsWriter, ViewerFindsInvalid, ViewerAdmitted, ViewerSpeaks, ViewerReadFails
  <2> QED
    BY <1>1, <2>1, <2>2
<1>8. CASE ~ViewerMoves
  BY <1>1, <1>8, OthersLeaveViewers DEF HoldsReservation, HoldsRoomPlace
<1> QED
  BY <1>2, <1>3, <1>4, <1>5, <1>6, <1>7, <1>8 DEF ViewerMoves, ViewerStep

\* No place leaks and none is given back early, on any error path.
THEOREM RelayKeepsPlaces == SafeSpec => []PlacesHeld
<1>1. Init => PlacesHeld
  BY DEF Init, RoomInit, SessionInit, PlacesHeld, HoldsReservation, HoldsRoomPlace
<1> QED
  BY <1>1, PlacesHeldStep, ServerInvInit, ServerInvStep, PTL DEF SafeSpec
-----------------------------------------------------------------------------
(***************************************************************************)
(* Logins: what they replace, and what a shutdown leaves of them.          *)
(***************************************************************************)

\* The steps of handleSession.
RequestMoves ==
  \E r \in Requests :
    \/ RequestStep(r) \/ LoginStarts(r)
    \/ \E s \in Sessions : LogoutRemoves(r, s) \/ ProbeFindsInvalid(r, s)

\* The steps of serve and Server.Close.
ShutdownMoves == ShutdownRequested \/ CloseStep

\* Nobody else logs in, replaces a session or stops the server; others only
\* take sessions out of the table.
LEMMA OthersLeaveRequests ==
  ASSUME ServerInv, [Next]_vars, ~RequestMoves, ~ShutdownMoves
  PROVE  UNCHANGED <<rpc, replaced, ready, phase>> /\ sessions' \subseteq sessions
<1> DEFINE Left == UNCHANGED <<rpc, replaced, ready, phase>> /\ sessions' \subseteq sessions
<1>1. ASSUME NEW v \in Viewers,
             \/ ViewerStep(v) \/ ViewerAdmitted(v) \/ ViewerSpeaks(v) \/ ViewerReadFails(v)
      PROVE  Left
  <2>1. ASSUME ViewerStep(v) PROVE Left
    BY <2>1
       DEF viewerRest, processVars, ViewerStep, ViewerUnauthenticated, ViewerAuthenticated,
           ViewerFindsInvalid, ViewerRejected, ViewerReserves, ViewerOverLimit,
           ViewerEntersRoom, ViewerRoomFull, ViewerUpgrades, ViewerUpgradeFails,
           ViewerAttachesToRoom, ViewerRoomClosing, ViewerAttachesToSession,
           ViewerSessionGone, ViewerStartsWriter, ViewerLeavesRoom, ViewerReleases, TakeOut,
           Reserve, Attach, Release
  <2> QED
    BY <1>1, <2>1 DEF viewerRest, processVars, ViewerAdmitted, ViewerSpeaks, ViewerReadFails
<1>2. ASSUME NEW v \in Viewers, WriterStep(v) \/ WriteEnds(v) \/ WriterPingFails(v) PROVE Left
  BY <1>2
     DEF writerRest, processVars, WriterStep, WriterStops, WriterExpires, WriterExpired,
         WriterTakes, WriteEnds, WriterWrites, WriterFails, WriterPingFails, RevokeOne
<1>3. ASSUME NEW p \in Producers, ProducerStep(p) PROVE Left
  BY <1>3
     DEF producerRest, processVars, handlerVars, ProducerStep, ProducerClaims,
         ProducerConflict, ProducerUpgrades, ProducerUpgradeFails, ProducerAttaches,
         ProducerRoomClosing, ProducerPublishes, ProducerOffers, ProducerOffered,
         ProducerReleases
<1>4. ASSUME NEW p \in Producers,
             \/ ProducerAdmitted(p) \/ ProducerReads(p) \/ ProducerRefused(p)
             \/ ProducerReadFails(p)
      PROVE  Left
  BY <1>4
     DEF producerRest, processVars, ProducerAdmitted, ProducerReads, ProducerRefused,
         ProducerReadFails
<1>5. ASSUME JanitorStep PROVE Left
  BY <1>5
     DEF handlerVars, JanitorStep, JanitorExpires, JanitorPrunes, JanitorRests,
         JanitorStops, Prune
<1>6. ASSUME Tick \/ ClosingLoop \/ UNCHANGED vars PROVE Left
  BY <1>6 DEF Tick, ClosingLoop, vars, handlerVars, processVars, RevokeNext
<1> HIDE DEF Left
<1>7. Left
  BY <1>1, <1>2, <1>3, <1>4, <1>5, <1>6 DEF Next, Environment, RequestMoves, ShutdownMoves
<1> QED
  BY <1>7 DEF Left

\* A session waits to be replaced only while its request is revoking.
ReplacedWhileRevoking ==
  \A a \in Actors : replaced[a] # {} => a \in Requests /\ rpc[a] = "revoking"

\* The table fits, and nothing waits to be replaced but where it may.
ReplacementInv == ServerInv /\ SessionCapacity /\ ReplacedWhileRevoking

\* What a login does to the table: what it replaces makes room for it.
LEMMA LoginReplaces ==
  ASSUME ReplacementInv, NEW r \in Requests, NEW s \in Sessions, NEW old \in Sessions,
         LoginCommits(r, s, old)
  PROVE  /\ ReplacedWhileRevoking'
         /\ \A q \in Requests :
              rpc[q] = "creating" /\ replaced'[q] # {} => \E t \in sessions' : ~Created(t)
<1> USE ServerAssumption, SessionAssumption
    DEF ReplacementInv, ServerInv, TypeOK, SessionTypeOK, SessionCapacity, SessionsWithinCapacity
<1> DEFINE former == ({old} \cap sessions) \ Stale(loginAt[r])
           kept == (sessions \ Stale(loginAt[r])) \ former
<1>1. /\ replaced' = [replaced EXCEPT ![r] = former]
      /\ rpc' = [rpc EXCEPT ![r] = "revoking"]
      /\ ~Created(s)
      /\ IF Cardinality(kept) >= MaxSessions THEN sessions' = kept ELSE sessions' = kept \cup {s}
  BY DEF LoginCommits, Login, RequestGoes
<1>2. ReplacedWhileRevoking'
  BY <1>1 DEF ReplacedWhileRevoking
<1>3. ASSUME former # {} PROVE s \in sessions'
  <2>1. PICK t \in sessions : t \notin kept
    BY <1>3
  <2>2. kept \in SUBSET (sessions \ {t})
    BY <2>1
  <2>3. /\ IsFiniteSet(sessions \ {t}) /\ Cardinality(sessions \ {t}) = Cardinality(sessions) - 1
        /\ Cardinality(sessions) \in Nat
    BY <2>1, FS_RemoveElement, FS_CardinalityType
  <2>4. Cardinality(kept) \in Nat /\ Cardinality(kept) <= Cardinality(sessions \ {t})
    BY <2>2, <2>3, PartOfFiniteSet
  <2>5. ~(Cardinality(kept) >= MaxSessions)
    BY <2>3, <2>4
  <2> QED
    BY <1>1, <2>5
<1>4. ASSUME NEW q \in Requests, rpc[q] = "creating", replaced'[q] # {}
      PROVE  s \in sessions'
  <2>1. q \in Actors /\ replaced[q] = {}
    BY <1>4 DEF ReplacedWhileRevoking
  <2> QED
    BY <1>1, <1>3, <1>4, <2>1
<1> QED
  BY <1>1, <1>2, <1>4

\* No other step puts a session aside to be replaced.
LEMMA OnlyLoginReplaces ==
  ASSUME ReplacementInv, [Next]_vars,
         \A r \in Requests : \A s, old \in Sessions : ~LoginCommits(r, s, old)
  PROVE  /\ ReplacedWhileRevoking'
         /\ \A q \in Requests : rpc[q] = "creating" => replaced'[q] = {}
<1> USE ServerAssumption DEF ReplacementInv, ServerInv, TypeOK, SessionTypeOK
<1> DEFINE Kept == /\ ReplacedWhileRevoking'
                   /\ \A q \in Requests : rpc[q] = "creating" => replaced'[q] = {}
<1>1. ASSUME UNCHANGED <<rpc, replaced>> PROVE Kept
  BY <1>1 DEF ReplacedWhileRevoking
<1>2. ASSUME NEW r \in Requests, NEW s \in Sessions,
             \/ LoginRejected(r) \/ RequestDone(r) \/ LoginStarts(r)
             \/ LogoutRemoves(r, s) \/ ProbeFindsInvalid(r, s)
      PROVE  Kept
  <2>1. /\ \E to \in RequestPC : rpc' = [rpc EXCEPT ![r] = to]
        /\ UNCHANGED replaced
        /\ replaced[r] = {}
    BY <1>2
       DEF RequestGoes, RequestPC, LoginRejected, RequestDone, LoginStarts, LogoutRemoves,
           ProbeFindsInvalid, TakeOut, IdleActor, ReplacedWhileRevoking
  <2> QED
    BY <2>1 DEF ReplacedWhileRevoking
<1>3. ASSUME NEW r \in Requests, LoginRejected(r) \/ RequestDone(r) \/ LoginStarts(r)
      PROVE  Kept
  <2>1. /\ \E to \in RequestPC : rpc' = [rpc EXCEPT ![r] = to]
        /\ UNCHANGED replaced
        /\ replaced[r] = {}
    BY <1>3
       DEF RequestGoes, RequestPC, LoginRejected, RequestDone, LoginStarts, IdleActor,
           ReplacedWhileRevoking
  <2> QED
    BY <2>1 DEF ReplacedWhileRevoking
<1>4. ASSUME NEW r \in Requests, LoginRevokesReplaced(r) PROVE Kept
  <2>1. replaced' = [replaced EXCEPT ![r] = {}] /\ UNCHANGED rpc
    BY <1>4 DEF LoginRevokesReplaced, RevokeReplaced, handlerVars
  <2> QED
    BY <2>1 DEF ReplacedWhileRevoking
<1>5. ASSUME ShutdownMoves PROVE Kept
  <2>1. UNCHANGED <<rpc, replaced>>
    BY <1>5
       DEF ShutdownMoves, handlerVars, ShutdownRequested, CloseStep, CloseStarts,
           CloseClearsSessions, CloseClosesRoom, CloseReturns, ClearTable, CloseBatch
  <2> QED
    BY <1>1, <2>1
<1>6. ASSUME ~RequestMoves, ~ShutdownMoves PROVE Kept
  BY <1>1, <1>6, OthersLeaveRequests
<1> HIDE DEF Kept
<1>7. ASSUME NEW r \in Requests, RequestStep(r) PROVE Kept
  <2>1. \/ LoginRejected(r) \/ RequestDone(r) \/ LoginRevokesReplaced(r)
        \/ \E s, old \in Sessions : LoginCommits(r, s, old)
    BY <1>7 DEF RequestStep
  <2>2. LoginRejected(r) \/ RequestDone(r) \/ LoginRevokesReplaced(r)
    BY <2>1, Zenon
  <2> QED
    BY <1>3, <1>4, <2>2
<1>8. ASSUME RequestMoves PROVE Kept
  BY <1>2, <1>3, <1>7, <1>8 DEF RequestMoves
<1>9. Kept
  BY <1>5, <1>6, <1>8
<1> QED
  BY <1>9 DEF Kept

\* A login that replaces a session is never refused for want of capacity.
THEOREM RelayReplacementSucceeds == SafeSpec => ReplacementSucceeds
<1> DEFINE Succeeds ==
             \A r \in Requests :
               rpc[r] = "creating" /\ replaced'[r] # {} => \E s \in sessions' : ~Created(s)
<1>1. Init => ReplacementInv
  <2>1. Init => ClockInit /\ SocketInit /\ SessionInit
    BY DEF Init, RoomInit
  <2>2. SessionInit => SessionCapacity /\ ReplacedWhileRevoking
    BY SessionAssumption, FS_EmptySet
       DEF SessionInit, SessionCapacity, SessionsWithinCapacity, ReplacedWhileRevoking
  <2> QED
    BY <2>1, <2>2, ServerInvInit DEF ReplacementInv
<1>2. ASSUME ReplacementInv, [Next]_vars PROVE ReplacementInv'
  <2>1. ServerInv'
    BY <1>2, ServerInvStep DEF ReplacementInv
  <2>2. SessionCapacity'
    BY <1>2, ServerStepIsSessionStep, SessionCapacityStep DEF ReplacementInv, ServerInv, TypeOK
  <2>3. ReplacedWhileRevoking'
    BY <1>2, LoginReplaces, OnlyLoginReplaces
  <2> QED
    BY <2>1, <2>2, <2>3 DEF ReplacementInv
<1>3. ASSUME ReplacementInv, [Next]_vars PROVE [Succeeds]_vars
  BY <1>3, LoginReplaces, OnlyLoginReplaces
<1> QED
  BY <1>1, <1>2, <1>3, PTL DEF SafeSpec, ReplacementSucceeds

\* A drain that runs to its end leaves no login under way: none is admitted
\* once the server is not ready, and the drain waits for the others.
DrainedOfLogins ==
  /\ phase # "serving" => ~ready
  /\ ~DrainMayTimeOut =>
       /\ phase \notin {"serving", "draining"} => \A r \in Requests : rpc[r] # "creating"
       /\ phase \in {"revoking", "closing", "closed"} => sessions = {}

\* So the table, once cleared, stays empty.
LEMMA DrainedStep ==
  ASSUME ServerInv, DrainedOfLogins, [Next]_vars
  PROVE  DrainedOfLogins'
<1> USE DEF ServerInv, TypeOK, SessionTypeOK
<1>1. ASSUME UNCHANGED <<ready, phase>>, sessions' \subseteq sessions,
             \A r \in Requests : rpc'[r] = "creating" => rpc[r] = "creating"
      PROVE  DrainedOfLogins'
  BY <1>1 DEF DrainedOfLogins
<1>2. ASSUME NEW r \in Requests, LoginStarts(r) PROVE DrainedOfLogins'
  <2>1. ready /\ UNCHANGED <<ready, phase, sessions>>
    BY <1>2 DEF LoginStarts, processVars
  <2>2. phase = "serving"
    BY <2>1 DEF DrainedOfLogins
  <2> QED
    BY <2>1, <2>2 DEF DrainedOfLogins
<1>3. ASSUME NEW r \in Requests, NEW s \in Sessions, NEW old \in Sessions, LoginCommits(r, s, old)
      PROVE  DrainedOfLogins'
  <2>1. /\ rpc[r] = "creating"
        /\ rpc' = [rpc EXCEPT ![r] = "revoking"]
        /\ UNCHANGED <<ready, phase>>
    BY <1>3 DEF LoginCommits, RequestGoes, processVars
  <2> QED
    BY <2>1 DEF DrainedOfLogins
<1>4. ASSUME NEW r \in Requests, NEW s \in Sessions,
             LogoutRemoves(r, s) \/ ProbeFindsInvalid(r, s)
      PROVE  DrainedOfLogins'
  BY <1>1, <1>4 DEF LogoutRemoves, ProbeFindsInvalid, TakeOut, RequestGoes, processVars
<1>5. ASSUME NEW r \in Requests, LoginRejected(r) \/ RequestDone(r) \/ LoginRevokesReplaced(r)
      PROVE  DrainedOfLogins'
  BY <1>1, <1>5
     DEF LoginRejected, RequestDone, LoginRevokesReplaced, RevokeReplaced, RequestGoes,
         handlerVars, processVars
<1>6. CASE RequestMoves
  BY <1>2, <1>3, <1>4, <1>5, <1>6 DEF RequestMoves, RequestStep
<1>7. ASSUME CloseStarts PROVE DrainedOfLogins'
  <2>1. /\ phase = "draining" /\ phase' = "stopping"
        /\ InFlight = {} \/ DrainMayTimeOut
        /\ UNCHANGED <<ready, rpc, sessions>>
    BY <1>7 DEF CloseStarts, PhaseGoes, handlerVars
  <2>2. InFlight = {} => \A r \in Requests : rpc[r] # "creating"
    BY DEF InFlight
  <2> QED
    BY <2>1, <2>2 DEF DrainedOfLogins
<1>8. ASSUME CloseClearsSessions PROVE DrainedOfLogins'
  <2>1. /\ phase = "stopping" /\ phase' = "revoking"
        /\ sessions' = {}
        /\ UNCHANGED <<ready, rpc>>
    BY <1>8 DEF CloseClearsSessions, ClearTable, PhaseGoes, handlerVars
  <2> QED
    BY <2>1 DEF DrainedOfLogins
<1>9. ASSUME CloseClosesRoom \/ CloseReturns PROVE DrainedOfLogins'
  <2>1. /\ phase \in {"revoking", "closing"} /\ phase' \in {"closing", "closed"}
        /\ UNCHANGED <<ready, rpc, sessions>>
    BY <1>9 DEF CloseClosesRoom, CloseReturns, CloseBatch, PhaseGoes, handlerVars
  <2> QED
    BY <2>1 DEF DrainedOfLogins
<1>10. ASSUME ShutdownRequested PROVE DrainedOfLogins'
  <2>1. phase' = "draining" /\ ready' = FALSE
    BY <1>10 DEF ShutdownRequested, PhaseGoes
  <2> QED
    BY <2>1 DEF DrainedOfLogins
<1>11. CASE ~RequestMoves /\ ~ShutdownMoves
  BY <1>1, <1>11, OthersLeaveRequests
<1> QED
  BY <1>6, <1>7, <1>8, <1>9, <1>10, <1>11 DEF ShutdownMoves, CloseStep

\* After a graceful drain no session is left in the table, and none appears.
THEOREM RelayShutdownClearsSessions == SafeSpec => []ShutdownClearsSessions
<1>1. Init => DrainedOfLogins
  BY DEF Init, DrainedOfLogins
<1>2. DrainedOfLogins => ShutdownClearsSessions
  BY DEF DrainedOfLogins, ShutdownClearsSessions
<1> QED
  BY <1>1, <1>2, DrainedStep, ServerInvInit, ServerInvStep, PTL DEF SafeSpec
-----------------------------------------------------------------------------
(***************************************************************************)
(* Writers and the age of what they write.                                 *)
(***************************************************************************)

\* The writer of a viewer is started once, by the handler that serves it.
StartedWhenServed ==
  \A v \in Viewers :
    wpc[v] # "off" => vpc[v] \in {"serving", "leaving", "releasing", "done"}

\* Nobody but a viewer's handler and its writer moves the writer.
LEMMA OthersLeaveWriters ==
  ASSUME [Next]_vars, ~ViewerMoves,
         \A v \in Viewers : ~WriterStep(v) /\ ~WriteEnds(v) /\ ~WriterPingFails(v)
  PROVE  UNCHANGED wpc
<1>1. ASSUME NEW p \in Producers, ProducerStep(p) PROVE UNCHANGED wpc
  BY <1>1
     DEF producerRest, handlerVars, ProducerStep, ProducerClaims, ProducerConflict,
         ProducerUpgrades, ProducerUpgradeFails, ProducerAttaches, ProducerRoomClosing,
         ProducerPublishes, ProducerOffers, ProducerOffered, ProducerReleases
<1>2. ASSUME NEW p \in Producers,
             \/ ProducerAdmitted(p) \/ ProducerReads(p) \/ ProducerRefused(p)
             \/ ProducerReadFails(p)
      PROVE  UNCHANGED wpc
  BY <1>2 DEF producerRest, ProducerAdmitted, ProducerReads, ProducerRefused, ProducerReadFails
<1>3. ASSUME RequestMoves PROVE UNCHANGED wpc
  BY <1>3
     DEF RequestMoves, requestRest, handlerVars, RequestStep, LoginRejected, LoginCommits,
         LoginRevokesReplaced, RequestDone, LoginStarts, LogoutRemoves, ProbeFindsInvalid
<1>4. ASSUME JanitorStep \/ ShutdownMoves PROVE UNCHANGED wpc
  BY <1>4
     DEF handlerVars, JanitorStep, JanitorExpires, JanitorPrunes, JanitorRests,
         JanitorStops, ShutdownMoves, CloseStep, CloseStarts, CloseClearsSessions,
         CloseClosesRoom, CloseReturns, ShutdownRequested
<1>5. ASSUME Tick \/ ClosingLoop \/ UNCHANGED vars PROVE UNCHANGED wpc
  BY <1>5 DEF Tick, ClosingLoop, vars, handlerVars
<1> QED
  BY <1>1, <1>2, <1>3, <1>4, <1>5
     DEF Next, Environment, ViewerMoves, RequestMoves, ShutdownMoves

\* A writer that goes back to its select has written within the deadline.
WritesInTime ==
  \A v \in Viewers :
    wpc[v] = "writing" /\ wpc'[v] = "select" =>
      clock < taken[v].publishedAt + SnapshotTTL

\* Each step of a handler or of a writer.
LEMMA WritersStep ==
  ASSUME ServerInv, StartedWhenServed, [Next]_vars
  PROVE  StartedWhenServed' /\ WritesInTime
<1> DEFINE Kept == StartedWhenServed' /\ WritesInTime
<1> USE DEF ServerInv, TypeOK
<1>1. ASSUME UNCHANGED <<vpc, wpc>> PROVE Kept
  BY <1>1 DEF StartedWhenServed, WritesInTime
<1>2. ASSUME NEW v \in Viewers, ViewerStartsWriter(v) PROVE Kept
  <2>1. /\ vpc[v] = "inSession" /\ vpc' = [vpc EXCEPT ![v] = "serving"]
        /\ wpc' = [wpc EXCEPT ![v] = "select"]
    BY <1>2 DEF ViewerStartsWriter, ViewerGoes
  <2>2. wpc[v] = "off"
    BY <2>1 DEF StartedWhenServed
  <2> QED
    BY <2>1, <2>2 DEF StartedWhenServed, WritesInTime
<1>3. ASSUME NEW v \in Viewers, ViewerSpeaks(v) \/ ViewerReadFails(v) \/ ViewerLeavesRoom(v)
                                \/ ViewerReleases(v)
      PROVE  Kept
  <2>1. /\ UNCHANGED wpc
        /\ \E to \in {"leaving", "releasing", "done"} : vpc' = [vpc EXCEPT ![v] = to]
    BY <1>3 DEF ViewerSpeaks, ViewerReadFails, ViewerLeavesRoom, ViewerReleases, ViewerGoes,
       viewerRest
  <2> QED
    BY <2>1 DEF StartedWhenServed, WritesInTime
<1>4. ASSUME NEW v \in Viewers,
             \/ ViewerUnauthenticated(v) \/ ViewerRejected(v) \/ ViewerReserves(v)
             \/ ViewerOverLimit(v) \/ ViewerEntersRoom(v) \/ ViewerRoomFull(v)
             \/ ViewerUpgrades(v) \/ ViewerUpgradeFails(v) \/ ViewerAttachesToRoom(v)
             \/ ViewerRoomClosing(v) \/ ViewerAttachesToSession(v) \/ ViewerSessionGone(v)
             \/ ViewerAdmitted(v)
             \/ \E s \in Sessions : ViewerAuthenticated(v, s) \/ ViewerFindsInvalid(v, s)
      PROVE  Kept
  <2>1. /\ UNCHANGED wpc
        /\ vpc[v] \notin {"serving", "leaving", "releasing", "done"}
        /\ \E to \in ViewerPC : vpc' = [vpc EXCEPT ![v] = to]
    BY <1>4
       DEF ViewerPC, ViewerGoes, viewerRest, ViewerUnauthenticated, ViewerRejected,
           ViewerReserves, ViewerOverLimit, ViewerEntersRoom, ViewerRoomFull, ViewerUpgrades,
           ViewerUpgradeFails, ViewerAttachesToRoom, ViewerRoomClosing,
           ViewerAttachesToSession, ViewerSessionGone, ViewerAdmitted, ViewerAuthenticated,
           ViewerFindsInvalid
  <2> QED
    BY <2>1 DEF StartedWhenServed, WritesInTime
<1>5. ASSUME NEW v \in Viewers, WriterWrites(v) PROVE Kept
  <2>1. /\ wpc[v] = "writing" /\ wpc' = [wpc EXCEPT ![v] = "select"]
        /\ UNCHANGED vpc
        /\ taken[v].publishedAt + SnapshotTTL > clock
    BY <1>5 DEF WriterWrites, WriterGoes, WriteSucceeds, Writable, writerRest
  <2>2. taken[v].publishedAt \in Int /\ SnapshotTTL \in Int /\ clock \in Int
    BY RoomAssumption, MaxTimeAssumption DEF RoomTypeOK, ClockTypeOK, Frame
  <2> QED
    BY <2>1, <2>2 DEF StartedWhenServed, WritesInTime
<1>6. ASSUME NEW v \in Viewers, WriterStep(v) \/ WriterFails(v) \/ WriterPingFails(v) PROVE Kept
  <2>1. /\ UNCHANGED vpc
        /\ \/ UNCHANGED wpc
           \/ /\ wpc[v] # "off"
              /\ \E to \in WriterPC \ {"select"} : wpc' = [wpc EXCEPT ![v] = to]
    BY <1>6
       DEF WriterPC, WriterGoes, writerRest, WriterStep, WriterStops, WriterExpires,
           WriterExpired, WriterTakes, WriterFails, WriterPingFails
  <2> QED
    BY <2>1 DEF StartedWhenServed, WritesInTime
<1>7. ASSUME ~ViewerMoves,
             \A v \in Viewers : ~WriterStep(v) /\ ~WriteEnds(v) /\ ~WriterPingFails(v)
      PROVE  Kept
  BY <1>1, <1>7, OthersLeaveViewers, OthersLeaveWriters
<1> HIDE DEF Kept
<1>8. ASSUME NEW v \in Viewers,
             ViewerStep(v) \/ ViewerAdmitted(v) \/ ViewerSpeaks(v) \/ ViewerReadFails(v)
      PROVE  Kept
  BY <1>2, <1>3, <1>4, <1>8 DEF ViewerStep
<1>9. ASSUME NEW v \in Viewers, WriterStep(v) \/ WriteEnds(v) \/ WriterPingFails(v) PROVE Kept
  BY <1>5, <1>6, <1>9 DEF WriteEnds
<1>10. ASSUME ViewerMoves PROVE Kept
  BY <1>8, <1>10 DEF ViewerMoves
<1>11. ASSUME \E v \in Viewers : WriterStep(v) \/ WriteEnds(v) \/ WriterPingFails(v) PROVE Kept
  BY <1>9, <1>11
<1>12. Kept
  BY <1>7, <1>10, <1>11
<1> QED
  BY <1>12 DEF Kept

\* No data write succeeds once its frame is stale.
THEOREM RelayWritesInTime == SafeSpec => NoStaleWrite
<1>1. Init => StartedWhenServed
  BY DEF Init, StartedWhenServed
<1>2. ASSUME ServerInv, StartedWhenServed, [Next]_vars PROVE StartedWhenServed' /\ [WritesInTime]_vars
  BY <1>2, WritersStep
<1> QED
  BY <1>1, <1>2, ServerInvInit, ServerInvStep, PTL DEF SafeSpec, NoStaleWrite, WritesInTime

-----------------------------------------------------------------------------
(***************************************************************************)
(* Proof that Server.Close leaves no connection the room knows of: the     *)
(* ones it collected are closed by its loop, and none is attached once the *)
(* room is closing.  What remains has only just been upgraded.             *)
(***************************************************************************)

ServedViewer == {"inRoom", "inSession", "serving"}
ServedProducer == {"serving", "publishing", "offering"}

\* The connection stands and was attached to the room.
InRoom(c) ==
  /\ socket[c] = "open"
  /\ \/ c \in Viewers /\ vpc[c] \in ServedViewer
     \/ c \in Producers /\ ppc[c] \in ServedProducer

\* A connection stands while its handler does, and the room knows of the
\* connections of the handlers it serves.
OwnersKnown ==
  /\ \A v \in Viewers :
       /\ socket[v] = "open" => vpc[v] \in ServedViewer \cup {"upgraded"}
       /\ vpc[v] \in ServedViewer => v \in viewers \cap viewerConn
  /\ \A p \in Producers :
       /\ socket[p] = "open" => ppc[p] \in ServedProducer \cup {"upgraded"}
       /\ ppc[p] \in ServedProducer => producerConn = p

\* From the collection on, what the room knows of is on the closing list,
\* and the list is empty when Close returns.
RoomIsClosed ==
  /\ phase \in {"closing", "closed"} => closing
  /\ \A c \in Conns :
       InRoom(c) =>
         /\ phase # "closed"
         /\ phase = "closing" => c \in toClose[Closer]

ClosedInv == ServerInv /\ SlotInv /\ OwnersKnown /\ RoomIsClosed

-----------------------------------------------------------------------------
\* A step that attaches nothing, and takes nothing from the closing lists
\* that it does not close, leaves the room as closed as it was.
LEMMA NothingAttached ==
  ASSUME RoomIsClosed, UNCHANGED <<phase, closing>>,
         \A c \in Conns : InRoom(c)' => InRoom(c) \/ ~closing,
         \A c \in Conns : InRoom(c)' /\ c \in toClose[Closer] => c \in toClose'[Closer]
  PROVE  RoomIsClosed'
BY DEF RoomIsClosed

\* A viewer's handler: its own connection, its own place, no list.
LEMMA ViewerConnection ==
  ASSUME ClosedInv, NEW v \in Viewers,
         ViewerStep(v) \/ ViewerAdmitted(v) \/ ViewerSpeaks(v) \/ ViewerReadFails(v)
  PROVE  /\ UNCHANGED <<phase, closing, toClose>>
         /\ \A c \in Conns \ {v} : socket'[c] = socket[c]
         /\ \A w \in Viewers \ {v} :
              /\ vpc'[w] = vpc[w]
              /\ w \in viewers => w \in viewers'
              /\ w \in viewerConn => w \in viewerConn'
         /\ socket'[v] = "open" => vpc'[v] \in ServedViewer \cup {"upgraded"}
         /\ vpc'[v] \in ServedViewer =>
              /\ v \in viewers' \cap viewerConn'
              /\ \/ ~closing
                 \/ socket'[v] = socket[v] /\ vpc[v] \in ServedViewer
<1> DEFINE Own == /\ UNCHANGED <<phase, closing, toClose>>
                  /\ \A c \in Conns \ {v} : socket'[c] = socket[c]
                  /\ \A w \in Viewers \ {v} :
                       /\ vpc'[w] = vpc[w]
                       /\ w \in viewers => w \in viewers'
                       /\ w \in viewerConn => w \in viewerConn'
                  /\ socket'[v] = "open" => vpc'[v] \in ServedViewer \cup {"upgraded"}
                  /\ vpc'[v] \in ServedViewer =>
                       /\ v \in viewers' \cap viewerConn'
                       /\ \/ ~closing
                          \/ socket'[v] = socket[v] /\ vpc[v] \in ServedViewer
<1> USE ServerAssumption
    DEF ServedViewer, ViewerGoes, viewerRest, processVars,
        ClosedInv, OwnersKnown, ServerInv, TypeOK, RoomTypeOK, SessionTypeOK, SocketTypeOK
<1>1. ASSUME \/ ViewerUnauthenticated(v) \/ ViewerRejected(v) \/ ViewerOverLimit(v)
             \/ ViewerRoomFull(v) \/ ViewerUpgradeFails(v) \/ ViewerAdmitted(v)
             \/ \E s \in Sessions : ViewerAuthenticated(v, s)
      PROVE  Own
  BY <1>1 DEF ViewerUnauthenticated, ViewerRejected, ViewerOverLimit, ViewerRoomFull,
     ViewerUpgradeFails, ViewerAdmitted, ViewerAuthenticated
<1>2. ASSUME NEW s \in Sessions, ViewerFindsInvalid(v, s) PROVE Own
  BY SMTT(30), <1>2 DEF ViewerFindsInvalid, TakeOut, StartRevoking
<1>3. ASSUME ViewerReserves(v) \/ ViewerEntersRoom(v) \/ ViewerLeavesRoom(v) \/ ViewerReleases(v)
      PROVE  Own
  BY <1>3 DEF ViewerReserves, ViewerEntersRoom, ViewerLeavesRoom, ViewerReleases,
     Reserve, AddViewer, RemoveViewer, Release
<1>4. ASSUME ViewerUpgrades(v) PROVE Own
  BY <1>4 DEF ViewerUpgrades, OpenSocket
<1>5. ASSUME ViewerAttachesToRoom(v) PROVE Own
  BY <1>5 DEF ViewerAttachesToRoom, AttachViewer, MayAttachViewer
<1>6. ASSUME ViewerAttachesToSession(v) \/ ViewerStartsWriter(v) PROVE Own
  BY <1>6 DEF ViewerAttachesToSession, ViewerStartsWriter, Attach, OfferLatest
<1>7. ASSUME \/ ViewerRoomClosing(v) \/ ViewerSessionGone(v)
             \/ ViewerSpeaks(v) \/ ViewerReadFails(v)
      PROVE  Own
  BY <1>7 DEF ViewerRoomClosing, ViewerSessionGone, ViewerSpeaks, ViewerReadFails,
     HangUp, HangUpWith, CloseSocket, CloseWithFrame
<1> HIDE DEF Own
<1>8. Own
  BY <1>1, <1>2, <1>3, <1>4, <1>5, <1>6, <1>7 DEF ViewerStep
<1> QED
  BY <1>8 DEF Own

\* A producer's handler: the same, and the slot of the room.
LEMMA ProducerConnection ==
  ASSUME ClosedInv, NEW p \in Producers,
         \/ ProducerStep(p) \/ ProducerAdmitted(p) \/ ProducerReads(p) \/ ProducerRefused(p)
         \/ ProducerReadFails(p)
  PROVE  /\ UNCHANGED <<phase, closing, toClose, vpc, viewers, viewerConn>>
         /\ \A c \in Conns \ {p} : socket'[c] = socket[c]
         /\ \A q \in Producers \ {p} :
              ppc'[q] = ppc[q] /\ (ppc[q] \in ServedProducer => producerConn' = q)
         /\ socket'[p] = "open" => ppc'[p] \in ServedProducer \cup {"upgraded"}
         /\ ppc'[p] \in ServedProducer =>
              /\ producerConn' = p
              /\ \/ ~closing
                 \/ socket'[p] = socket[p] /\ ppc[p] \in ServedProducer
<1> DEFINE Own == /\ UNCHANGED <<phase, closing, toClose, vpc, viewers, viewerConn>>
                  /\ \A c \in Conns \ {p} : socket'[c] = socket[c]
                  /\ \A q \in Producers \ {p} :
                       ppc'[q] = ppc[q] /\ (ppc[q] \in ServedProducer => producerConn' = q)
                  /\ socket'[p] = "open" => ppc'[p] \in ServedProducer \cup {"upgraded"}
                  /\ ppc'[p] \in ServedProducer =>
                       /\ producerConn' = p
                       /\ \/ ~closing
                          \/ socket'[p] = socket[p] /\ ppc[p] \in ServedProducer
<1>0. HoldsSlot(p) => \A q \in Producers \ {p} : ppc[q] \notin ServedProducer
  BY DEF ClosedInv, SlotInv, OneProducer, HoldsSlot, ServedProducer
<1> USE ServerAssumption
    DEF ServedProducer, ProducerGoes, producerRest, processVars, handlerVars,
        ClosedInv, OwnersKnown, ServerInv, TypeOK, RoomTypeOK, SessionTypeOK, SocketTypeOK
<1>1. ASSUME ProducerAdmitted(p) \/ ProducerConflict(p) \/ ProducerUpgradeFails(p) PROVE Own
  BY <1>1 DEF ProducerAdmitted, ProducerConflict, ProducerUpgradeFails
<1>2. ASSUME ProducerReads(p) \/ ProducerOffered(p) PROVE Own
  BY <1>2 DEF ProducerReads, ProducerOffered
<1>3. ASSUME ProducerClaims(p) \/ ProducerPublishes(p) \/ ProducerOffers(p) PROVE Own
  <2>1. CASE ProducerClaims(p)
    BY <2>1 DEF ProducerClaims, ClaimProducer
  <2>2. CASE ProducerPublishes(p)
    BY <2>2 DEF ProducerPublishes, Publish
  <2>3. CASE ProducerOffers(p)
    BY <2>3 DEF ProducerOffers, PublishOffer
  <2> QED
    BY <1>3, <2>1, <2>2, <2>3
<1>4. ASSUME ProducerUpgrades(p) PROVE Own
  BY <1>4 DEF ProducerUpgrades, OpenSocket
<1>5. ASSUME ProducerAttaches(p) PROVE Own
  <2>1. HoldsSlot(p)
    BY <1>5 DEF ProducerAttaches, HoldsSlot
  <2> QED
    BY <1>0, <1>5, <2>1 DEF ProducerAttaches, AttachProducer, MayAttachProducer
<1>6. ASSUME ProducerReleases(p) PROVE Own
  <2>1. HoldsSlot(p)
    BY <1>6 DEF ProducerReleases, HoldsSlot
  <2> QED
    BY <1>0, <1>6, <2>1 DEF ProducerReleases, ReleaseProducer
<1>7. ASSUME ProducerRoomClosing(p) \/ ProducerReadFails(p) \/ ProducerRefused(p) PROVE Own
  BY <1>7 DEF ProducerRoomClosing, ProducerReadFails, ProducerRefused,
     HangUp, HangUpWith, CloseSocket, CloseWithFrame
<1> HIDE DEF Own
<1>8. Own
  BY <1>1, <1>2, <1>3, <1>4, <1>5, <1>6, <1>7 DEF ProducerStep
<1> QED
  BY <1>8 DEF Own

\* What the other steps leave alone: places, slot and program counters.
\* They open no connection.
Bystander ==
  /\ UNCHANGED <<vpc, ppc, viewers, viewerConn, producerConn>>
  /\ \A c \in Conns : socket'[c] \in {socket[c], "closed"}

\* Writers, requests, the janitor and time.
LEMMA OthersConnect ==
  ASSUME ClosedInv, [Next]_vars, ~ViewerMoves, ~ProducerMoves, ~ShutdownMoves, ~ClosingLoop
  PROVE  Bystander /\ UNCHANGED <<phase, closing, toClose>>
<1> DEFINE Left == Bystander /\ UNCHANGED <<phase, closing, toClose>>
<1> USE ServerAssumption
    DEF Bystander, processVars, handlerVars, ClosedInv, ServerInv, TypeOK, RoomTypeOK,
        SessionTypeOK, SocketTypeOK
<1>1. ASSUME NEW v \in Viewers, WriterStep(v) PROVE Left
  BY <1>1 DEF writerRest, WriterStep, WriterStops, WriterExpires, WriterExpired, WriterTakes,
     Take, RevokeOne, StartRevoking
<1>2. ASSUME NEW v \in Viewers, WriteEnds(v) \/ WriterPingFails(v) PROVE Left
  BY <1>2 DEF writerRest, WriteEnds, WriterWrites, WriterFails, WriterPingFails, HangUp,
     CloseSocket
<1>3. ASSUME NEW r \in Requests, RequestStep(r) \/ LoginStarts(r) PROVE Left
  BY <1>3 DEF requestRest, RequestStep, LoginRejected, LoginCommits, Login, StartRevoking,
     LoginRevokesReplaced, RevokeReplaced, RequestDone, LoginStarts
<1>4. ASSUME NEW r \in Requests, NEW s \in Sessions, LogoutRemoves(r, s) \/ ProbeFindsInvalid(r, s)
      PROVE  Left
  BY <1>4 DEF requestRest, LogoutRemoves, ProbeFindsInvalid, TakeOut, StartRevoking
<1>5. ASSUME JanitorStep \/ Tick \/ UNCHANGED vars PROVE Left
  BY <1>5 DEF JanitorStep, JanitorExpires, JanitorPrunes, JanitorRests, JanitorStops, Expire,
     Prune, StartRevoking, Tick, vars
<1> HIDE DEF Left
<1>6. Left
  BY <1>1, <1>2, <1>3, <1>4, <1>5
     DEF Next, Environment, ViewerMoves, ProducerMoves, ShutdownMoves
<1> QED
  BY <1>6 DEF Left

\* A closing loop takes from a list only what it closes.
LEMMA LoopConnections ==
  ASSUME ClosedInv, ClosingLoop
  PROVE  /\ Bystander /\ UNCHANGED <<phase, closing>>
         /\ \A c \in Conns :
              socket'[c] = "open" /\ c \in toClose[Closer] => c \in toClose'[Closer]
<1> USE SocketAssumption DEF ClosedInv, ServerInv, TypeOK, SessionTypeOK, SocketTypeOK
<1>1. UNCHANGED <<roomVars, handlerVars, processVars>>
  BY DEF ClosingLoop
<1>2. CASE \E a \in Actors : \E s \in toRevoke[a] : RevokeNext(a, s)
  <2>1. PICK a \in Actors : \E s \in toRevoke[a] : RevokeNext(a, s)
    BY <1>2
  <2>2. /\ UNCHANGED socket /\ toClose[a] = {}
        /\ toClose' = toClose \/ \E s \in toRevoke[a] : toClose' = [toClose EXCEPT ![a] = attached[s]]
    BY <2>1 DEF RevokeNext
  <2> QED
    BY <1>1, <2>2 DEF Bystander, handlerVars, processVars
<1>3. CASE \E a \in Actors : \E c \in toClose[a] : CloseNext(a, c)
  <2>0. PICK a \in Actors : \E c \in toClose[a] : CloseNext(a, c)
    BY <1>3
  <2>1. PICK c \in toClose[a] : CloseNext(a, c)
    BY <2>0
  <2>2. /\ socket' = [socket EXCEPT ![c] = "closed"]
        /\ toClose' = [toClose EXCEPT ![a] = @ \ {c}]
    BY <2>1 DEF CloseNext, CloseSocket, CloseWithFrame
  <2> QED
    BY <1>1, <2>2 DEF Bystander, handlerVars, processVars
<1> QED
  BY <1>2, <1>3 DEF ClosingLoop

-----------------------------------------------------------------------------
\* The owners stay known.
LEMMA OwnersKnownStep == ClosedInv /\ [Next]_vars => OwnersKnown'
<1> SUFFICES ASSUME ClosedInv, [Next]_vars PROVE OwnersKnown'
  OBVIOUS
<1> USE ServerAssumption
<1>0. OwnersKnown /\ Viewers \subseteq Conns /\ Producers \subseteq Conns
  BY DEF ClosedInv
<1>1. ASSUME Bystander PROVE OwnersKnown'
  BY <1>0, <1>1 DEF Bystander, OwnersKnown
<1>2. CASE ViewerMoves
  <2>1. PICK v \in Viewers :
          ViewerStep(v) \/ ViewerAdmitted(v) \/ ViewerSpeaks(v) \/ ViewerReadFails(v)
    BY <1>2 DEF ViewerMoves
  <2>2. UNCHANGED <<ppc, producerConn>>
    BY <2>1, ViewersLeaveProducers
  <2> QED
    BY <1>0, <2>1, <2>2, ViewerConnection DEF OwnersKnown
<1>3. CASE ProducerMoves
  <2>1. PICK p \in Producers :
          \/ ProducerStep(p) \/ ProducerAdmitted(p) \/ ProducerReads(p) \/ ProducerRefused(p)
          \/ ProducerReadFails(p)
    BY <1>3 DEF ProducerMoves
  <2> QED
    BY <1>0, <2>1, ProducerConnection DEF OwnersKnown
<1>4. CASE ShutdownMoves
  <2>1. Bystander
    BY <1>4
       DEF Bystander, handlerVars, ShutdownMoves, ShutdownRequested, CloseStep, CloseStarts,
           CloseClearsSessions, CloseClosesRoom, CloseReturns, ClearTable, StartRevoking,
           CloseRoom, CloseBatch
  <2> QED
    BY <1>1, <2>1
<1> QED
  BY <1>1, <1>2, <1>3, <1>4, OthersConnect, LoopConnections

\* The room stays closed.
LEMMA RoomIsClosedStep == ClosedInv /\ [Next]_vars => RoomIsClosed'
<1> SUFFICES ASSUME ClosedInv, [Next]_vars PROVE RoomIsClosed'
  OBVIOUS
<1> USE ServerAssumption, SocketAssumption
<1>0. OwnersKnown /\ RoomIsClosed
  BY DEF ClosedInv
<1>1. ASSUME Bystander PROVE \A c \in Conns : InRoom(c)' => InRoom(c)
  BY <1>1 DEF Bystander, InRoom
<1>2. CASE ViewerMoves
  <2>1. PICK v \in Viewers :
          ViewerStep(v) \/ ViewerAdmitted(v) \/ ViewerSpeaks(v) \/ ViewerReadFails(v)
    BY <1>2 DEF ViewerMoves
  <2>2. UNCHANGED ppc
    BY <2>1, ViewersLeaveProducers
  <2>3. UNCHANGED <<phase, closing, toClose>>
    BY <2>1, ViewerConnection
  <2>4. \A c \in Conns : InRoom(c)' => InRoom(c) \/ ~closing
    BY <2>1, <2>2, ViewerConnection DEF InRoom
  <2> QED
    BY <1>0, <2>3, <2>4, NothingAttached
<1>3. CASE ProducerMoves
  <2>1. PICK p \in Producers :
          \/ ProducerStep(p) \/ ProducerAdmitted(p) \/ ProducerReads(p) \/ ProducerRefused(p)
          \/ ProducerReadFails(p)
    BY <1>3 DEF ProducerMoves
  <2>2. UNCHANGED <<phase, closing, toClose, vpc>>
    BY <2>1, ProducerConnection
  <2>3. \A c \in Conns : InRoom(c)' => InRoom(c) \/ ~closing
    BY <2>1, <2>2, ProducerConnection DEF InRoom
  <2> QED
    BY <1>0, <2>2, <2>3, NothingAttached
<1>4. CASE ClosingLoop
  <2>1. \A c \in Conns : InRoom(c)' /\ c \in toClose[Closer] => c \in toClose'[Closer]
    BY <1>4, LoopConnections DEF InRoom
  <2> QED
    BY <1>0, <1>1, <1>4, <2>1, LoopConnections, NothingAttached
<1>5. CASE ShutdownRequested \/ CloseStarts \/ CloseClearsSessions
  <2>1. phase' \in {"draining", "stopping", "revoking"}
    BY <1>5 DEF PhaseGoes, ShutdownRequested, CloseStarts, CloseClearsSessions
  <2> QED
    BY <2>1 DEF RoomIsClosed
<1>6. CASE CloseClosesRoom
  <2>1. /\ phase' = "closing" /\ closing' = TRUE
        /\ toClose' = [toClose EXCEPT ![Closer] = RoomConns]
        /\ UNCHANGED <<socket, vpc, ppc>>
    BY <1>6 DEF CloseClosesRoom, PhaseGoes, CloseRoom, CloseBatch, handlerVars
  <2>2. toClose'[Closer] = RoomConns
    BY <2>1 DEF ClosedInv, ServerInv, TypeOK, SessionTypeOK, SocketTypeOK
  <2>3. \A c \in Conns : InRoom(c) => c \in RoomConns
    BY <1>0, RoomAssumption DEF InRoom, OwnersKnown, RoomConns
  <2> QED
    BY <2>1, <2>2, <2>3 DEF RoomIsClosed, InRoom
<1>7. CASE CloseReturns
  <2>1. /\ phase = "closing" /\ toClose[Closer] = {}
        /\ UNCHANGED <<socket, vpc, ppc, closing>>
    BY <1>7 DEF CloseReturns, PhaseGoes, LoopDone, handlerVars
  <2> QED
    BY <1>0, <2>1 DEF RoomIsClosed, InRoom
<1>8. CASE ~ViewerMoves /\ ~ProducerMoves /\ ~ShutdownMoves /\ ~ClosingLoop
  BY <1>0, <1>1, <1>8, OthersConnect, NothingAttached
<1> QED
  BY <1>2, <1>3, <1>4, <1>5, <1>6, <1>7, <1>8 DEF ShutdownMoves, CloseStep

\* When Close has returned, only a connection just upgraded may stand, and
\* the room refuses it.
THEOREM RelayShutdownLeavesNoConnection == SafeSpec => []ShutdownLeavesNoConnection
<1>1. Init => ClosedInv
  <2>1. Init => OwnersKnown /\ RoomIsClosed
    BY ServerAssumption
       DEF Init, SocketInit, OwnersKnown, RoomIsClosed, InRoom, ServedViewer, ServedProducer
  <2> QED
    BY <2>1, ServerInvInit, SlotInvInit DEF ClosedInv
<1>2. ClosedInv /\ [Next]_vars => ClosedInv'
  BY ServerInvStep, SlotInvStep, OwnersKnownStep, RoomIsClosedStep DEF ClosedInv, ServerInv
<1>3. ClosedInv => ShutdownLeavesNoConnection
  BY ServerAssumption
     DEF ClosedInv, OwnersKnown, RoomIsClosed, InRoom, ShutdownLeavesNoConnection,
         MayAttachViewer, MayAttachProducer
<1> QED
  BY <1>1, <1>2, <1>3, PTL DEF SafeSpec
=============================================================================

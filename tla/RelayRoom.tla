------------------------------ MODULE RelayRoom ------------------------------
(***************************************************************************)
(* A room of the relay (radar-relay/internal/relay/room.go): the producer  *)
(* slot, the latest frame, the registered viewers and the one-frame queue  *)
(* of each.  Every action below is one critical section of room.mu or of   *)
(* viewer.mu, or one channel receive; publish is the exception and is      *)
(* split where the code unlocks, between the registration of the frame and *)
(* each offer.                                                             *)
(*                                                                         *)
(* A producer p and a viewer v are invocations of handleProducer and       *)
(* handleViewer; an invocation never comes back under the same name, as    *)
(* the code allocates a viewer and a generation for each.                  *)
(***************************************************************************)
EXTENDS RelayClock, FiniteSets

CONSTANTS
  Producers,     \* invocations of handleProducer
  Viewers,       \* invocations of handleViewer
  None,          \* no connection, no frame handed out yet
  MaxViewers,    \* room.maxViewers
  SnapshotTTL,   \* config.SnapshotTTL()
  MaxFrames      \* bound of the model: frames published in a behaviour

ASSUME RoomAssumption ==
  /\ MaxViewers \in Nat
  /\ SnapshotTTL \in Nat
  /\ MaxFrames \in Nat
  /\ None \notin Producers

VARIABLES
  producerActive,       \* room.producerActive
  producerGeneration,   \* room.producerGeneration
  producerConn,         \* room.producerConn: the producer it belongs to
  claim,                \* the generation claimProducer returned to p, 0 before
  viewers,              \* room.viewers
  viewerConn,           \* the viewers whose conn is set
  latest,               \* room.latest, its publishedAt being room.latestAt
  frameGeneration,      \* room.frameGeneration
  closing,              \* room.closing
  newest,               \* viewer.newestGeneration
  updates,              \* viewer.updates, a channel of capacity one
  joined,               \* the viewers that went through addViewer
  handed,               \* the frame addViewer returned, until it is offered
  offers,               \* what publish has yet to offer: the frame, to whom
  taken                 \* the update the writer received last

slotVars == <<producerActive, producerGeneration, producerConn, claim>>
memberVars == <<viewers, viewerConn, joined>>
frameVars == <<latest, frameGeneration>>
queueVars == <<newest, updates, handed, taken>>
roomVars == <<slotVars, memberVars, frameVars, closing, queueVars, offers>>

Frame == [generation : 0 .. MaxFrames, publishedAt : 0 .. MaxTime]

\* frame{}: prepared is nil and the generation is zero.
NoFrame == [generation |-> 0, publishedAt |-> 0]

RoomTypeOK ==
  /\ ClockTypeOK
  /\ producerActive \in BOOLEAN
  /\ producerGeneration \in Nat
  /\ producerConn \in Producers \cup {None}
  /\ claim \in [Producers -> Nat]
  /\ viewers \subseteq Viewers
  /\ viewerConn \subseteq Viewers
  /\ joined \subseteq Viewers
  /\ latest \in Frame
  /\ frameGeneration \in 0 .. MaxFrames
  /\ closing \in BOOLEAN
  /\ newest \in [Viewers -> 0 .. MaxFrames]
  /\ updates \in [Viewers -> Frame]
  /\ handed \in [Viewers -> Frame]
  /\ offers \in [Producers -> SUBSET (Viewers \X Frame)]
  /\ taken \in [Viewers -> Frame]

RoomInit ==
  /\ ClockInit
  /\ producerActive = FALSE
  /\ producerGeneration = 0
  /\ producerConn = None
  /\ claim = [p \in Producers |-> 0]
  /\ viewers = {}
  /\ viewerConn = {}
  /\ joined = {}
  /\ latest = NoFrame
  /\ frameGeneration = 0
  /\ closing = FALSE
  /\ newest = [v \in Viewers |-> 0]
  /\ updates = [v \in Viewers |-> NoFrame]
  /\ handed = [v \in Viewers |-> NoFrame]
  /\ offers = [p \in Producers |-> {}]
  /\ taken = [v \in Viewers |-> NoFrame]
-----------------------------------------------------------------------------
(***************************************************************************)
(* The producer slot.                                                      *)
(***************************************************************************)

\* Fault: a claim that does not ask whether the slot is taken.
SlotFreeWhenTaken == ~closing

SlotFree == ~closing /\ ~producerActive

\* Fault: the frames of a new producer are numbered from one again.
ClaimRestartsGenerations(p) ==
  /\ claim[p] = 0
  /\ SlotFree
  /\ producerActive' = TRUE
  /\ producerGeneration' = producerGeneration + 1
  /\ claim' = [claim EXCEPT ![p] = producerGeneration + 1]
  /\ frameGeneration' = 0
  /\ UNCHANGED <<producerConn, memberVars, latest, closing, queueVars, offers>>

ClaimProducer(p) ==
  /\ claim[p] = 0
  /\ SlotFree
  /\ producerActive' = TRUE
  /\ producerGeneration' = producerGeneration + 1
  /\ claim' = [claim EXCEPT ![p] = producerGeneration + 1]
  /\ UNCHANGED <<producerConn, memberVars, frameVars, closing, queueVars, offers>>

\* Fault: an attach that does not notice that the room is closing.
MayAttachProducerWhenClosing(p) ==
  producerActive /\ claim[p] = producerGeneration

MayAttachProducer(p) ==
  ~closing /\ producerActive /\ claim[p] = producerGeneration

AttachProducer(p) ==
  /\ claim[p] # 0
  /\ MayAttachProducer(p)
  /\ producerConn' = p
  /\ UNCHANGED <<producerActive, producerGeneration, claim, memberVars, frameVars,
                 closing, queueVars, offers>>

\* Fault: a release that leaves the connection in the slot.
ReleaseKeepsConn(p) ==
  /\ claim[p] # 0
  /\ producerActive' = IF claim[p] = producerGeneration THEN FALSE ELSE producerActive
  /\ UNCHANGED <<producerConn, producerGeneration, claim, memberVars, frameVars,
                 closing, queueVars, offers>>

ReleaseProducer(p) ==
  /\ claim[p] # 0
  /\ IF claim[p] = producerGeneration
       THEN /\ producerActive' = FALSE
            /\ producerConn' = None
       ELSE UNCHANGED <<producerActive, producerConn>>
  /\ UNCHANGED <<producerGeneration, claim, memberVars, frameVars, closing,
                 queueVars, offers>>
-----------------------------------------------------------------------------
(***************************************************************************)
(* Frames.  publish registers the frame and copies the viewer set under    *)
(* room.mu, then offers the frame to the copies one at a time without it.  *)
(***************************************************************************)

Publish(p, now) ==
  /\ offers[p] = {}
  /\ frameGeneration < MaxFrames
  /\ frameGeneration' = frameGeneration + 1
  /\ LET update == [generation |-> frameGeneration + 1, publishedAt |-> now]
     IN  /\ latest' = update
         /\ offers' = [offers EXCEPT ![p] = viewers \X {update}]
  /\ UNCHANGED <<slotVars, memberVars, closing, queueVars>>

\* Fault: no generation guard, the last offer wins.
OfferUnordered(v, update) ==
  /\ newest' = [newest EXCEPT ![v] = update.generation]
  /\ updates' = [updates EXCEPT ![v] = update]

\* viewer.offer: the generation guard, then the queued frame is replaced.
Offer(v, update) ==
  IF update.generation > newest[v]
    THEN /\ newest' = [newest EXCEPT ![v] = update.generation]
         /\ updates' = [updates EXCEPT ![v] = update]
    ELSE UNCHANGED <<newest, updates>>

PublishOffer(p, v, update) ==
  /\ <<v, update>> \in offers[p]
  /\ Offer(v, update)
  /\ offers' = [offers EXCEPT ![p] = @ \ {<<v, update>>}]
  /\ UNCHANGED <<slotVars, memberVars, frameVars, closing, handed, taken>>

\* update := <-currentViewer.updates
Take(v) ==
  /\ updates[v] # NoFrame
  /\ taken' = [taken EXCEPT ![v] = updates[v]]
  /\ updates' = [updates EXCEPT ![v] = NoFrame]
  /\ UNCHANGED <<slotVars, memberVars, frameVars, closing, newest, handed, offers>>

Expired(f, now) == now > f.publishedAt + SnapshotTTL

\* Fault: the generations start again with the next frame.
ExpireRestartsGenerations(now) ==
  /\ latest # NoFrame /\ Expired(latest, now)
  /\ latest' = NoFrame
  /\ frameGeneration' = 0
  /\ UNCHANGED <<slotVars, memberVars, closing, queueVars, offers>>

Expire(now) ==
  /\ latest' = IF latest # NoFrame /\ Expired(latest, now) THEN NoFrame ELSE latest
  /\ UNCHANGED <<slotVars, memberVars, frameGeneration, closing, queueVars, offers>>
-----------------------------------------------------------------------------
(***************************************************************************)
(* Viewers.                                                                *)
(***************************************************************************)

\* Fault: one viewer too many.
RoomHasPlaceForOneMore == ~closing /\ Cardinality(viewers) <= MaxViewers

RoomHasPlace == ~closing /\ Cardinality(viewers) < MaxViewers

\* Fault: a joining viewer is not handed the latest frame.
AddViewerWithoutLatest(v, now) ==
  /\ v \notin joined
  /\ RoomHasPlace
  /\ viewers' = viewers \cup {v}
  /\ joined' = joined \cup {v}
  /\ UNCHANGED <<slotVars, viewerConn, frameVars, closing, queueVars, offers>>

AddViewer(v, now) ==
  /\ v \notin joined
  /\ RoomHasPlace
  /\ viewers' = viewers \cup {v}
  /\ joined' = joined \cup {v}
  /\ handed' = [handed EXCEPT ![v] = IF Expired(latest, now) THEN NoFrame ELSE latest]
  /\ UNCHANGED <<slotVars, viewerConn, frameVars, closing, newest, updates, taken, offers>>

MayAttachViewer(v) == ~closing /\ v \in viewers

AttachViewer(v) ==
  /\ MayAttachViewer(v)
  /\ viewerConn' = viewerConn \cup {v}
  /\ UNCHANGED <<slotVars, viewers, joined, frameVars, closing, queueVars, offers>>

\* handleViewer offers the frame addViewer handed out, if there was one.
OfferLatest(v) ==
  /\ IF handed[v] # NoFrame
       THEN Offer(v, handed[v])
       ELSE UNCHANGED <<newest, updates>>
  /\ handed' = [handed EXCEPT ![v] = NoFrame]
  /\ UNCHANGED <<slotVars, memberVars, frameVars, closing, taken, offers>>

RemoveViewer(v) ==
  /\ viewers' = viewers \ {v}
  /\ UNCHANGED <<slotVars, viewerConn, joined, frameVars, closing, queueVars, offers>>

\* Fault: the producer is forgotten.
RoomConnsOfViewers == viewers \cap viewerConn

\* The connections closeConnections collects under the lock.
RoomConns ==
  {v \in viewers : v \in viewerConn} \cup ({producerConn} \ {None})

CloseRoom ==
  /\ closing' = TRUE
  /\ UNCHANGED <<slotVars, memberVars, frameVars, queueVars, offers>>
-----------------------------------------------------------------------------
(***************************************************************************)
(* The room on its own, under callers that may use any operation at any    *)
(* time with any clock reading taken so far.                               *)
(***************************************************************************)

RoomOperation ==
  \/ \E p \in Producers :
       \/ ClaimProducer(p)
       \/ AttachProducer(p)
       \/ ReleaseProducer(p)
       \/ \E now \in 0 .. clock : Publish(p, now)
       \/ \E v \in Viewers, update \in Frame : PublishOffer(p, v, update)
  \/ \E v \in Viewers :
       \/ \E now \in 0 .. clock : AddViewer(v, now)
       \/ AttachViewer(v)
       \/ OfferLatest(v)
       \/ RemoveViewer(v)
       \/ Take(v)
  \/ \E now \in 0 .. clock : Expire(now)
  \/ CloseRoom

RoomNext ==
  \/ RoomOperation /\ UNCHANGED clock
  \/ Advance /\ UNCHANGED roomVars

RoomSpec == RoomInit /\ [][RoomNext]_<<clock, roomVars>>
-----------------------------------------------------------------------------
(***************************************************************************)
(* What the room owes its callers.                                         *)
(***************************************************************************)

\* A room never registers more viewers than its configuration admits,
\* whatever order the handlers come and go in.
ViewersWithinCapacity == Cardinality(viewers) <= MaxViewers

\* The queue of a viewer only ever moves forward: what its writer took is
\* older than what is queued, what is queued is the newest frame it was
\* offered, and nobody was offered a frame the room has not published.
QueueOrder ==
  \A v \in Viewers :
    /\ taken[v].generation <= newest[v]
    /\ newest[v] <= frameGeneration
    /\ updates[v] # NoFrame =>
         /\ updates[v].generation = newest[v]
         /\ taken[v].generation < updates[v].generation

\* A viewer that joins while a frame is being published misses nothing: as
\* long as the latest frame is fresh, every registered viewer was offered
\* it, or still holds it from addViewer, or is still on the list of the
\* publisher.
NoMissedFrame ==
  latest # NoFrame /\ ~Expired(latest, clock) =>
    \A v \in viewers :
      \/ newest[v] >= latest.generation
      \/ handed[v] = latest
      \/ \E p \in Producers : <<v, latest>> \in offers[p]

\* The connection in the producer slot belongs to the holder of the current
\* claim, so that a handler that lost the slot cannot clear it for another.
SlotHolder ==
  producerConn # None =>
    producerActive /\ claim[producerConn] = producerGeneration

\* The room implements the feed: what the writers take is, for each viewer,
\* an increasing choice of the frames published so far.
Feed ==
  INSTANCE LatestValueFeed
    WITH published <- frameGeneration,
         seen <- [v \in Viewers |-> taken[v].generation]

FrameFeed == Feed!Spec
=============================================================================

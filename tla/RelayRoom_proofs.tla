-------------------------- MODULE RelayRoom_proofs --------------------------
(***************************************************************************)
(* Theorems about a room under arbitrary callers (RoomSpec), for every     *)
(* number of producers, viewers, frames and ticks.                         *)
(***************************************************************************)
EXTENDS RelayRoom, TLAPS, FiniteSetTheorems

USE DEF slotVars, memberVars, frameVars, queueVars

\* The empty frame is a frame.
LEMMA NoFrameIsFrame == NoFrame \in Frame
BY RoomAssumption, MaxTimeAssumption DEF NoFrame, Frame

\* The room starts with its types and keeps them.
LEMMA RoomTypeInit == RoomInit => RoomTypeOK
<1> SUFFICES ASSUME RoomInit PROVE RoomTypeOK
  OBVIOUS
<1> USE RoomAssumption, MaxTimeAssumption, NoFrameIsFrame DEF RoomInit, ClockInit
<1>1. clock \in 0 .. MaxTime /\ producerGeneration \in Nat /\ frameGeneration \in 0 .. MaxFrames
  OBVIOUS
<1>2. claim \in [Producers -> Nat] /\ newest \in [Viewers -> 0 .. MaxFrames]
  OBVIOUS
<1>3. /\ updates \in [Viewers -> Frame] /\ handed \in [Viewers -> Frame]
      /\ taken \in [Viewers -> Frame] /\ latest \in Frame
  OBVIOUS
<1>4. offers \in [Producers -> SUBSET (Viewers \X Frame)]
  OBVIOUS
<1>5. /\ producerActive \in BOOLEAN /\ closing \in BOOLEAN
      /\ producerConn \in Producers \cup {None}
      /\ viewers \subseteq Viewers /\ viewerConn \subseteq Viewers /\ joined \subseteq Viewers
  OBVIOUS
<1> QED
  BY <1>1, <1>2, <1>3, <1>4, <1>5 DEF RoomTypeOK, ClockTypeOK

\* Every operation of the room, and the passing of time, keeps the types.
LEMMA RoomTypeStep == RoomTypeOK /\ [RoomNext]_<<clock, roomVars>> => RoomTypeOK'
<1> SUFFICES ASSUME RoomTypeOK, [RoomNext]_<<clock, roomVars>>
             PROVE  RoomTypeOK'
  OBVIOUS
<1> USE RoomAssumption, MaxTimeAssumption, NoFrameIsFrame DEF RoomTypeOK, ClockTypeOK
<1>1. ASSUME NEW p \in Producers, ClaimProducer(p), UNCHANGED clock
      PROVE  RoomTypeOK'
  BY <1>1 DEF ClaimProducer
<1>2. ASSUME NEW p \in Producers, AttachProducer(p), UNCHANGED clock
      PROVE  RoomTypeOK'
  BY <1>2 DEF AttachProducer
<1>3. ASSUME NEW p \in Producers, ReleaseProducer(p), UNCHANGED clock
      PROVE  RoomTypeOK'
  BY <1>3 DEF ReleaseProducer
<1>4. ASSUME NEW p \in Producers, NEW now \in 0 .. clock, Publish(p, now), UNCHANGED clock
      PROVE  RoomTypeOK'
  <2> DEFINE update == [generation |-> frameGeneration + 1, publishedAt |-> now]
  <2>1. update \in Frame /\ frameGeneration' \in 0 .. MaxFrames
    BY <1>4 DEF Publish, Frame
  <2>2. latest' = update /\ offers' = [offers EXCEPT ![p] = viewers \X {update}]
    BY <1>4 DEF Publish
  <2>3. offers' \in [Producers -> SUBSET (Viewers \X Frame)]
    BY <2>1, <2>2
  <2> HIDE DEF update
  <2> QED
    BY <1>4, <2>1, <2>2, <2>3 DEF Publish
<1>5. ASSUME NEW p \in Producers, NEW v \in Viewers, NEW update \in Frame,
             PublishOffer(p, v, update), UNCHANGED clock
      PROVE  RoomTypeOK'
  BY <1>5 DEF PublishOffer, Offer, Frame
<1>6. ASSUME NEW v \in Viewers, NEW now \in 0 .. clock, AddViewer(v, now), UNCHANGED clock
      PROVE  RoomTypeOK'
  BY <1>6 DEF AddViewer
<1>7. ASSUME NEW v \in Viewers, AttachViewer(v), UNCHANGED clock
      PROVE  RoomTypeOK'
  BY <1>7 DEF AttachViewer
<1>8. ASSUME NEW v \in Viewers, OfferLatest(v), UNCHANGED clock
      PROVE  RoomTypeOK'
  <2>1. CASE handed[v] # NoFrame
    BY <1>8, <2>1 DEF OfferLatest, Offer, Frame
  <2>2. CASE handed[v] = NoFrame
    BY <1>8, <2>2 DEF OfferLatest
  <2> QED
    BY <2>1, <2>2
<1>9. ASSUME NEW v \in Viewers, RemoveViewer(v), UNCHANGED clock
      PROVE  RoomTypeOK'
  BY <1>9 DEF RemoveViewer
<1>10. ASSUME NEW v \in Viewers, Take(v), UNCHANGED clock
       PROVE  RoomTypeOK'
  BY <1>10 DEF Take
<1>11. ASSUME NEW now \in 0 .. clock, Expire(now), UNCHANGED clock
       PROVE  RoomTypeOK'
  BY <1>11 DEF Expire
<1>12. ASSUME CloseRoom, UNCHANGED clock
       PROVE  RoomTypeOK'
  BY <1>12 DEF CloseRoom
<1>13. ASSUME Advance, UNCHANGED roomVars
       PROVE  RoomTypeOK'
  BY <1>13 DEF Advance, roomVars
<1>14. ASSUME UNCHANGED <<clock, roomVars>>
       PROVE  RoomTypeOK'
  BY <1>14 DEF roomVars
<1> QED
  BY <1>1, <1>2, <1>3, <1>4, <1>5, <1>6, <1>7, <1>8, <1>9, <1>10, <1>11, <1>12, <1>13, <1>14
     DEF RoomNext, RoomOperation

\* Type correctness of the room.
THEOREM RoomTypeCorrect == RoomSpec => []RoomTypeOK
BY RoomTypeInit, RoomTypeStep, PTL DEF RoomSpec
-----------------------------------------------------------------------------
(***************************************************************************)
(* The producer slot and the capacity of the room are inductive as they    *)
(* stand; each is disturbed by a few operations only.                      *)
(***************************************************************************)

\* Only claim, attach and release touch the slot; each leaves it consistent.
LEMMA SlotHolderStep ==
  RoomTypeOK /\ SlotHolder /\ [RoomNext]_<<clock, roomVars>> => SlotHolder'
<1> SUFFICES ASSUME RoomTypeOK, SlotHolder, [RoomNext]_<<clock, roomVars>>
             PROVE  SlotHolder'
  OBVIOUS
<1> USE RoomAssumption DEF RoomTypeOK, SlotHolder
<1>1. ASSUME NEW p \in Producers, ClaimProducer(p) PROVE SlotHolder'
  BY <1>1 DEF ClaimProducer, SlotFree
<1>2. ASSUME NEW p \in Producers, AttachProducer(p) PROVE SlotHolder'
  BY <1>2 DEF AttachProducer, MayAttachProducer
<1>3. ASSUME NEW p \in Producers, ReleaseProducer(p) PROVE SlotHolder'
  BY <1>3 DEF ReleaseProducer
<1>4. ASSUME UNCHANGED slotVars PROVE SlotHolder'
  BY <1>4
<1> QED
  BY <1>1, <1>2, <1>3, <1>4
     DEF RoomNext, RoomOperation, roomVars, Publish, PublishOffer, AddViewer, AttachViewer,
         OfferLatest, RemoveViewer, Take, Expire, CloseRoom

\* A handler that lost the producer slot never clears it for the next one.
THEOREM RoomKeepsSlotHolder == RoomSpec => []SlotHolder
<1>1. RoomInit => SlotHolder
  BY DEF RoomInit, SlotHolder
<1> QED
  BY <1>1, SlotHolderStep, RoomTypeCorrect, PTL DEF RoomSpec

\* ViewersWithinCapacity with what its induction needs.
Capacity == IsFiniteSet(viewers) /\ ViewersWithinCapacity

\* addViewer asks for a place first, removeViewer only frees one.
LEMMA CapacityStep ==
  RoomTypeOK /\ Capacity /\ [RoomNext]_<<clock, roomVars>> => Capacity'
<1> SUFFICES ASSUME RoomTypeOK, Capacity, [RoomNext]_<<clock, roomVars>>
             PROVE  Capacity'
  OBVIOUS
<1> USE RoomAssumption DEF Capacity, ViewersWithinCapacity
<1>1. ASSUME NEW v \in Viewers, NEW now \in 0 .. clock, AddViewer(v, now) PROVE Capacity'
  <2>1. viewers' = viewers \cup {v} /\ Cardinality(viewers) < MaxViewers
    BY <1>1 DEF AddViewer, RoomHasPlace
  <2>2. IsFiniteSet(viewers) /\ Cardinality(viewers) \in Nat
    BY FS_CardinalityType
  <2>3. IsFiniteSet(viewers \cup {v})
    BY <2>2, FS_AddElement
  <2>4. Cardinality(viewers \cup {v}) \in {Cardinality(viewers), Cardinality(viewers) + 1}
    BY <2>2, FS_AddElement
  <2> QED
    BY <2>1, <2>2, <2>3, <2>4
<1>2. ASSUME NEW v \in Viewers, RemoveViewer(v) PROVE Capacity'
  <2>1. viewers' = viewers \ {v}
    BY <1>2 DEF RemoveViewer
  <2>2. IsFiniteSet(viewers) /\ Cardinality(viewers) \in Nat
    BY FS_CardinalityType
  <2>3. IsFiniteSet(viewers \ {v})
    BY <2>2, FS_RemoveElement
  <2>4. Cardinality(viewers \ {v}) \in {Cardinality(viewers), Cardinality(viewers) - 1}
    BY <2>2, FS_RemoveElement
  <2> QED
    BY <2>1, <2>2, <2>3, <2>4
<1>3. ASSUME UNCHANGED viewers PROVE Capacity'
  BY <1>3
<1> QED
  BY <1>1, <1>2, <1>3
     DEF RoomNext, RoomOperation, roomVars, Publish, PublishOffer, AttachViewer, OfferLatest,
         ClaimProducer, AttachProducer, ReleaseProducer, Take, Expire, CloseRoom

\* The room never admits more viewers than configured.
THEOREM RoomKeepsCapacity == RoomSpec => []ViewersWithinCapacity
<1>1. RoomInit => Capacity
  BY RoomAssumption, FS_EmptySet DEF RoomInit, Capacity, ViewersWithinCapacity
<1>2. Capacity => ViewersWithinCapacity
  BY DEF Capacity
<1> QED
  BY <1>1, <1>2, CapacityStep, RoomTypeCorrect, PTL DEF RoomSpec
-----------------------------------------------------------------------------
(***************************************************************************)
(* The queue of a viewer stays in order because no frame in flight, in the *)
(* hands of a joining viewer or on the list of a publisher, bears a number *)
(* the room has not given out.                                             *)
(***************************************************************************)

\* QueueOrder with what its induction needs.
Numbered ==
  /\ latest # NoFrame => latest.generation = frameGeneration
  /\ \A v \in Viewers : handed[v].generation <= frameGeneration
  /\ \A p \in Producers, v \in Viewers, f \in Frame :
       <<v, f>> \in offers[p] => f.generation <= frameGeneration
  /\ QueueOrder

\* viewer.offer keeps the queue of the viewer in order, whatever numbered
\* frame it is given.
LEMMA OfferKeepsOrder ==
  ASSUME RoomTypeOK, QueueOrder,
         NEW v \in Viewers, NEW f \in Frame, f # NoFrame,
         f.generation <= frameGeneration,
         Offer(v, f), UNCHANGED <<taken, frameGeneration>>
  PROVE  QueueOrder'
<1> USE RoomAssumption DEF RoomTypeOK, Frame
<1>1. CASE f.generation > newest[v]
  <2>1. /\ newest' = [newest EXCEPT ![v] = f.generation]
        /\ updates' = [updates EXCEPT ![v] = f]
    BY <1>1 DEF Offer
  <2> QED
    BY <2>1, <1>1 DEF QueueOrder
<1>2. CASE ~(f.generation > newest[v])
  <2>1. UNCHANGED <<newest, updates>>
    BY <1>2 DEF Offer
  <2> QED
    BY <2>1 DEF QueueOrder
<1> QED
  BY <1>1, <1>2

\* Every operation of the room keeps its frames numbered.
LEMMA NumberedStep ==
  RoomTypeOK /\ Numbered /\ [RoomNext]_<<clock, roomVars>> => Numbered'
<1> SUFFICES ASSUME RoomTypeOK, Numbered, [RoomNext]_<<clock, roomVars>>
             PROVE  Numbered'
  OBVIOUS
<1> USE RoomAssumption, NoFrameIsFrame DEF RoomTypeOK, Frame
<1>1. ASSUME NEW p \in Producers, NEW now \in 0 .. clock, Publish(p, now), UNCHANGED clock
      PROVE  Numbered'
  <2> DEFINE update == [generation |-> frameGeneration + 1, publishedAt |-> now]
  <2>1. /\ frameGeneration' = frameGeneration + 1
        /\ latest' = update
        /\ offers' = [offers EXCEPT ![p] = viewers \X {update}]
        /\ UNCHANGED queueVars
    BY <1>1 DEF Publish
  <2>2. latest'.generation = frameGeneration'
    BY <2>1
  <2>3. \A v \in Viewers : handed'[v].generation <= frameGeneration'
    BY <2>1 DEF Numbered
  <2>4. ASSUME NEW q \in Producers, NEW v \in Viewers, NEW f \in Frame, <<v, f>> \in offers'[q]
        PROVE  f.generation <= frameGeneration'
    <3>1. CASE q = p
      <4>1. f = update
        BY <2>1, <2>4, <3>1
      <4> QED
        BY <2>1, <4>1
    <3>2. CASE q # p
      BY <2>1, <2>4, <3>2 DEF Numbered
    <3> QED
      BY <3>1, <3>2
  <2>5. QueueOrder'
    BY <2>1 DEF Numbered, QueueOrder
  <2> QED
    BY <2>2, <2>3, <2>4, <2>5 DEF Numbered
<1>2. ASSUME NEW p \in Producers, NEW v \in Viewers, NEW update \in Frame,
             PublishOffer(p, v, update)
      PROVE  Numbered'
  <2>1. update.generation <= frameGeneration
    BY <1>2 DEF PublishOffer, Numbered
  <2>2. CASE update = NoFrame
    <3>1. UNCHANGED <<newest, updates>>
      BY <1>2, <2>2 DEF PublishOffer, Offer, NoFrame
    <3> QED
      BY <1>2, <3>1 DEF PublishOffer, Numbered, QueueOrder
  <2>3. CASE update # NoFrame
    <3>1. QueueOrder'
      BY <1>2, <2>1, <2>3, OfferKeepsOrder DEF PublishOffer, Numbered
    <3> QED
      BY <1>2, <3>1 DEF PublishOffer, Numbered
  <2> QED
    BY <2>2, <2>3
<1>3. ASSUME NEW v \in Viewers, NEW now \in 0 .. clock, AddViewer(v, now)
      PROVE  Numbered'
  <2>1. handed' = [handed EXCEPT ![v] = IF Expired(latest, now) THEN NoFrame ELSE latest]
    BY <1>3 DEF AddViewer
  <2>2. NoFrame.generation <= frameGeneration /\ latest.generation <= frameGeneration
    BY DEF Numbered, NoFrame
  <2>3. \A w \in Viewers : handed'[w].generation <= frameGeneration
    BY <2>1, <2>2 DEF Numbered
  <2> QED
    BY <1>3, <2>3 DEF AddViewer, Numbered, QueueOrder
<1>4. ASSUME NEW v \in Viewers, OfferLatest(v)
      PROVE  Numbered'
  <2>1. /\ handed' = [handed EXCEPT ![v] = NoFrame]
        /\ UNCHANGED <<taken, frameGeneration, latest, offers>>
    BY <1>4 DEF OfferLatest
  <2>2. \A w \in Viewers : handed'[w].generation <= frameGeneration'
    BY <2>1 DEF Numbered, NoFrame
  <2>3. QueueOrder'
    <3>1. CASE handed[v] # NoFrame
      BY <1>4, <2>1, <3>1, OfferKeepsOrder DEF OfferLatest, Numbered
    <3>2. CASE handed[v] = NoFrame
      BY <1>4, <2>1, <3>2 DEF OfferLatest, Numbered, QueueOrder
    <3> QED
      BY <3>1, <3>2
  <2> QED
    BY <2>1, <2>2, <2>3 DEF Numbered
<1>5. ASSUME NEW v \in Viewers, Take(v)
      PROVE  Numbered'
  <2>1. QueueOrder'
    BY <1>5 DEF Take, Numbered, QueueOrder
  <2> QED
    BY <1>5, <2>1 DEF Take, Numbered
<1>6. ASSUME NEW now \in 0 .. clock, Expire(now)
      PROVE  Numbered'
  BY <1>6 DEF Expire, Numbered, QueueOrder
<1>7. ASSUME UNCHANGED <<frameVars, queueVars, offers>>
      PROVE  Numbered'
  BY <1>7 DEF Numbered, QueueOrder
<1> QED
  BY <1>1, <1>2, <1>3, <1>4, <1>5, <1>6, <1>7
     DEF RoomNext, RoomOperation, roomVars, ClaimProducer, AttachProducer, ReleaseProducer,
         AttachViewer, RemoveViewer, CloseRoom

\* A room starts without frames.
LEMMA NumberedInit == RoomInit => Numbered
BY DEF RoomInit, Numbered, QueueOrder, NoFrame

\* The queue of a viewer only ever moves forward, for any number of
\* producers, viewers and frames.
THEOREM RoomKeepsQueueOrder == RoomSpec => []QueueOrder
<1>1. Numbered => QueueOrder
  BY DEF Numbered
<1> QED
  BY <1>1, NumberedInit, NumberedStep, RoomTypeCorrect, PTL DEF RoomSpec
-----------------------------------------------------------------------------
(***************************************************************************)
(* A viewer that registers while a frame is being published either is on   *)
(* the publisher's copy of the viewer set or was handed the frame.         *)
(***************************************************************************)

\* An offer brings the queue to the frame offered, and never back.
LEMMA OfferMovesForward ==
  ASSUME RoomTypeOK, NEW v \in Viewers, NEW f \in Frame, Offer(v, f)
  PROVE  /\ newest'[v] >= f.generation
         /\ \A w \in Viewers : newest'[w] >= newest[w]
BY SMTT(30), RoomAssumption DEF Offer, RoomTypeOK, Frame

\* What NoMissedFrame asks of a registered viewer.
Reached(w) ==
  \/ newest[w] >= latest.generation
  \/ handed[w] = latest
  \/ \E p \in Producers : <<w, latest>> \in offers[p]

\* No operation makes a registered viewer miss the latest frame.
LEMMA NoMissedFrameStep ==
  RoomTypeOK /\ NoMissedFrame /\ [RoomNext]_<<clock, roomVars>> => NoMissedFrame'
<1> SUFFICES ASSUME RoomTypeOK, RoomTypeOK', NoMissedFrame, [RoomNext]_<<clock, roomVars>>,
                    latest' # NoFrame, ~Expired(latest', clock'),
                    NEW w \in viewers'
             PROVE  Reached(w)'
  BY RoomTypeStep DEF NoMissedFrame, Reached
<1> USE RoomAssumption, MaxTimeAssumption, NoFrameIsFrame DEF RoomTypeOK, ClockTypeOK, Frame
<1>1. ASSUME w \in viewers, latest' = latest, clock' >= clock
      PROVE  Reached(w)
  <2>1. ~Expired(latest, clock)
    BY <1>1 DEF Expired
  <2> QED
    BY <1>1, <2>1 DEF NoMissedFrame, Reached
<1>2. ASSUME NEW p \in Producers, NEW now \in 0 .. clock, Publish(p, now), UNCHANGED clock
      PROVE  Reached(w)'
  <2>1. /\ offers' = [offers EXCEPT ![p] = viewers \X {latest'}]
        /\ UNCHANGED viewers
    BY <1>2 DEF Publish
  <2>2. <<w, latest'>> \in offers'[p]
    BY <2>1
  <2> QED
    BY <2>2 DEF Reached
<1>3. ASSUME NEW p \in Producers, NEW v \in Viewers, NEW update \in Frame,
             PublishOffer(p, v, update), UNCHANGED clock
      PROVE  Reached(w)'
  <2>1. /\ Offer(v, update)
        /\ offers' = [offers EXCEPT ![p] = @ \ {<<v, update>>}]
        /\ UNCHANGED <<latest, viewers, handed>>
    BY <1>3 DEF PublishOffer
  <2>2. w \in Viewers /\ Reached(w)
    BY <1>1, <1>3, <2>1
  <2>3. /\ newest'[v] >= update.generation
        /\ newest'[w] >= newest[w]
        /\ newest' \in [Viewers -> 0 .. MaxFrames]
    BY <2>1, <2>2, OfferMovesForward
  <2>4. CASE newest[w] >= latest.generation
    BY <2>1, <2>2, <2>3, <2>4 DEF Reached
  <2>5. CASE handed[w] = latest
    BY <2>1, <2>5 DEF Reached
  <2>6. ASSUME NEW q \in Producers, <<w, latest>> \in offers[q]
        PROVE  Reached(w)'
    <3>1. CASE w = v /\ latest = update
      BY <2>1, <2>3, <3>1 DEF Reached
    <3>2. CASE ~(w = v /\ latest = update)
      <4>1. <<w, latest>> \in offers'[q]
        BY <2>1, <2>6, <3>2
      <4> QED
        BY <2>1, <4>1 DEF Reached
    <3> QED
      BY <3>1, <3>2
  <2> QED
    BY <2>2, <2>4, <2>5, <2>6 DEF Reached
<1>4. ASSUME NEW v \in Viewers, NEW now \in 0 .. clock, AddViewer(v, now), UNCHANGED clock
      PROVE  Reached(w)'
  <2>1. /\ handed' = [handed EXCEPT ![v] = IF Expired(latest, now) THEN NoFrame ELSE latest]
        /\ viewers' = viewers \cup {v}
        /\ UNCHANGED <<latest, newest, offers>>
    BY <1>4 DEF AddViewer
  <2>2. CASE w = v
    <3>1. ~Expired(latest, now)
      BY <1>4, <2>1 DEF Expired
    <3> QED
      BY <2>1, <2>2, <3>1 DEF Reached
  <2>3. CASE w # v
    <3>1. w \in viewers /\ handed'[w] = handed[w] /\ Reached(w)
      BY <1>1, <1>4, <2>1, <2>3
    <3> QED
      BY <2>1, <3>1 DEF Reached
  <2> QED
    BY <2>2, <2>3
<1>5. ASSUME NEW v \in Viewers, OfferLatest(v), UNCHANGED clock
      PROVE  Reached(w)'
  <2>1. /\ IF handed[v] # NoFrame THEN Offer(v, handed[v]) ELSE UNCHANGED <<newest, updates>>
        /\ handed' = [handed EXCEPT ![v] = NoFrame]
        /\ UNCHANGED <<latest, viewers, offers>>
    BY <1>5 DEF OfferLatest
  <2>2. w \in Viewers /\ Reached(w)
    BY <1>1, <1>5, <2>1
  <2>3. /\ newest'[w] >= newest[w]
        /\ handed[v] # NoFrame => newest'[v] >= handed[v].generation
        /\ newest' \in [Viewers -> 0 .. MaxFrames]
    BY <2>1, <2>2, OfferMovesForward
  <2>4. CASE handed[w] = latest /\ w = v
    BY <2>1, <2>3, <2>4 DEF Reached
  <2>5. CASE ~(handed[w] = latest /\ w = v)
    <3>1. CASE newest[w] >= latest.generation
      BY <2>1, <2>2, <2>3, <3>1 DEF Reached
    <3>2. CASE handed[w] = latest
      BY <2>1, <2>2, <2>5, <3>2 DEF Reached
    <3>3. CASE \E p \in Producers : <<w, latest>> \in offers[p]
      BY <2>1, <3>3 DEF Reached
    <3> QED
      BY <2>2, <3>1, <3>2, <3>3 DEF Reached
  <2> QED
    BY <2>4, <2>5
<1>6. ASSUME NEW now \in 0 .. clock, Expire(now), UNCHANGED clock
      PROVE  Reached(w)'
  <2>1. latest' = latest /\ UNCHANGED <<viewers, newest, handed, offers>>
    BY <1>6 DEF Expire
  <2>2. Reached(w)
    BY <1>1, <1>6, <2>1
  <2> QED
    BY <2>1, <2>2 DEF Reached
<1>7. ASSUME viewers' \subseteq viewers, UNCHANGED <<latest, newest, handed, offers>>,
             clock' >= clock
      PROVE  Reached(w)'
  <2>1. Reached(w)
    BY <1>1, <1>7
  <2> QED
    BY <1>7, <2>1 DEF Reached
<1>8. ASSUME Advance, UNCHANGED roomVars PROVE clock' >= clock
  BY <1>8 DEF Advance
<1> QED
  BY <1>2, <1>3, <1>4, <1>5, <1>6, <1>7, <1>8
     DEF RoomNext, RoomOperation, roomVars, ClaimProducer, AttachProducer, ReleaseProducer,
         AttachViewer, RemoveViewer, Take, CloseRoom

\* As long as the latest frame is fresh, no registered viewer misses it.
THEOREM RoomMissesNoFrame == RoomSpec => []NoMissedFrame
<1>1. RoomInit => NoMissedFrame
  BY DEF RoomInit, NoMissedFrame
<1> QED
  BY <1>1, NoMissedFrameStep, RoomTypeCorrect, PTL DEF RoomSpec
-----------------------------------------------------------------------------
(***************************************************************************)
(* The room implements the abstract feed: publish is PublishNext, a take   *)
(* is Show, and every other operation is a stutter.                        *)
(***************************************************************************)

\* Every step of the room is a step of the feed or leaves it alone.
LEMMA FeedStep ==
  ASSUME RoomTypeOK, Numbered, [RoomNext]_<<clock, roomVars>>
  PROVE  [Feed!Next]_Feed!feedVars
<1> DEFINE seenBy == [v \in Viewers |-> taken[v].generation]
<1> USE RoomAssumption DEF RoomTypeOK, Frame
<1>1. ASSUME NEW p \in Producers, NEW now \in 0 .. clock, Publish(p, now)
      PROVE  Feed!PublishNext
  BY <1>1 DEF Publish, Feed!PublishNext
<1>2. ASSUME NEW v \in Viewers, Take(v)
      PROVE  Feed!Show(v)
  <2>1. /\ taken' = [taken EXCEPT ![v] = updates[v]]
        /\ UNCHANGED frameGeneration
        /\ updates[v] # NoFrame
    BY <1>2 DEF Take
  <2>2. updates[v].generation \in seenBy[v] + 1 .. frameGeneration
    BY <2>1 DEF Numbered, QueueOrder
  <2>3. seenBy' = [seenBy EXCEPT ![v] = updates[v].generation]
    BY <2>1
  <2> QED
    BY <2>1, <2>2, <2>3 DEF Feed!Show
<1>3. ASSUME UNCHANGED <<frameGeneration, taken>>
      PROVE  UNCHANGED Feed!feedVars
  BY <1>3 DEF Feed!feedVars
<1> QED
  BY <1>1, <1>2, <1>3
     DEF RoomNext, RoomOperation, roomVars, Feed!Next, ClaimProducer, AttachProducer,
         ReleaseProducer, PublishOffer, AddViewer, AttachViewer, OfferLatest, RemoveViewer,
         Expire, CloseRoom

\* A room under any callers is a feed of increasing frames.
THEOREM RoomImplementsFeed == RoomSpec => FrameFeed
<1>1. RoomInit => Feed!Init
  BY DEF RoomInit, Feed!Init, NoFrame
<1> QED
  BY <1>1, FeedStep, NumberedInit, NumberedStep, RoomTypeCorrect, PTL
     DEF RoomSpec, FrameFeed, Feed!Spec
=============================================================================

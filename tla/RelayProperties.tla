--------------------------- MODULE RelayProperties ---------------------------
(***************************************************************************)
(* The properties of the relay that need the handlers: the program         *)
(* counters say what a slot, a reservation or a connection is held for.    *)
(* Those of a room and of the session table alone are in their modules.    *)
(***************************************************************************)
EXTENDS RelayServer

\* From reserveViewer to the deferred releaseViewer.
HoldsReservation(v) ==
  vpc[v] \in {"reserved", "added", "upgraded", "inRoom", "inSession", "serving",
              "leaving", "releasing"}

\* From addViewer to the deferred removeViewer.
HoldsRoomPlace(v) ==
  vpc[v] \in {"added", "upgraded", "inRoom", "inSession", "serving", "leaving"}

\* Every place that is taken has a handler that will give it back, and every
\* handler that counts on a place has it: handleViewer's deferred calls
\* neither leak nor release early, on any of its error paths.
PlacesHeld ==
  /\ \A s \in Sessions :
       reservations[s] = {v \in Viewers : sessionOf[v] = s /\ HoldsReservation(v)}
  /\ viewers = {v \in Viewers : HoldsRoomPlace(v)}

\* From claimProducer to releaseProducer.
HoldsSlot(p) ==
  ppc[p] \in {"claimed", "upgraded", "serving", "publishing", "offering", "releasing"}

\* The room has at most one producer from its claim to its release, whether
\* or not its connection still stands, and the slot is taken exactly then.
OneProducer ==
  /\ producerActive = (\E p \in Producers : HoldsSlot(p))
  /\ \A p, q \in Producers : HoldsSlot(p) /\ HoldsSlot(q) => p = q

\* Frames are registered in the order their payloads were read, across a
\* change of producer too: a room never goes back to an older snapshot.
PublishedInOrder ==
  [][latest # latest' /\ latest # NoFrame /\ latest' # NoFrame =>
       /\ latest'.generation > latest.generation
       /\ latest'.publishedAt >= latest.publishedAt]_vars

\* No data write succeeds at or past the instant the frame goes stale, even
\* when the peer stalls the write: the write deadline cuts it off.
NoStaleWrite ==
  [][\A v \in Viewers :
       wpc[v] = "writing" /\ wpc'[v] = "select" =>
         clock < taken[v].publishedAt + SnapshotTTL]_vars

\* A login that replaces a session never loses it for nothing: the place it
\* frees is still there when the new session is inserted.
ReplacementSucceeds ==
  [][\A r \in Requests :
       rpc[r] = "creating" /\ replaced'[r] # {} => \E s \in sessions' : ~Created(s)]_vars

\* When Server.Close has returned, a connection still open belongs to a
\* handler that has only just upgraded it, and that the room will refuse.
ShutdownLeavesNoConnection ==
  phase = "closed" =>
    /\ \A v \in Viewers : socket[v] = "open" => vpc[v] = "upgraded" /\ ~MayAttachViewer(v)
    /\ \A p \in Producers : socket[p] = "open" => ppc[p] = "upgraded" /\ ~MayAttachProducer(p)

\* After a graceful drain no session is left in the table, and none appears.
ShutdownClearsSessions ==
  phase \in {"closing", "closed"} /\ ~DrainMayTimeOut => sessions = {}

\* An attached viewer is gone some time after its session expires, whether
\* its timer, the janitor, a request or a stalled write gets there first.
ExpiredViewersLeave ==
  \A v \in Viewers : vpc[v] = "serving" /\ ExpiryFired(v) ~> vpc[v] = "done"

\* Close has returned and nothing of the relay is left running.
Quiet ==
  /\ phase = "closed"
  /\ \A v \in Viewers : vpc[v] \in {"idle", "done"} /\ wpc[v] \in {"off", "exited"}
  /\ \A p \in Producers : ppc[p] \in {"idle", "done"}
  /\ ~producerActive

\* Shutdown terminates: Close returns, every handler that was running is
\* gone and the producer slot is free.
ShutdownCompletes == phase = "draining" ~> Quiet

\* A fresh frame reaches every viewer that is being served, or a newer one
\* does, unless what the room has to offer goes stale or the viewer leaves.
FrameArrives ==
  \A v \in Viewers, g \in 1 .. MaxFrames :
    vpc[v] = "serving" /\ latest.generation = g ~>
      taken[v].generation >= g \/ ~Writable(latest, clock) \/ wpc[v] = "exited"

\* The session expired, was replaced or was deleted.
EndedByItself(s) == clock >= expiresAt[s] \/ revokedWith[s] = SessionEnded

\* The README on shutdown: viewers are closed with the server-shutdown frame,
\* so 4401 is only for a session that ended for a reason of its own.
ShutdownCodeIsGoingAway ==
  \A v \in Viewers : closeCode[v] = SessionEnded => EndedByItself(sessionOf[v])

\* The README on expiry and on logout: active viewers close with 4401.  A
\* viewer that was never written to cannot be the one a closing loop has to
\* wait for, so the loop has written a close frame before it closes it.
LoopSendsCloseFrame ==
  [][\A a \in Actors, v \in Viewers :
       v \in toClose[a] \ toClose'[a] /\ socket[v] = "open" /\ taken[v] = NoFrame =>
         closeCode'[v] # NoCode]_vars
=============================================================================

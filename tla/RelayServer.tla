----------------------------- MODULE RelayServer -----------------------------
(***************************************************************************)
(* The relay process: the HTTP handlers of server.go, the writer goroutine *)
(* of each viewer, the janitor, and the shutdown of main.go, run over one  *)
(* room (RelayRoom), the session table (RelaySession) and the connections  *)
(* of both (RelaySocket).  A handler is a program counter; each of its     *)
(* steps is one call that takes a lock, touches a connection or waits, so  *)
(* the interleavings of the model are those of the goroutines.             *)
(*                                                                         *)
(* A reading of the clock that is not used again is set back to zero.      *)
(*                                                                         *)
(* A handler is invoked once.  What a client or a network does (a request, *)
(* a cookie, a lost peer, a stalled write) is chosen freely.               *)
(***************************************************************************)
EXTENDS RelayRoom, RelaySession

CONSTANTS
  Requests,          \* invocations of handleSession
  Janitor,           \* the goroutine of runJanitor
  MayShutDown,       \* whether the process is asked to stop
  DrainMayTimeOut    \* whether httpServer.Shutdown may give up waiting

ASSUME ServerAssumption ==
  /\ Conns = Viewers \cup Producers
  /\ Actors = Viewers \cup Requests \cup {Janitor, Closer}
  /\ Viewers \cap Producers = {}
  /\ {MayShutDown, DrainMayTimeOut} \subseteq BOOLEAN

VARIABLES
  ready,         \* Server.ready
  phase,         \* where shutdown stands
  vpc,           \* handleViewer
  sessionOf,     \* currentSession of handleViewer
  wpc,           \* writeViewer
  ppc,           \* handleProducer
  readAt,        \* now of handleProducer: when the payload was read
  rpc,           \* handleSession
  loginAt,       \* now of handleCreateSession: read before the body is
  jpc,           \* runJanitor
  tickAt         \* the tick runJanitor is serving

handlerVars == <<vpc, sessionOf, wpc, ppc, readAt, rpc, loginAt>>
processVars == <<ready, phase, jpc, tickAt>>
vars == <<clock, roomVars, socketVars, sessionVars, handlerVars, processVars>>

ViewerPC == {"idle", "admitted", "rejecting", "authenticated", "reserved", "added",
             "upgraded", "inRoom", "inSession", "serving", "leaving", "releasing", "done"}
WriterPC == {"off", "select", "writing", "expiring", "exited"}
ProducerPC == {"idle", "admitted", "claimed", "upgraded", "serving", "publishing",
               "offering", "releasing", "done"}
RequestPC == {"idle", "creating", "revoking", "done"}
JanitorPC == {"idle", "pruning", "revoking", "stopped"}
Phases == {"serving", "draining", "stopping", "revoking", "closing", "closed"}

TypeOK ==
  /\ RoomTypeOK
  /\ SessionTypeOK
  /\ ready \in BOOLEAN
  /\ phase \in Phases
  /\ vpc \in [Viewers -> ViewerPC]
  /\ sessionOf \in [Viewers -> Sessions \cup {None}]
  /\ wpc \in [Viewers -> WriterPC]
  /\ ppc \in [Producers -> ProducerPC]
  /\ readAt \in [Producers -> 0 .. MaxTime]
  /\ rpc \in [Requests -> RequestPC]
  /\ loginAt \in [Requests -> 0 .. MaxTime]
  /\ jpc \in JanitorPC
  /\ tickAt \in 0 .. MaxTime

Init ==
  /\ RoomInit
  /\ SocketInit
  /\ SessionInit
  /\ ready = TRUE
  /\ phase = "serving"
  /\ vpc = [v \in Viewers |-> "idle"]
  /\ sessionOf = [v \in Viewers |-> None]
  /\ wpc = [v \in Viewers |-> "off"]
  /\ ppc = [p \in Producers |-> "idle"]
  /\ readAt = [p \in Producers |-> 0]
  /\ rpc = [r \in Requests |-> "idle"]
  /\ loginAt = [r \in Requests |-> 0]
  /\ jpc = "idle"
  /\ tickAt = 0

ViewerGoes(v, from, to) == vpc[v] = from /\ vpc' = [vpc EXCEPT ![v] = to]
WriterGoes(v, from, to) == wpc[v] = from /\ wpc' = [wpc EXCEPT ![v] = to]
ProducerGoes(p, from, to) == ppc[p] = from /\ ppc' = [ppc EXCEPT ![p] = to]
RequestGoes(r, from, to) == rpc[r] = from /\ rpc' = [rpc EXCEPT ![r] = to]
JanitorGoes(from, to) == jpc = from /\ jpc' = to
PhaseGoes(from, to) == phase = from /\ phase' = to

viewerRest == <<wpc, ppc, readAt, rpc, loginAt>>
writerRest == <<vpc, sessionOf, ppc, readAt, rpc, loginAt>>
producerRest == <<vpc, sessionOf, wpc, rpc, loginAt>>
requestRest == <<vpc, sessionOf, wpc, ppc, readAt>>

\* Conn of a successful Upgrade.
OpenSocket(c) ==
  /\ socket[c] = "none"
  /\ socket' = [socket EXCEPT ![c] = "open"]
  /\ UNCHANGED <<closeCode, writing, toClose, deadline>>

HangUp(c) == CloseSocket(c) /\ UNCHANGED <<writing, toClose, deadline>>

\* closeWebSocket then Close; a data write in progress holds the mutex for
\* longer than the second closeWebSocket waits, or not.
HangUpWith(c, code) ==
  /\ \/ c \notin writing /\ CloseWithFrame(c, code)
     \/ c \in writing /\ CloseSocket(c)
  /\ UNCHANGED <<writing, toClose, deadline>>
-----------------------------------------------------------------------------
(***************************************************************************)
(* handleViewer                                                            *)
(***************************************************************************)

ViewerAdmitted(v) ==
  /\ ready
  /\ ViewerGoes(v, "idle", "admitted")
  /\ UNCHANGED <<clock, roomVars, socketVars, sessionVars, sessionOf, viewerRest, processVars>>

\* authenticateSession: the cookie names no session, a valid one, or one
\* that is removed and revoked on the spot.
ViewerUnauthenticated(v) ==
  /\ Sessions \ sessions # {}
  /\ ViewerGoes(v, "admitted", "done")
  /\ UNCHANGED <<clock, roomVars, socketVars, sessionVars, sessionOf, viewerRest, processVars>>

ViewerAuthenticated(v, s) ==
  /\ s \in sessions
  /\ Valid(s, clock)
  /\ ViewerGoes(v, "admitted", "authenticated")
  /\ sessionOf' = [sessionOf EXCEPT ![v] = s]
  /\ UNCHANGED <<clock, roomVars, socketVars, sessionVars, viewerRest, processVars>>

ViewerFindsInvalid(v, s) ==
  /\ ViewerGoes(v, "admitted", "rejecting")
  /\ ~Valid(s, clock)
  /\ TakeOut(v, s)
  /\ UNCHANGED <<clock, roomVars, sessionOf, viewerRest, processVars>>

ViewerRejected(v) ==
  /\ ViewerGoes(v, "rejecting", "done")
  /\ LoopDone(v)
  /\ UNCHANGED <<clock, roomVars, socketVars, sessionVars, sessionOf, viewerRest, processVars>>

ViewerReserves(v) ==
  /\ ViewerGoes(v, "authenticated", "reserved")
  /\ Reserve(sessionOf[v], v, clock)
  /\ UNCHANGED <<clock, roomVars, sessionOf, viewerRest, processVars>>

ViewerOverLimit(v) ==
  /\ ViewerGoes(v, "authenticated", "done")
  /\ ~MayReserve(sessionOf[v], clock)
  /\ UNCHANGED <<clock, roomVars, socketVars, sessionVars, sessionOf, viewerRest, processVars>>

ViewerEntersRoom(v) ==
  /\ ViewerGoes(v, "reserved", "added")
  /\ AddViewer(v, clock)
  /\ UNCHANGED <<clock, socketVars, sessionVars, sessionOf, viewerRest, processVars>>

\* Fault: the reservation is not given back when the room is full.
ViewerRoomFullLeaks(v) ==
  /\ ViewerGoes(v, "reserved", "done")
  /\ ~RoomHasPlace
  /\ UNCHANGED <<clock, roomVars, socketVars, sessionVars, sessionOf, viewerRest, processVars>>

ViewerRoomFull(v) ==
  /\ ViewerGoes(v, "reserved", "releasing")
  /\ ~RoomHasPlace
  /\ UNCHANGED <<clock, roomVars, socketVars, sessionVars, sessionOf, viewerRest, processVars>>

ViewerUpgrades(v) ==
  /\ ViewerGoes(v, "added", "upgraded")
  /\ OpenSocket(v)
  /\ UNCHANGED <<clock, roomVars, sessionVars, sessionOf, viewerRest, processVars>>

ViewerUpgradeFails(v) ==
  /\ ViewerGoes(v, "added", "leaving")
  /\ UNCHANGED <<clock, roomVars, socketVars, sessionVars, sessionOf, viewerRest, processVars>>

ViewerAttachesToRoom(v) ==
  /\ ViewerGoes(v, "upgraded", "inRoom")
  /\ AttachViewer(v)
  /\ UNCHANGED <<clock, socketVars, sessionVars, sessionOf, viewerRest, processVars>>

ViewerRoomClosing(v) ==
  /\ ViewerGoes(v, "upgraded", "leaving")
  /\ ~MayAttachViewer(v)
  /\ HangUp(v)
  /\ UNCHANGED <<clock, roomVars, sessionVars, sessionOf, viewerRest, processVars>>

ViewerAttachesToSession(v) ==
  /\ ViewerGoes(v, "inRoom", "inSession")
  /\ Attach(sessionOf[v], v, clock)
  /\ UNCHANGED <<clock, roomVars, sessionOf, viewerRest, processVars>>

ViewerSessionGone(v) ==
  /\ ViewerGoes(v, "inRoom", "leaving")
  /\ ~MayAttach(sessionOf[v], v, clock)
  /\ HangUpWith(v, SessionEnded)
  /\ UNCHANGED <<clock, roomVars, sessionVars, sessionOf, viewerRest, processVars>>

\* The frame of addViewer is offered, then writeViewer is started.
ViewerStartsWriter(v) ==
  /\ ViewerGoes(v, "inSession", "serving")
  /\ OfferLatest(v)
  /\ wpc' = [wpc EXCEPT ![v] = "select"]
  /\ UNCHANGED <<clock, socketVars, sessionVars, sessionOf, ppc, readAt, rpc, loginAt, processVars>>

\* ReadMessage fails: someone closed the connection, the read deadline
\* passed or the peer is gone.  The deferred Close follows.
ViewerReadFails(v) ==
  /\ ViewerGoes(v, "serving", "leaving")
  /\ HangUp(v)
  /\ UNCHANGED <<clock, roomVars, sessionVars, sessionOf, viewerRest, processVars>>

ViewerSpeaks(v) ==
  /\ socket[v] = "open"
  /\ ViewerGoes(v, "serving", "leaving")
  /\ HangUpWith(v, Refused)
  /\ UNCHANGED <<clock, roomVars, sessionVars, sessionOf, viewerRest, processVars>>

ViewerLeavesRoom(v) ==
  /\ ViewerGoes(v, "leaving", "releasing")
  /\ RemoveViewer(v)
  /\ UNCHANGED <<clock, socketVars, sessionVars, sessionOf, viewerRest, processVars>>

ViewerReleases(v) ==
  /\ ViewerGoes(v, "releasing", "done")
  /\ Release(sessionOf[v], v)
  /\ UNCHANGED <<clock, roomVars, sessionOf, viewerRest, processVars>>
-----------------------------------------------------------------------------
(***************************************************************************)
(* writeViewer.  "done" is closed once the handler is past serving; the    *)
(* session's done is closed when it is revoked.  When several cases of the *)
(* select are ready, any of them may be taken.                             *)
(***************************************************************************)

HandlerGone(v) == vpc[v] \in {"leaving", "releasing", "done"}

WriterStops(v) ==
  /\ WriterGoes(v, "select", "exited")
  /\ HandlerGone(v) \/ Revoked(sessionOf[v])
  /\ UNCHANGED <<clock, roomVars, socketVars, sessionVars, writerRest, processVars>>

ExpiryFired(v) == clock >= expiresAt[sessionOf[v]]

WriterExpires(v) ==
  /\ WriterGoes(v, "select", "expiring")
  /\ ExpiryFired(v)
  /\ RevokeOne(v, sessionOf[v])
  /\ UNCHANGED <<clock, roomVars, writerRest, processVars>>

WriterExpired(v) ==
  /\ WriterGoes(v, "expiring", "exited")
  /\ LoopDone(v)
  /\ UNCHANGED <<clock, roomVars, socketVars, sessionVars, writerRest, processVars>>

\* The frame is worth writing as long as it is younger than the TTL; the
\* write deadline falls on the same instant.
Writable(f, now) == f.publishedAt + SnapshotTTL > now

WriterTakes(v) ==
  /\ wpc[v] = "select"
  /\ Take(v)
  /\ IF Writable(updates[v], clock)
       THEN /\ WriterGoes(v, "select", "writing")
            /\ writing' = writing \cup {v}
       ELSE UNCHANGED <<wpc, writing>>
  /\ UNCHANGED <<clock, socket, closeCode, toClose, deadline, sessionVars, writerRest, processVars>>

\* Fault: the write deadline does not follow the age of the frame.
WriteSucceedsLate(v) == socket[v] = "open" /\ closeCode[v] = NoCode

\* A close frame sent before it, or a closed connection, fails the write.
WriteSucceeds(v) ==
  /\ socket[v] = "open"
  /\ closeCode[v] = NoCode
  /\ Writable(taken[v], clock)

WriterWrites(v) ==
  /\ WriterGoes(v, "writing", "select")
  /\ WriteSucceeds(v)
  /\ writing' = writing \ {v}
  /\ UNCHANGED <<clock, roomVars, socket, closeCode, toClose, deadline, sessionVars,
                 writerRest, processVars>>

\* notifyFailure, then Close; the handler leaves by way of ReadMessage.
WriterFails(v) ==
  /\ WriterGoes(v, "writing", "exited")
  /\ CloseSocket(v)
  /\ writing' = writing \ {v}
  /\ UNCHANGED <<clock, roomVars, toClose, deadline, sessionVars, writerRest, processVars>>

WriterPingFails(v) ==
  /\ WriterGoes(v, "select", "exited")
  /\ HangUp(v)
  /\ UNCHANGED <<clock, roomVars, sessionVars, writerRest, processVars>>
-----------------------------------------------------------------------------
(***************************************************************************)
(* handleProducer                                                          *)
(***************************************************************************)

ProducerAdmitted(p) ==
  /\ ready
  /\ ProducerGoes(p, "idle", "admitted")
  /\ UNCHANGED <<clock, roomVars, socketVars, sessionVars, readAt, producerRest, processVars>>

ProducerClaims(p) ==
  /\ ProducerGoes(p, "admitted", "claimed")
  /\ ClaimProducer(p)
  /\ UNCHANGED <<clock, socketVars, sessionVars, readAt, producerRest, processVars>>

ProducerConflict(p) ==
  /\ ProducerGoes(p, "admitted", "done")
  /\ ~SlotFree
  /\ UNCHANGED <<clock, roomVars, socketVars, sessionVars, readAt, producerRest, processVars>>

ProducerUpgrades(p) ==
  /\ ProducerGoes(p, "claimed", "upgraded")
  /\ OpenSocket(p)
  /\ UNCHANGED <<clock, roomVars, sessionVars, readAt, producerRest, processVars>>

ProducerUpgradeFails(p) ==
  /\ ProducerGoes(p, "claimed", "releasing")
  /\ UNCHANGED <<clock, roomVars, socketVars, sessionVars, readAt, producerRest, processVars>>

ProducerAttaches(p) ==
  /\ ProducerGoes(p, "upgraded", "serving")
  /\ AttachProducer(p)
  /\ UNCHANGED <<clock, socketVars, sessionVars, readAt, producerRest, processVars>>

ProducerRoomClosing(p) ==
  /\ ProducerGoes(p, "upgraded", "releasing")
  /\ ~MayAttachProducer(p)
  /\ HangUp(p)
  /\ UNCHANGED <<clock, roomVars, sessionVars, readAt, producerRest, processVars>>

\* A valid snapshot arrives; now is read before the checks and publish.
ProducerReads(p) ==
  /\ socket[p] = "open"
  /\ frameGeneration < MaxFrames
  /\ ProducerGoes(p, "serving", "publishing")
  /\ readAt' = [readAt EXCEPT ![p] = clock]
  /\ UNCHANGED <<clock, roomVars, socketVars, sessionVars, producerRest, processVars>>

ProducerPublishes(p) ==
  /\ ProducerGoes(p, "publishing", "offering")
  /\ Publish(p, readAt[p])
  /\ readAt' = [readAt EXCEPT ![p] = 0]
  /\ UNCHANGED <<clock, socketVars, sessionVars, producerRest, processVars>>

ProducerOffers(p) ==
  /\ ppc[p] = "offering"
  /\ \E offer \in offers[p] : PublishOffer(p, offer[1], offer[2])
  /\ UNCHANGED <<clock, socketVars, sessionVars, handlerVars, processVars>>

ProducerOffered(p) ==
  /\ offers[p] = {}
  /\ ProducerGoes(p, "offering", "serving")
  /\ UNCHANGED <<clock, roomVars, socketVars, sessionVars, readAt, producerRest, processVars>>

\* ReadMessage fails: closed, idle for too long, or the peer is gone.
ProducerReadFails(p) ==
  /\ ProducerGoes(p, "serving", "releasing")
  /\ HangUp(p)
  /\ UNCHANGED <<clock, roomVars, sessionVars, readAt, producerRest, processVars>>

\* A message that is not text, too early, malformed or out of its window.
ProducerRefused(p) ==
  /\ socket[p] = "open"
  /\ ProducerGoes(p, "serving", "releasing")
  /\ HangUpWith(p, Refused)
  /\ UNCHANGED <<clock, roomVars, sessionVars, readAt, producerRest, processVars>>

ProducerReleases(p) ==
  /\ ProducerGoes(p, "releasing", "done")
  /\ ReleaseProducer(p)
  /\ UNCHANGED <<clock, socketVars, sessionVars, readAt, producerRest, processVars>>
-----------------------------------------------------------------------------
(***************************************************************************)
(* handleSession: login, logout and probe                                  *)
(***************************************************************************)

\* Fault: a login that does not ask whether the server is ready.
LoginStartsWhenNotReady(r) ==
  /\ RequestGoes(r, "idle", "creating")
  /\ loginAt' = [loginAt EXCEPT ![r] = clock]
  /\ UNCHANGED <<clock, roomVars, socketVars, sessionVars, requestRest, processVars>>

LoginStarts(r) ==
  /\ ready
  /\ RequestGoes(r, "idle", "creating")
  /\ loginAt' = [loginAt EXCEPT ![r] = clock]
  /\ UNCHANGED <<clock, roomVars, socketVars, sessionVars, requestRest, processVars>>

LoginRejected(r) ==
  /\ RequestGoes(r, "creating", "done")
  /\ loginAt' = [loginAt EXCEPT ![r] = 0]
  /\ UNCHANGED <<clock, roomVars, socketVars, sessionVars, requestRest, processVars>>

LoginCommits(r, s, old) ==
  /\ RequestGoes(r, "creating", "revoking")
  /\ Login(r, s, old, loginAt[r])
  /\ loginAt' = [loginAt EXCEPT ![r] = 0]
  /\ UNCHANGED <<clock, roomVars, requestRest, processVars>>

LoginRevokesReplaced(r) ==
  /\ rpc[r] = "revoking"
  /\ RevokeReplaced(r)
  /\ UNCHANGED <<clock, roomVars, handlerVars, processVars>>

\* Logout, whatever the state of the session and of the readiness flag: a
\* request that was accepted is served while the listener drains.
LogoutRemoves(r, s) ==
  /\ phase \in {"serving", "draining"}
  /\ RequestGoes(r, "idle", "revoking")
  /\ TakeOut(r, s)
  /\ UNCHANGED <<clock, roomVars, loginAt, requestRest, processVars>>

\* A probe with a valid session changes nothing.
ProbeFindsInvalid(r, s) ==
  /\ phase \in {"serving", "draining"}
  /\ RequestGoes(r, "idle", "revoking")
  /\ ~Valid(s, clock)
  /\ TakeOut(r, s)
  /\ UNCHANGED <<clock, roomVars, loginAt, requestRest, processVars>>

RequestDone(r) ==
  /\ RequestGoes(r, "revoking", "done")
  /\ IdleActor(r)
  /\ UNCHANGED <<clock, roomVars, socketVars, sessionVars, loginAt, requestRest, processVars>>
-----------------------------------------------------------------------------
(***************************************************************************)
(* runJanitor                                                              *)
(***************************************************************************)

\* A tick bears the time it was sent: it may have waited in the channel of
\* the ticker while the janitor was revoking.
JanitorExpires ==
  /\ JanitorGoes("idle", "pruning")
  /\ \E now \in 0 .. clock : tickAt' = now /\ Expire(now)
  /\ UNCHANGED <<clock, socketVars, sessionVars, handlerVars, ready, phase>>

JanitorPrunes ==
  /\ JanitorGoes("pruning", IF Stale(tickAt) = {} THEN "idle" ELSE "revoking")
  /\ Prune(Janitor, tickAt)
  /\ tickAt' = 0
  /\ UNCHANGED <<clock, roomVars, handlerVars, ready, phase>>

JanitorRests ==
  /\ JanitorGoes("revoking", "idle")
  /\ LoopDone(Janitor)
  /\ UNCHANGED <<clock, roomVars, socketVars, sessionVars, handlerVars, ready, phase, tickAt>>

JanitorStops ==
  /\ phase = "stopping"
  /\ JanitorGoes("idle", "stopped")
  /\ UNCHANGED <<clock, roomVars, socketVars, sessionVars, handlerVars, ready, phase, tickAt>>
-----------------------------------------------------------------------------
(***************************************************************************)
(* Shutdown: serve of main.go, then Server.Close.                          *)
(***************************************************************************)

\* The requests httpServer.Shutdown waits for: a connection an Upgrade has
\* hijacked is no longer one of them.
InFlight ==
  {v \in Viewers : vpc[v] \notin {"idle", "done"} /\ socket[v] = "none"} \cup
  {p \in Producers : ppc[p] \notin {"idle", "done"} /\ socket[p] = "none"} \cup
  {r \in Requests : rpc[r] \notin {"idle", "done"}}

ShutdownRequested ==
  /\ MayShutDown
  /\ PhaseGoes("serving", "draining")
  /\ ready' = FALSE
  /\ UNCHANGED <<clock, roomVars, socketVars, sessionVars, handlerVars, jpc, tickAt>>

\* Shutdown returned, or gave up and left Close to the deferred call.
CloseStarts ==
  /\ InFlight = {} \/ DrainMayTimeOut
  /\ PhaseGoes("draining", "stopping")
  /\ UNCHANGED <<clock, roomVars, socketVars, sessionVars, handlerVars, ready, jpc, tickAt>>

CloseClearsSessions ==
  /\ jpc = "stopped"
  /\ PhaseGoes("stopping", "revoking")
  /\ ClearTable
  /\ UNCHANGED <<clock, roomVars, handlerVars, ready, jpc, tickAt>>

CloseClosesRoom ==
  /\ PhaseGoes("revoking", "closing")
  /\ CloseRoom
  /\ CloseBatch(Closer, RoomConns)
  /\ UNCHANGED <<clock, handlerVars, ready, jpc, tickAt>>

CloseReturns ==
  /\ PhaseGoes("closing", "closed")
  /\ LoopDone(Closer)
  /\ UNCHANGED <<clock, roomVars, socketVars, sessionVars, handlerVars, ready, jpc, tickAt>>
-----------------------------------------------------------------------------
ClosingLoop ==
  /\ \E a \in Actors :
       \/ \E s \in toRevoke[a] : RevokeNext(a, s)
       \/ \E c \in toClose[a] : CloseNext(a, c) /\ UNCHANGED sessionVars
  /\ UNCHANGED <<clock, roomVars, handlerVars, processVars>>

\* A tick is as long as many turns of a closing loop: time passes for a loop
\* that waits for a write mutex, not for one that is able to go on.
Tick ==
  /\ Advance
  /\ \A a \in Actors : LoopDone(a) \/ LoopBlocked(a)
  /\ UNCHANGED <<roomVars, socketVars, sessionVars, handlerVars, processVars>>

ViewerStep(v) ==
  \/ ViewerUnauthenticated(v)
  \/ \E s \in Sessions : ViewerAuthenticated(v, s) \/ ViewerFindsInvalid(v, s)
  \/ ViewerRejected(v)
  \/ ViewerReserves(v) \/ ViewerOverLimit(v)
  \/ ViewerEntersRoom(v) \/ ViewerRoomFull(v)
  \/ ViewerUpgrades(v) \/ ViewerUpgradeFails(v)
  \/ ViewerAttachesToRoom(v) \/ ViewerRoomClosing(v)
  \/ ViewerAttachesToSession(v) \/ ViewerSessionGone(v)
  \/ ViewerStartsWriter(v)
  \/ ViewerLeavesRoom(v)
  \/ ViewerReleases(v)

WriterStep(v) ==
  \/ WriterStops(v) \/ WriterExpires(v) \/ WriterExpired(v) \/ WriterTakes(v)

WriteEnds(v) == WriterWrites(v) \/ WriterFails(v)

ProducerStep(p) ==
  \/ ProducerClaims(p) \/ ProducerConflict(p)
  \/ ProducerUpgrades(p) \/ ProducerUpgradeFails(p)
  \/ ProducerAttaches(p) \/ ProducerRoomClosing(p)
  \/ ProducerPublishes(p)
  \/ ProducerOffers(p) \/ ProducerOffered(p)
  \/ ProducerReleases(p)

RequestStep(r) ==
  \/ LoginRejected(r)
  \/ \E s, old \in Sessions : LoginCommits(r, s, old)
  \/ LoginRevokesReplaced(r)
  \/ RequestDone(r)

JanitorStep == JanitorExpires \/ JanitorPrunes \/ JanitorRests \/ JanitorStops

CloseStep == CloseStarts \/ CloseClearsSessions \/ CloseClosesRoom \/ CloseReturns

\* What clients, peers and the operator may do, and need not.
Environment ==
  \/ \E v \in Viewers :
       \/ ViewerAdmitted(v) \/ ViewerSpeaks(v) \/ ViewerReadFails(v) \/ WriterPingFails(v)
  \/ \E p \in Producers :
       \/ ProducerAdmitted(p) \/ ProducerReads(p) \/ ProducerRefused(p) \/ ProducerReadFails(p)
  \/ \E r \in Requests :
       \/ LoginStarts(r)
       \/ \E s \in Sessions : LogoutRemoves(r, s) \/ ProbeFindsInvalid(r, s)
  \/ ShutdownRequested

Next ==
  \/ Tick
  \/ ClosingLoop
  \/ Environment
  \/ \E v \in Viewers : ViewerStep(v) \/ WriterStep(v) \/ WriteEnds(v)
  \/ \E p \in Producers : ProducerStep(p)
  \/ \E r \in Requests : RequestStep(r)
  \/ JanitorStep
  \/ CloseStep

SafeSpec == Init /\ [][Next]_vars

\* Goroutines that can go on do, writes end by their deadline, and the read
\* of a closed connection returns.  Nothing is assumed of clients and peers.
Fairness ==
  /\ WF_vars(Tick)
  /\ WF_vars(ClosingLoop)
  /\ \A v \in Viewers :
       /\ WF_vars(ViewerStep(v))
       /\ WF_vars(ViewerReadFails(v) /\ socket[v] = "closed")
       /\ WF_vars(WriterStep(v))
       /\ WF_vars(WriteEnds(v))
  /\ \A p \in Producers :
       /\ WF_vars(ProducerStep(p))
       /\ WF_vars(ProducerReadFails(p) /\ socket[p] = "closed")
  /\ \A r \in Requests : WF_vars(RequestStep(r))
  /\ WF_vars(JanitorStep)
  /\ SF_vars(JanitorStops)    \* the janitor waits between two ticks
  /\ WF_vars(CloseStep)

Spec == SafeSpec /\ Fairness
=============================================================================

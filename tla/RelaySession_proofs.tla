------------------------- MODULE RelaySession_proofs -------------------------
(***************************************************************************)
(* Theorems about the session table under arbitrary callers (SessionSpec), *)
(* for every number of sessions, connections, actors and ticks.            *)
(***************************************************************************)
EXTENDS RelaySession, TLAPS, FiniteSetTheorems

USE DEF tableVars, lifeVars, socketVars, sessionVars

\* The codes of the closing loops are codes, and are not the absence of one.
LEMMA CodeOfIsCode == \A a : CodeOf(a) \in Codes /\ CodeOf(a) # NoCode
BY DEF CodeOf, Codes, NoCode, GoingAway, SessionEnded

\* What StartRevoking does to the types.
LEMMA StartRevokingTypes ==
  ASSUME SessionTypeOK, NEW a \in Actors, NEW batch \in SUBSET Sessions,
         StartRevoking(a, batch), UNCHANGED clock
  PROVE  SocketTypeOK' /\ toRevoke' \in [Actors -> SUBSET Sessions]
<1> USE SocketAssumption, MaxTimeAssumption DEF SessionTypeOK, SocketTypeOK, ClockTypeOK
<1>1. deadline' \in [Actors -> 0 .. MaxTime + CloseGrace]
  <2>1. clock + CloseGrace \in 0 .. MaxTime + CloseGrace
    OBVIOUS
  <2>2. deadline' = [deadline EXCEPT ![a] =
                       IF batch = {} /\ a # Closer THEN @ ELSE clock + CloseGrace]
    BY DEF StartRevoking
  <2> QED
    BY <2>1, <2>2
<1> QED
  BY <1>1 DEF StartRevoking

\* Sessions, connections and actors start with their types.
LEMMA SessionTypeInit == ClockInit /\ SocketInit /\ SessionInit => SessionTypeOK
BY SocketAssumption, SessionAssumption, MaxTimeAssumption
   DEF ClockInit, SocketInit, SessionInit, SessionTypeOK, SocketTypeOK, ClockTypeOK, Codes

\* Every operation keeps the types of the table and of the connections.
LEMMA SessionTypeStep ==
  SessionTypeOK /\ [SessionNext]_<<clock, socketVars, sessionVars>> => SessionTypeOK'
<1> SUFFICES ASSUME SessionTypeOK, [SessionNext]_<<clock, socketVars, sessionVars>>
             PROVE  SessionTypeOK'
  OBVIOUS
<1> USE SocketAssumption, SessionAssumption, MaxTimeAssumption
    DEF SessionTypeOK, SocketTypeOK, ClockTypeOK
<1>1. ASSUME NEW a \in Actors, NEW s \in Sessions, RevokeNext(a, s), UNCHANGED clock
      PROVE  SessionTypeOK'
  BY <1>1, CodeOfIsCode DEF RevokeNext
<1>2. ASSUME NEW a \in Actors, NEW c \in Conns, CloseNext(a, c), UNCHANGED <<clock, sessionVars>>
      PROVE  SessionTypeOK'
  BY <1>2, CodeOfIsCode DEF CloseNext, CloseWithFrame, CloseSocket
<1>3. ASSUME NEW a \in Actors, NEW s \in Sessions, NEW old \in Sessions,
             NEW now \in 0 .. clock, Login(a, s, old, now), UNCHANGED clock
      PROVE  SessionTypeOK'
  <2> DEFINE former == ({old} \cap sessions) \ Stale(now)
  <2>1. Stale(now) \in SUBSET Sessions /\ former \in SUBSET Sessions
    BY DEF Stale
  <2>2. StartRevoking(a, Stale(now)) /\ replaced' = [replaced EXCEPT ![a] = former]
    BY <1>3 DEF Login
  <2>3. SocketTypeOK' /\ toRevoke' \in [Actors -> SUBSET Sessions]
    BY <1>3, <2>1, <2>2, StartRevokingTypes
  <2>4. replaced' \in [Actors -> SUBSET Sessions]
    BY <2>1, <2>2
  <2>5. sessions' \subseteq Sessions /\ expiresAt' \in [Sessions -> 0 .. MaxTime + SessionTTL]
    <3>1. now + SessionTTL \in 0 .. MaxTime + SessionTTL
      OBVIOUS
    <3> QED
      BY <1>3, <3>1 DEF Login
  <2>6. UNCHANGED <<revokedWith, reservations, attached>>
    BY <1>3 DEF Login
  <2> QED
    BY <2>3, <2>4, <2>5, <2>6
<1>4. ASSUME NEW a \in Actors, NEW s \in Sessions, TakeOut(a, s) \/ RevokeOne(a, s),
             UNCHANGED clock
      PROVE  SessionTypeOK'
  <2>1. StartRevoking(a, {s})
    BY <1>4 DEF TakeOut, RevokeOne
  <2>2. SocketTypeOK' /\ toRevoke' \in [Actors -> SUBSET Sessions]
    BY <1>4, <2>1, StartRevokingTypes
  <2> QED
    BY <1>4, <2>2 DEF TakeOut, RevokeOne
<1>5. ASSUME NEW a \in Actors, NEW now \in 0 .. clock, Prune(a, now), UNCHANGED clock
      PROVE  SessionTypeOK'
  <2>1. Stale(now) \in SUBSET Sessions
    BY DEF Stale
  <2>2. SocketTypeOK' /\ toRevoke' \in [Actors -> SUBSET Sessions]
    BY <1>5, <2>1, StartRevokingTypes DEF Prune
  <2> QED
    BY <1>5, <2>2 DEF Prune
<1>6. ASSUME NEW a \in Actors, RevokeReplaced(a), UNCHANGED clock
      PROVE  SessionTypeOK'
  <2>1. SocketTypeOK' /\ toRevoke' \in [Actors -> SUBSET Sessions]
    BY <1>6, StartRevokingTypes DEF RevokeReplaced
  <2> QED
    BY <1>6, <2>1 DEF RevokeReplaced
<1>7. ASSUME NEW a \in Actors, NEW batch \in SUBSET Conns, CloseBatch(a, batch),
             UNCHANGED clock
      PROVE  SessionTypeOK'
  BY <1>7 DEF CloseBatch
<1>8. ASSUME ClearTable, UNCHANGED clock
      PROVE  SessionTypeOK'
  <2>1. SocketTypeOK' /\ toRevoke' \in [Actors -> SUBSET Sessions]
    BY <1>8, StartRevokingTypes DEF ClearTable
  <2> QED
    BY <1>8, <2>1 DEF ClearTable
<1>9. ASSUME NEW s \in Sessions, NEW c \in Conns, NEW now \in 0 .. clock,
             Reserve(s, c, now) \/ Attach(s, c, now), UNCHANGED clock
      PROVE  SessionTypeOK'
  BY <1>9 DEF Reserve, Attach
<1>10. ASSUME NEW s \in Sessions, NEW c \in Conns, Release(s, c), UNCHANGED clock
       PROVE  SessionTypeOK'
  BY <1>10 DEF Release
<1>11. ASSUME SocketOperation, UNCHANGED clock
       PROVE  SessionTypeOK'
  BY <1>11 DEF SocketOperation, CloseSocket, CloseWithFrame
<1>12. ASSUME Advance, UNCHANGED <<socketVars, sessionVars>>
       PROVE  SessionTypeOK'
  BY <1>12 DEF Advance
<1>13. ASSUME UNCHANGED <<clock, socketVars, sessionVars>>
       PROVE  SessionTypeOK'
  BY <1>13
<1> QED
  BY <1>1, <1>2, <1>3, <1>4, <1>5, <1>6, <1>7, <1>8, <1>9, <1>10, <1>11, <1>12, <1>13
     DEF SessionNext, SessionLoop, SessionOperation

\* Type correctness of the session table and of the connections.
THEOREM SessionTypeCorrect == SessionSpec => []SessionTypeOK
BY SessionTypeInit, SessionTypeStep, PTL DEF SessionSpec
-----------------------------------------------------------------------------
(***************************************************************************)
(* A revoked session has no viewer left that nobody is about to close.     *)
(***************************************************************************)

\* The invariant is inductive: attach refuses a revoked session, and a
\* revocation takes everything that is attached.
LEMMA NoOrphanViewerStep ==
  SessionTypeOK /\ NoOrphanViewer /\ [SessionNext]_<<clock, socketVars, sessionVars>>
    => NoOrphanViewer'
<1> SUFFICES ASSUME SessionTypeOK, NoOrphanViewer,
                    [SessionNext]_<<clock, socketVars, sessionVars>>
             PROVE  NoOrphanViewer'
  OBVIOUS
<1> USE DEF SessionTypeOK, SocketTypeOK
<1>1. ASSUME NEW a \in Actors, NEW s \in Sessions, RevokeNext(a, s)
      PROVE  NoOrphanViewer'
  <2>1. CASE Revoked(s)
    BY <1>1, <2>1 DEF RevokeNext, NoOrphanViewer, Revoked
  <2>2. CASE ~Revoked(s)
    <3>1. /\ toClose[a] = {}
          /\ revokedWith' = [revokedWith EXCEPT ![s] = CodeOf(a)]
          /\ toClose' = [toClose EXCEPT ![a] = attached[s]]
          /\ UNCHANGED <<attached, socket>>
      BY <1>1, <2>2 DEF RevokeNext
    <3> QED
      BY <3>1 DEF NoOrphanViewer, Revoked
  <2> QED
    BY <2>1, <2>2
<1>2. ASSUME NEW a \in Actors, NEW c \in Conns, CloseNext(a, c), UNCHANGED sessionVars
      PROVE  NoOrphanViewer'
  <2>1. /\ socket' = [socket EXCEPT ![c] = "closed"]
        /\ toClose' = [toClose EXCEPT ![a] = @ \ {c}]
        /\ UNCHANGED <<attached, revokedWith>>
    BY <1>2 DEF CloseNext, CloseWithFrame, CloseSocket
  <2> QED
    BY <2>1 DEF NoOrphanViewer, Revoked
<1>3. ASSUME NEW a \in Actors, NEW batch \in SUBSET Conns, CloseBatch(a, batch)
      PROVE  NoOrphanViewer'
  <2>1. /\ toClose[a] = {}
        /\ toClose' = [toClose EXCEPT ![a] = batch]
        /\ UNCHANGED <<attached, revokedWith, socket>>
    BY <1>3 DEF CloseBatch, IdleActor, LoopDone
  <2> QED
    BY <2>1 DEF NoOrphanViewer, Revoked
<1>4. ASSUME NEW s \in Sessions, NEW c \in Conns, NEW now \in 0 .. clock, Attach(s, c, now)
      PROVE  NoOrphanViewer'
  <2>1. /\ ~Revoked(s)
        /\ attached' = [attached EXCEPT ![s] = @ \cup {c}]
        /\ UNCHANGED <<revokedWith, socket, toClose>>
    BY <1>4 DEF Attach, MayAttach, Valid
  <2> QED
    BY <2>1 DEF NoOrphanViewer, Revoked
<1>5. ASSUME NEW s \in Sessions, NEW c \in Conns, Release(s, c)
      PROVE  NoOrphanViewer'
  BY <1>5 DEF Release, NoOrphanViewer, Revoked
<1>6. ASSUME SocketOperation
      PROVE  NoOrphanViewer'
  <2>1. \A c \in Conns : socket[c] = "closed" => socket'[c] = "closed"
    BY <1>6 DEF SocketOperation, CloseSocket, CloseWithFrame
  <2>2. UNCHANGED <<attached, revokedWith, toClose>>
    BY <1>6 DEF SocketOperation
  <2> QED
    BY <2>1, <2>2 DEF NoOrphanViewer, Revoked
<1>7. ASSUME UNCHANGED <<attached, revokedWith, toClose, socket>>
      PROVE  NoOrphanViewer'
  BY <1>7 DEF NoOrphanViewer, Revoked
<1> QED
  BY ZenonT(60), <1>1, <1>2, <1>3, <1>4, <1>5, <1>6, <1>7
     DEF SessionNext, SessionLoop, SessionOperation, Login, TakeOut, RevokeOne, Prune,
         RevokeReplaced, ClearTable, Reserve, StartRevoking

\* No viewer stays attached to a revoked session unless an actor is about to
\* close its connection.
THEOREM NoViewerOutlivesSession == SessionSpec => []NoOrphanViewer
<1>1. SessionInit => NoOrphanViewer
  BY DEF SessionInit, NoOrphanViewer
<1> QED
  BY <1>1, NoOrphanViewerStep, SessionTypeCorrect, PTL DEF SessionSpec
-----------------------------------------------------------------------------
(***************************************************************************)
(* A session that leaves the table is revoked or about to be.              *)
(***************************************************************************)

\* Whoever takes a session out of the table keeps it until it is revoked.
LEMMA LeavingSessionStep ==
  SessionTypeOK /\ LeavingSessionRevoked /\ [SessionNext]_<<clock, socketVars, sessionVars>>
    => LeavingSessionRevoked'
<1> SUFFICES ASSUME SessionTypeOK, LeavingSessionRevoked,
                    [SessionNext]_<<clock, socketVars, sessionVars>>
             PROVE  LeavingSessionRevoked'
  OBVIOUS
<1> USE DEF SessionTypeOK
<1>1. ASSUME NEW a \in Actors, NEW s \in Sessions, RevokeNext(a, s)
      PROVE  LeavingSessionRevoked'
  <2>1. \A t \in Sessions : Revoked(t) => Revoked(t)'
    BY <1>1, CodeOfIsCode DEF RevokeNext, Revoked
  <2>2. Revoked(s)'
    BY <1>1, CodeOfIsCode DEF RevokeNext, Revoked
  <2>3. /\ toRevoke' = [toRevoke EXCEPT ![a] = @ \ {s}]
        /\ UNCHANGED <<sessions, expiresAt, replaced>>
    BY <1>1 DEF RevokeNext
  <2> QED
    BY <2>1, <2>2, <2>3 DEF LeavingSessionRevoked, Created
<1>2. ASSUME NEW a \in Actors, NEW s \in Sessions, NEW old \in Sessions,
             NEW now \in 0 .. clock, Login(a, s, old, now)
      PROVE  LeavingSessionRevoked'
  <2> DEFINE former == ({old} \cap sessions) \ Stale(now)
             kept == (sessions \ Stale(now)) \ former
  <2>1. /\ toRevoke[a] = {} /\ replaced[a] = {}
        /\ toRevoke' = [toRevoke EXCEPT ![a] = Stale(now)]
        /\ replaced' = [replaced EXCEPT ![a] = former]
        /\ UNCHANGED revokedWith
    BY <1>2 DEF Login, StartRevoking, IdleActor, LoopDone
  <2>2. \/ sessions' = kept /\ UNCHANGED expiresAt
        \/ sessions' = kept \cup {s} /\ \E e : expiresAt' = [expiresAt EXCEPT ![s] = e]
    BY <1>2 DEF Login
  <2>3. ASSUME NEW t \in Sessions, Created(t)', t \notin sessions'
        PROVE  Revoked(t)' \/ \E b \in Actors : t \in toRevoke'[b] \cup replaced'[b]
    <3>1. Created(t)
      BY <2>2, <2>3 DEF Created
    <3>2. CASE t \in sessions
      <4>1. t \in Stale(now) \cup former
        BY <2>2, <2>3, <3>2
      <4> QED
        BY <2>1, <4>1
    <3>3. CASE t \notin sessions
      BY <2>1, <3>1, <3>3 DEF LeavingSessionRevoked, Revoked
    <3> QED
      BY <3>2, <3>3
  <2> QED
    BY <2>3 DEF LeavingSessionRevoked
<1>3. ASSUME NEW a \in Actors, NEW batch \in SUBSET Sessions,
             IdleActor(a), StartRevoking(a, batch),
             sessions \ sessions' \subseteq batch,
             UNCHANGED <<expiresAt, revokedWith, replaced>>
      PROVE  LeavingSessionRevoked'
  <2>1. toRevoke[a] = {} /\ toRevoke' = [toRevoke EXCEPT ![a] = batch]
    BY <1>3 DEF IdleActor, LoopDone, StartRevoking
  <2> QED
    BY <1>3, <2>1 DEF LeavingSessionRevoked, Created, Revoked
<1>4. ASSUME NEW a \in Actors, RevokeReplaced(a)
      PROVE  LeavingSessionRevoked'
  <2>1. /\ toRevoke[a] = {}
        /\ toRevoke' = [toRevoke EXCEPT ![a] = replaced[a]]
        /\ replaced' = [replaced EXCEPT ![a] = {}]
        /\ UNCHANGED <<sessions, expiresAt, revokedWith>>
    BY <1>4 DEF RevokeReplaced, LoopDone, StartRevoking
  <2> QED
    BY <2>1 DEF LeavingSessionRevoked, Created, Revoked
<1>5. ASSUME UNCHANGED <<sessions, expiresAt, revokedWith, toRevoke, replaced>>
      PROVE  LeavingSessionRevoked'
  BY <1>5 DEF LeavingSessionRevoked, Created, Revoked
<1>6. ASSUME NEW a \in Actors, NEW s \in Sessions, TakeOut(a, s) \/ RevokeOne(a, s)
      PROVE  LeavingSessionRevoked'
  <2>1. /\ IdleActor(a) /\ StartRevoking(a, {s})
        /\ sessions \ sessions' \subseteq {s}
        /\ UNCHANGED <<expiresAt, revokedWith, replaced>>
    BY <1>6 DEF TakeOut, RevokeOne
  <2> QED
    BY <1>3, <2>1
<1>7. ASSUME NEW a \in Actors, NEW now \in 0 .. clock, Prune(a, now)
      PROVE  LeavingSessionRevoked'
  <2>1. Stale(now) \in SUBSET Sessions
    BY DEF Stale
  <2>2. /\ IdleActor(a) /\ StartRevoking(a, Stale(now))
        /\ sessions \ sessions' \subseteq Stale(now)
        /\ UNCHANGED <<expiresAt, revokedWith, replaced>>
    BY <1>7 DEF Prune
  <2> QED
    BY <1>3, <2>1, <2>2
<1>8. ASSUME ClearTable
      PROVE  LeavingSessionRevoked'
  <2>1. /\ IdleActor(Closer) /\ StartRevoking(Closer, sessions)
        /\ sessions \ sessions' \subseteq sessions
        /\ UNCHANGED <<expiresAt, revokedWith, replaced>>
    BY <1>8 DEF ClearTable
  <2> QED
    BY <1>3, <2>1, SocketAssumption
<1> QED
  BY <1>1, <1>2, <1>4, <1>5, <1>6, <1>7, <1>8
     DEF SessionNext, SessionLoop, SessionOperation, CloseBatch, Reserve, Attach, Release,
         SocketOperation

\* A session that left the table is revoked, or someone holds it to revoke it.
THEOREM NoSessionForgotten == SessionSpec => []LeavingSessionRevoked
<1>1. SessionInit => LeavingSessionRevoked
  BY DEF SessionInit, LeavingSessionRevoked, Created
<1> QED
  BY <1>1, LeavingSessionStep, SessionTypeCorrect, PTL DEF SessionSpec
-----------------------------------------------------------------------------
(***************************************************************************)
(* Capacities.                                                             *)
(***************************************************************************)

\* SessionsWithinCapacity with what its induction needs.
SessionCapacity ==
  /\ IsFiniteSet(sessions)
  /\ \A s \in Sessions : IsFiniteSet(reservations[s])
  /\ SessionsWithinCapacity

\* A part of a finite set is finite and no larger.
LEMMA PartOfFiniteSet ==
  ASSUME NEW S, IsFiniteSet(S), NEW T \in SUBSET S
  PROVE  /\ IsFiniteSet(T)
         /\ Cardinality(T) <= Cardinality(S)
         /\ Cardinality(T) \in Nat /\ Cardinality(S) \in Nat
BY FS_Subset, FS_CardinalityType

\* One more member counts for one at most.
LEMMA OneMoreMember ==
  ASSUME NEW S, IsFiniteSet(S), NEW x, NEW n \in Nat, Cardinality(S) < n
  PROVE  IsFiniteSet(S \cup {x}) /\ Cardinality(S \cup {x}) <= n
<1>1. Cardinality(S) \in Nat
  BY FS_CardinalityType
<1>2. Cardinality(S \cup {x}) \in {Cardinality(S), Cardinality(S) + 1}
  BY FS_AddElement
<1> QED
  BY <1>1, <1>2, FS_AddElement

\* A login checks the capacity after it removed what it removes, a
\* reservation is checked under the lock that makes it.
LEMMA SessionCapacityStep ==
  SessionTypeOK /\ SessionCapacity /\ [SessionNext]_<<clock, socketVars, sessionVars>>
    => SessionCapacity'
<1> SUFFICES ASSUME SessionTypeOK, SessionCapacity,
                    [SessionNext]_<<clock, socketVars, sessionVars>>
             PROVE  SessionCapacity'
  OBVIOUS
<1> USE SessionAssumption DEF SessionTypeOK
<1>1. ASSUME sessions' \subseteq sessions, UNCHANGED reservations
      PROVE  SessionCapacity'
  <2>1. IsFiniteSet(sessions') /\ Cardinality(sessions') <= MaxSessions
    <3>1. IsFiniteSet(sessions) /\ Cardinality(sessions) <= MaxSessions
      BY DEF SessionCapacity, SessionsWithinCapacity
    <3>2. /\ IsFiniteSet(sessions')
          /\ Cardinality(sessions') <= Cardinality(sessions)
          /\ Cardinality(sessions') \in Nat /\ Cardinality(sessions) \in Nat
      BY <1>1, <3>1, PartOfFiniteSet
    <3> QED
      BY <3>1, <3>2
  <2> QED
    BY <1>1, <2>1 DEF SessionCapacity, SessionsWithinCapacity
<1>2. ASSUME NEW a \in Actors, NEW s \in Sessions, NEW old \in Sessions,
             NEW now \in 0 .. clock, Login(a, s, old, now)
      PROVE  SessionCapacity'
  <2> DEFINE former == ({old} \cap sessions) \ Stale(now)
             kept == (sessions \ Stale(now)) \ former
  <2>1. kept \in SUBSET sessions /\ UNCHANGED reservations
    BY <1>2 DEF Login
  <2>2. CASE sessions' = kept
    BY <1>1, <2>1, <2>2
  <2>3. CASE sessions' = kept \cup {s} /\ ~(Cardinality(kept) >= MaxSessions)
    <3>1. IsFiniteSet(kept) /\ Cardinality(kept) \in Nat
      BY <2>1, PartOfFiniteSet DEF SessionCapacity
    <3>2. Cardinality(kept) < MaxSessions
      BY <2>3, <3>1
    <3>3. IsFiniteSet(kept \cup {s}) /\ Cardinality(kept \cup {s}) <= MaxSessions
      BY <3>1, <3>2, OneMoreMember
    <3> QED
      BY <2>1, <2>3, <3>3 DEF SessionCapacity, SessionsWithinCapacity
  <2> QED
    BY <1>2, <2>2, <2>3 DEF Login
<1>3. ASSUME NEW s \in Sessions, UNCHANGED sessions,
             NEW R, reservations' = [reservations EXCEPT ![s] = R],
             IsFiniteSet(R), Cardinality(R) <= MaxViewersPerSession
      PROVE  SessionCapacity'
  BY <1>3 DEF SessionCapacity, SessionsWithinCapacity
<1>4. ASSUME NEW s \in Sessions, NEW c \in Conns, NEW now \in 0 .. clock, Reserve(s, c, now)
      PROVE  SessionCapacity'
  <2>1. /\ IsFiniteSet(reservations[s])
        /\ Cardinality(reservations[s]) < MaxViewersPerSession
        /\ reservations' = [reservations EXCEPT ![s] = reservations[s] \cup {c}]
        /\ UNCHANGED sessions
    BY <1>4 DEF Reserve, MayReserve, SessionCapacity
  <2>2. /\ IsFiniteSet(reservations[s] \cup {c})
        /\ Cardinality(reservations[s] \cup {c}) <= MaxViewersPerSession
    BY <2>1, OneMoreMember
  <2> QED
    BY <1>3, <2>1, <2>2
<1>5. ASSUME NEW s \in Sessions, NEW c \in Conns, Release(s, c)
      PROVE  SessionCapacity'
  <2>1. /\ IsFiniteSet(reservations[s])
        /\ Cardinality(reservations[s]) <= MaxViewersPerSession
        /\ reservations' = [reservations EXCEPT ![s] = reservations[s] \ {c}]
        /\ UNCHANGED sessions
    BY <1>5 DEF Release, SessionCapacity, SessionsWithinCapacity
  <2>2. /\ IsFiniteSet(reservations[s] \ {c})
        /\ Cardinality(reservations[s] \ {c}) <= Cardinality(reservations[s])
        /\ Cardinality(reservations[s] \ {c}) \in Nat /\ Cardinality(reservations[s]) \in Nat
    BY <2>1, PartOfFiniteSet
  <2>3. Cardinality(reservations[s] \ {c}) <= MaxViewersPerSession
    BY <2>1, <2>2
  <2> QED
    BY <1>3, <2>1, <2>2, <2>3
<1>6. ASSUME NEW a \in Actors, NEW now \in 0 .. clock, Prune(a, now)
      PROVE  SessionCapacity'
  BY <1>1, <1>6 DEF Prune
<1>7. ASSUME NEW a \in Actors, NEW s \in Sessions, TakeOut(a, s)
      PROVE  SessionCapacity'
  BY <1>1, <1>7 DEF TakeOut
<1>8. ASSUME ClearTable
      PROVE  SessionCapacity'
  BY <1>1, <1>8 DEF ClearTable
<1>9. ASSUME UNCHANGED <<sessions, reservations>>
      PROVE  SessionCapacity'
  BY <1>1, <1>9
<1> QED
  BY <1>2, <1>4, <1>5, <1>6, <1>7, <1>8, <1>9
     DEF SessionNext, SessionLoop, SessionOperation, RevokeNext, RevokeOne, RevokeReplaced,
         CloseBatch, Attach, SocketOperation

\* The table and every session stay within the configured capacities.
THEOREM SessionsKeepCapacity == SessionSpec => []SessionsWithinCapacity
<1>1. SessionInit => SessionCapacity
  BY SessionAssumption, FS_EmptySet DEF SessionInit, SessionCapacity, SessionsWithinCapacity
<1>2. SessionCapacity => SessionsWithinCapacity
  BY DEF SessionCapacity
<1> QED
  BY <1>1, <1>2, SessionCapacityStep, SessionTypeCorrect, PTL DEF SessionSpec
=============================================================================

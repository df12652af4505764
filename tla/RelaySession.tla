---------------------------- MODULE RelaySession ----------------------------
(***************************************************************************)
(* Browser sessions (radar-relay/internal/relay/session.go) and the table  *)
(* that server.go keeps of them.  A session bears the name of its cookie:  *)
(* tokens are fresh and random, so a name is used once.  The actions are   *)
(* the critical sections of sessionsMu and session.mu; what a revocation   *)
(* closes is collected under the lock and closed after it, by the loop of  *)
(* RelaySocket.                                                            *)
(***************************************************************************)
EXTENDS RelaySocket, FiniteSets

CONSTANTS
  Sessions,               \* session cookies
  SessionTTL,             \* config.SessionTTL()
  MaxSessions,            \* config.MaxSessions
  MaxViewersPerSession    \* config.MaxViewersPerSession

ASSUME SessionAssumption ==
  /\ SessionTTL \in Nat \ {0}
  /\ MaxSessions \in Nat \ {0}
  /\ MaxViewersPerSession \in Nat \ {0}

VARIABLES
  sessions,       \* Server.sessions: the cookies it holds
  expiresAt,      \* session.expiresAt, 0 for a cookie not yet given out
  revokedWith,    \* the code session.revokeAt was called with, NoCode before
  reservations,   \* session.viewers: handlers that hold a reservation
  attached,       \* the reservations whose conn is set
  toRevoke,       \* the sessions an actor has yet to revoke
  replaced        \* the session a login replaced, revoked after the expired ones

sessionVars ==
  <<sessions, expiresAt, revokedWith, reservations, attached, toRevoke, replaced>>
tableVars == <<sessions, expiresAt>>
lifeVars == <<revokedWith, reservations, attached>>

SessionTypeOK ==
  /\ SocketTypeOK
  /\ sessions \subseteq Sessions
  /\ expiresAt \in [Sessions -> 0 .. MaxTime + SessionTTL]
  /\ revokedWith \in [Sessions -> Codes]
  /\ reservations \in [Sessions -> SUBSET Conns]
  /\ attached \in [Sessions -> SUBSET Conns]
  /\ toRevoke \in [Actors -> SUBSET Sessions]
  /\ replaced \in [Actors -> SUBSET Sessions]

SessionInit ==
  /\ sessions = {}
  /\ expiresAt = [s \in Sessions |-> 0]
  /\ revokedWith = [s \in Sessions |-> NoCode]
  /\ reservations = [s \in Sessions |-> {}]
  /\ attached = [s \in Sessions |-> {}]
  /\ toRevoke = [a \in Actors |-> {}]
  /\ replaced = [a \in Actors |-> {}]

Created(s) == expiresAt[s] # 0

Revoked(s) == revokedWith[s] # NoCode

\* session.valid
Valid(s, now) == ~Revoked(s) /\ expiresAt[s] > now

\* The sessions pruneSessionsLocked removes from the table.
Stale(now) == {s \in sessions : ~Valid(s, now)}

LoopDone(a) == toRevoke[a] = {} /\ toClose[a] = {}

IdleActor(a) == LoopDone(a) /\ replaced[a] = {}

\* Hands an actor the sessions it removed, with one deadline for all; only
\* Server.Close has a use for the deadline when there are none.
StartRevoking(a, batch) ==
  /\ toRevoke' = [toRevoke EXCEPT ![a] = batch]
  /\ deadline' = [deadline EXCEPT ![a] =
                     IF batch = {} /\ a # Closer THEN @ ELSE clock + CloseGrace]
  /\ UNCHANGED <<socket, closeCode, writing, toClose>>
-----------------------------------------------------------------------------
\* Fault: the replaced session is dropped instead of being revoked.
LoginForgetsReplaced(a, s, old, now) ==
  LET expired == Stale(now)
      kept == (sessions \ expired) \ {old}
  IN  /\ IdleActor(a)
      /\ ~Created(s)
      /\ IF Cardinality(kept) >= MaxSessions
           THEN sessions' = kept /\ UNCHANGED expiresAt
           ELSE /\ sessions' = kept \cup {s}
                /\ expiresAt' = [expiresAt EXCEPT ![s] = now + SessionTTL]
      /\ StartRevoking(a, expired)
      /\ UNCHANGED <<lifeVars, replaced>>

\* Fault: the lifetime is added twice.
LoginDoublesLifetime(a, s, old, now) ==
  LET expired == Stale(now)
      former == ({old} \cap sessions) \ expired
      kept == (sessions \ expired) \ former
  IN  /\ IdleActor(a)
      /\ ~Created(s)
      /\ IF Cardinality(kept) >= MaxSessions
           THEN sessions' = kept /\ UNCHANGED expiresAt
           ELSE /\ sessions' = kept \cup {s}
                /\ expiresAt' = [expiresAt EXCEPT ![s] = now + SessionTTL + SessionTTL]
      /\ StartRevoking(a, expired)
      /\ replaced' = [replaced EXCEPT ![a] = former]
      /\ UNCHANGED lifeVars

\* Fault: the capacity is checked before the replaced session is removed.
LoginCountsReplaced(a, s, old, now) ==
  LET expired == Stale(now)
      former == ({old} \cap sessions) \ expired
      kept == (sessions \ expired) \ former
  IN  /\ IdleActor(a)
      /\ ~Created(s)
      /\ IF Cardinality(sessions \ expired) >= MaxSessions
           THEN sessions' = kept /\ UNCHANGED expiresAt
           ELSE /\ sessions' = kept \cup {s}
                /\ expiresAt' = [expiresAt EXCEPT ![s] = now + SessionTTL]
      /\ StartRevoking(a, expired)
      /\ replaced' = [replaced EXCEPT ![a] = former]
      /\ UNCHANGED lifeVars

\* The critical section of handleCreateSession: prune, take the session of
\* the cookie that came with the request, check the capacity, insert.
Login(a, s, old, now) ==
  LET expired == Stale(now)
      former == ({old} \cap sessions) \ expired
      kept == (sessions \ expired) \ former
  IN  /\ IdleActor(a)
      /\ ~Created(s)
      /\ IF Cardinality(kept) >= MaxSessions
           THEN sessions' = kept /\ UNCHANGED expiresAt
           ELSE /\ sessions' = kept \cup {s}
                /\ expiresAt' = [expiresAt EXCEPT ![s] = now + SessionTTL]
      /\ StartRevoking(a, expired)
      /\ replaced' = [replaced EXCEPT ![a] = former]
      /\ UNCHANGED lifeVars

\* Once the expired sessions are revoked, the replaced one is.
RevokeReplaced(a) ==
  /\ LoopDone(a)
  /\ replaced[a] # {}
  /\ StartRevoking(a, replaced[a])
  /\ replaced' = [replaced EXCEPT ![a] = {}]
  /\ UNCHANGED <<tableVars, lifeVars>>

\* Delete takes a session of the table; so does authenticateSession when it
\* finds it invalid.  The caller revokes it after the unlock.
TakeOut(a, s) ==
  /\ IdleActor(a)
  /\ s \in sessions
  /\ sessions' = sessions \ {s}
  /\ StartRevoking(a, {s})
  /\ UNCHANGED <<expiresAt, lifeVars, replaced>>

Prune(a, now) ==
  /\ IdleActor(a)
  /\ sessions' = sessions \ Stale(now)
  /\ StartRevoking(a, Stale(now))
  /\ UNCHANGED <<expiresAt, lifeVars, replaced>>

\* The first half of Server.Close: clear the table, keep what it held.
ClearTable ==
  /\ IdleActor(Closer)
  /\ sessions' = {}
  /\ StartRevoking(Closer, sessions)
  /\ UNCHANGED <<expiresAt, lifeVars, replaced>>

\* session.revoke by the expiry timer of a writer: the table is not touched.
RevokeOne(a, s) ==
  /\ IdleActor(a)
  /\ Created(s)
  /\ StartRevoking(a, {s})
  /\ UNCHANGED <<tableVars, lifeVars, replaced>>

\* Fault: the writers are told, the connections are not closed.
RevokeWithoutClosing(a, s) ==
  /\ toClose[a] = {}
  /\ s \in toRevoke[a]
  /\ toRevoke' = [toRevoke EXCEPT ![a] = @ \ {s}]
  /\ revokedWith' = [revokedWith EXCEPT ![s] = IF Revoked(s) THEN @ ELSE CodeOf(a)]
  /\ UNCHANGED <<tableVars, reservations, attached, replaced, socketVars>>

\* session.revokeAt under the lock: only the first call collects.
RevokeNext(a, s) ==
  /\ toClose[a] = {}
  /\ s \in toRevoke[a]
  /\ toRevoke' = [toRevoke EXCEPT ![a] = @ \ {s}]
  /\ IF Revoked(s)
       THEN UNCHANGED <<revokedWith, toClose>>
       ELSE /\ revokedWith' = [revokedWith EXCEPT ![s] = CodeOf(a)]
            /\ toClose' = [toClose EXCEPT ![a] = attached[s]]
  /\ UNCHANGED <<tableVars, reservations, attached, replaced, socket, closeCode,
                 writing, deadline>>

\* Server.Close hands the connections of a room to the same kind of loop,
\* under the deadline it gave the sessions.
CloseBatch(a, batch) ==
  /\ IdleActor(a)
  /\ toClose' = [toClose EXCEPT ![a] = batch]
  /\ UNCHANGED <<sessionVars, socket, closeCode, writing, deadline>>
-----------------------------------------------------------------------------
\* Fault: one viewer too many.
MayReserveOneMore(s, now) ==
  Valid(s, now) /\ Cardinality(reservations[s]) <= MaxViewersPerSession

MayReserve(s, now) ==
  Valid(s, now) /\ Cardinality(reservations[s]) < MaxViewersPerSession

Reserve(s, c, now) ==
  /\ MayReserve(s, now)
  /\ reservations' = [reservations EXCEPT ![s] = @ \cup {c}]
  /\ UNCHANGED <<tableVars, revokedWith, attached, toRevoke, replaced, socketVars>>

\* Fault: an attach that trusts the check made before the upgrade.
MayAttachUnchecked(s, c, now) == c \in reservations[s]

MayAttach(s, c, now) == Valid(s, now) /\ c \in reservations[s]

Attach(s, c, now) ==
  /\ MayAttach(s, c, now)
  /\ attached' = [attached EXCEPT ![s] = @ \cup {c}]
  /\ UNCHANGED <<tableVars, revokedWith, reservations, toRevoke, replaced, socketVars>>

Release(s, c) ==
  /\ reservations' = [reservations EXCEPT ![s] = @ \ {c}]
  /\ attached' = [attached EXCEPT ![s] = @ \ {c}]
  /\ UNCHANGED <<tableVars, revokedWith, toRevoke, replaced, socketVars>>
-----------------------------------------------------------------------------
SessionLoop ==
  \E a \in Actors :
    \/ \E s \in Sessions : RevokeNext(a, s)
    \/ \E c \in Conns : CloseNext(a, c) /\ UNCHANGED sessionVars

SessionOperation ==
  \/ \E a \in Actors :
       \/ \E s, old \in Sessions, now \in 0 .. clock : Login(a, s, old, now)
       \/ \E s \in Sessions : TakeOut(a, s) \/ RevokeOne(a, s)
       \/ \E now \in 0 .. clock : Prune(a, now)
       \/ RevokeReplaced(a)
       \/ \E batch \in SUBSET Conns : CloseBatch(a, batch)
  \/ ClearTable
  \/ \E s \in Sessions, c \in Conns, now \in 0 .. clock :
       Reserve(s, c, now) \/ Attach(s, c, now)
  \/ \E s \in Sessions, c \in Conns : Release(s, c)

\* A connection as its own handler treats it.
SocketOperation ==
  /\ \E c \in Conns :
       \/ /\ socket[c] = "none"
          /\ socket' = [socket EXCEPT ![c] = "open"]
          /\ UNCHANGED <<closeCode, writing>>
       \/ CloseSocket(c) /\ writing' \in {writing, writing \ {c}}
       \/ \E code \in Codes : CloseWithFrame(c, code) /\ UNCHANGED writing
       \/ writing' \in {writing \cup {c}, writing \ {c}} /\ UNCHANGED <<socket, closeCode>>
  /\ UNCHANGED <<toClose, deadline, sessionVars>>

SessionNext ==
  \/ (SessionLoop \/ SessionOperation \/ SocketOperation) /\ UNCHANGED clock
  \/ Advance /\ UNCHANGED <<socketVars, sessionVars>>

SessionSpec ==
  ClockInit /\ SocketInit /\ SessionInit /\ [][SessionNext]_<<clock, socketVars, sessionVars>>
-----------------------------------------------------------------------------
\* The table and every session stay within the configured capacities,
\* although logins, prunings and viewers race for them.
SessionsWithinCapacity ==
  /\ Cardinality(sessions) <= MaxSessions
  /\ \A s \in Sessions : Cardinality(reservations[s]) <= MaxViewersPerSession

\* No viewer outlives its session unnoticed: once a session is revoked,
\* each connection attached to it is closed or is on the list of an actor
\* that is about to close it.
NoOrphanViewer ==
  \A s \in Sessions :
    Revoked(s) =>
      \A c \in attached[s] :
        socket[c] = "closed" \/ \E a \in Actors : c \in toClose[a]

\* A session that left the table is revoked, or an actor still holds it to
\* revoke it: a session nobody can name any more cannot keep viewers.
LeavingSessionRevoked ==
  \A s \in Sessions :
    Created(s) /\ s \notin sessions =>
      Revoked(s) \/ \E a \in Actors : s \in toRevoke[a] \cup replaced[a]
=============================================================================

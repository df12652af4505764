----------------------------- MODULE RelaySocket -----------------------------
(***************************************************************************)
(* The WebSocket connections of the relay, as far as its own code decides  *)
(* their fate: the vendored Conn.WriteControl, Conn.write and Conn.Close,  *)
(* and the loop that ends both session.revokeAt and room.closeConnections: *)
(* for every collected connection, write a close frame under a deadline    *)
(* computed before the loop, then close the connection.                    *)
(*                                                                         *)
(* A connection bears the name of the handler that upgraded it.            *)
(***************************************************************************)
EXTENDS RelayClock

CONSTANTS
  Conns,         \* handlers that may own a connection
  Actors,        \* goroutines that run a closing loop
  Closer,        \* the one that runs Server.Close
  CloseGrace     \* the second a close frame is given, in ticks

ASSUME SocketAssumption ==
  /\ CloseGrace \in Nat
  /\ Closer \in Actors

VARIABLES
  socket,        \* "none", "open" or "closed"
  closeCode,     \* the code of the first close frame written to the peer
  writing,       \* connections whose write mutex a data write holds
  toClose,       \* the connections an actor has yet to close
  deadline       \* the deadline of the actor's close frames

socketVars == <<socket, closeCode, writing, toClose, deadline>>

NoCode == 0
GoingAway == 1001      \* websocket.CloseGoingAway, "server shutdown"
Refused == 1008        \* stands for 1003, 1007, 1008 and 1011 as well
SessionEnded == 4401   \* "session expired", "replaced" or "revoked"
Codes == {NoCode, GoingAway, Refused, SessionEnded}

SocketTypeOK ==
  /\ ClockTypeOK
  /\ socket \in [Conns -> {"none", "open", "closed"}]
  /\ closeCode \in [Conns -> Codes]
  /\ writing \subseteq Conns
  /\ toClose \in [Actors -> SUBSET Conns]
  /\ deadline \in [Actors -> 0 .. MaxTime + CloseGrace]

SocketInit ==
  /\ socket = [c \in Conns |-> "none"]
  /\ closeCode = [c \in Conns |-> NoCode]
  /\ writing = {}
  /\ toClose = [a \in Actors |-> {}]
  /\ deadline = [a \in Actors |-> 0]

\* Server.Close revokes and closes with 1001, every other loop with 4401.
CodeOf(a) == IF a = Closer THEN GoingAway ELSE SessionEnded

\* Conn.Close: no close frame, and it may be called any number of times.
CloseSocket(c) ==
  /\ socket' = [socket EXCEPT ![c] = "closed"]
  /\ UNCHANGED closeCode

\* The first close frame wins: later ones fail with ErrCloseSent.
CloseWithFrame(c, code) ==
  /\ socket' = [socket EXCEPT ![c] = "closed"]
  /\ closeCode' = [closeCode EXCEPT ![c] =
                     IF socket[c] = "open" /\ @ = NoCode THEN code ELSE @]

\* WriteControl waits for the write mutex, until the deadline at most.
FrameGoesOut(c, limit) == c \notin writing /\ clock <= limit

FrameTimesOut(limit) == clock >= limit

\* One round of the loop: WriteControl, whose error is dropped, then Close.
CloseNext(a, c) ==
  /\ c \in toClose[a]
  /\ \/ FrameGoesOut(c, deadline[a]) /\ CloseWithFrame(c, CodeOf(a))
     \/ FrameTimesOut(deadline[a]) /\ CloseSocket(c)
  /\ toClose' = [toClose EXCEPT ![a] = @ \ {c}]
  /\ UNCHANGED <<writing, deadline>>

\* A loop waits only for a mutex that a data write holds.
LoopBlocked(a) == \E c \in toClose[a] : c \in writing /\ clock < deadline[a]
=============================================================================

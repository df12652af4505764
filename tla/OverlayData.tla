---------------------------- MODULE OverlayData ----------------------------
(***************************************************************************)
(* Data thread of the overlay: one update reads the local player and the   *)
(* view, follows changes of pawn and map, samples the cached player slots  *)
(* and publishes enemies, bomb and radar snapshot (main.cpp, esp.cpp,      *)
(* radar_player_sample.hpp).                                               *)
(*                                                                         *)
(* The game's memory is what each read finds: any read may fail, and no    *)
(* two reads agree unless the code makes them.  There is one player slot,  *)
(* the code treats each by itself.  A position is known by how it was      *)
(* read: on which map and for which local pawn, of which pawn and Steam    *)
(* id, alive or dead, and how long ago.  Yaw is kept as the position is.   *)
(* Grenades and dropped weapons are off: no switch of the menu sets them.  *)
(***************************************************************************)
EXTENDS OverlayShared

Steps(pc) == data.pc = pc
AgeLimit == KeepTicks + 1
OrNothing(S) == S \cup {Nothing}

(* The two sets of globals that epochs reset (esp.cpp). *)
NewEpoch(g, local) ==
  [g EXCEPT !.last = {}, !.local = local, !.map = Nothing, !.observed = {}]
ClearRuntimeState(pc) ==
  /\ shared' = NothingShared
  /\ data' = [data EXCEPT !.pc = pc, !.g = CleanGlobals, !.sample = NoSample]

-----------------------------------------------------------------------------
(* The loop of main.cpp around an update.  In the background the state is  *)
(* cleared once and nothing is read.                                       *)
RadarRate(config) == IF config.radar /\ win.foreground THEN 20 ELSE 0

DataExits ==
  /\ Steps("check") /\ ~data.running
  /\ data' = [data EXCEPT !.pc = "exited"]
  /\ UNCHANGED <<app, screen, win, menu, worker, shared, mem>>

DataIdles ==
  /\ Steps("check") /\ data.running /\ ~win.foreground /\ ~data.cleared
  /\ shared' = NothingShared
  /\ data' = [data EXCEPT !.cleared = TRUE, !.g = CleanGlobals]
  /\ UNCHANGED <<app, screen, win, menu, worker, mem>>

DataBegins ==
  /\ Steps("check") /\ data.running /\ win.foreground
  /\ data' = [data EXCEPT !.pc = "read", !.cleared = FALSE,
                          !.config = [menu.config EXCEPT !.radar = RadarRate(menu.config) > 0]]
  /\ UNCHANGED <<app, screen, win, menu, worker, shared, mem>>

(* Time passes between updates, a tick at a time. *)
Older(age) == Smaller(AgeLimit, age + 1)
DataSleeps ==
  /\ Steps("check")
  /\ data' = [data EXCEPT
       !.g.observed = { Older(a) : a \in @ },
       !.g.last = { [e EXCEPT !.age = Older(@),
                              !.position = { [q EXCEPT !.age = Older(@)] : q \in @ }]
                    : e \in @ }]
  /\ UNCHANGED <<app, screen, win, menu, worker, shared, mem>>

-----------------------------------------------------------------------------
(* Local player, view and team are one sample: unless all can be read,     *)
(* nothing of it is published, and the third failure in a row clears.      *)
PublishView(s) == [s EXCEPT !.view = TRUE, !.lag = Smaller(2, @ + 1)]

(* Mutant: the view is published as soon as it is read. *)
ReadFailsAfterView ==
  /\ Steps("read")
  /\ data' = [data EXCEPT !.pc = "check", !.g.failures = (@ + 1) % 3]
  /\ shared' = PublishView(shared)
  /\ UNCHANGED <<app, screen, win, menu, worker, mem>>

ReadFails ==
  /\ Steps("read")
  /\ IF data.g.failures + 1 >= 3 THEN ClearRuntimeState("check")
     ELSE /\ data' = [data EXCEPT !.pc = "check", !.g.failures = @ + 1]
          /\ UNCHANGED shared
  /\ UNCHANGED <<app, screen, win, menu, worker, mem>>

(* A new local pawn starts a new epoch of radar samples. *)
Epoch(g, local) ==
  IF ~data.config.radar THEN NewEpoch(g, Nothing)
  ELSE IF g.local # local THEN NewEpoch(g, local) ELSE g

(* The pawns are looked up again when none is cached, when they were       *)
(* cached without what the radar needs, and every 250 ms.  Whether a radar *)
(* sample is due by its rate, and a refresh by its interval, is left open. *)
Incomplete == data.config.radar /\ \E e \in data.g.cache : ~e.named

ReadLocal ==
  /\ Steps("read")
  /\ \E local \in LocalPawns, capture, refresh \in BOOLEAN :
       /\ capture => data.config.radar
       /\ data.g.cache = {} \/ Incomplete => refresh
       /\ data' = [data EXCEPT
            !.pc = IF refresh THEN "cache" ELSE IF capture THEN "map" ELSE "players",
            !.g = [Epoch(@, local) EXCEPT !.failures = 0],
            !.sample = [NoSample EXCEPT !.local = local, !.capture = capture]]
  /\ shared' = PublishView(shared)
  /\ UNCHANGED <<app, screen, win, menu, worker, mem>>

-----------------------------------------------------------------------------
(* refreshEntityCache.  Without entity list, local pawn or team there are  *)
(* no players, and the epoch ends.                                         *)
CacheEntries ==
  IF data.config.radar
  THEN [pawn : Pawns, steam : OrNothing(Steam), named : {TRUE}]
  ELSE [pawn : Pawns, steam : {Nothing}, named : {FALSE}]

RefreshCache ==
  /\ Steps("cache")
  /\ \E g \in {[NewEpoch(data.g, Nothing) EXCEPT !.cache = {}]}
              \cup {[data.g EXCEPT !.cache = c] : c \in {{}} \cup {{e} : e \in CacheEntries}} :
       data' = [data EXCEPT !.g = g,
                            !.pc = IF data.sample.capture THEN "map" ELSE "players"]
  /\ UNCHANGED <<app, screen, win, menu, worker, shared, mem>>

-----------------------------------------------------------------------------
(* sampleMapState: coordinates belong to a map, and a name that cannot be  *)
(* read is no map.                                                         *)
MapEpoch(g, map) ==
  IF map = Nothing \/ g.map # map
  THEN [g EXCEPT !.last = {}, !.observed = {}, !.map = map, !.mapState = map]
  ELSE [g EXCEPT !.mapState = map]

(* The observer's target: read, known to be none, or kept for a while. *)
Observers == {"target", "none", "unread"}
ObserverAge(g, seen) ==
  CASE g.mapState = Nothing -> g.observed
    [] seen = "target" -> {0}
    [] seen = "none" -> {}
    [] OTHER -> {a \in g.observed : a <= KeepTicks}

SampleMap ==
  /\ Steps("map")
  /\ \E map \in OrNothing(MapIds), seen \in Observers :
       LET g == MapEpoch(data.g, map)
           observed == ObserverAge(g, seen)
       IN data' = [data EXCEPT !.pc = "players",
                               !.g = [g EXCEPT !.observed = observed],
                               !.sample.observed = map # Nothing /\ observed # {}]
  /\ UNCHANGED <<app, screen, win, menu, worker, shared, mem>>

-----------------------------------------------------------------------------
(* radar_player_sample.hpp: the same slot, controller, pawn, handle and    *)
(* team, and no two different Steam ids.                                   *)
Compatible(a, b) ==
  a.pawn = b.pawn /\ (a.steam = b.steam \/ a.steam = Nothing \/ b.steam = Nothing)

CanReuse(q) == q.age <= KeepTicks

(* Who the kept state is about after an observation of who: another        *)
(* player, or the same one alive again, starts from nothing.               *)
(* Mutant: a player who is alive again keeps what was known of the corpse. *)
KeptThroughDeath(last, who, alive) ==
  LET same == { e \in last : Compatible(who, e) }
  IN IF same = {}
     THEN [pawn |-> who.pawn, steam |-> who.steam, position |-> {}]
     ELSE LET e == CHOOSE e \in same : TRUE
          IN [pawn |-> e.pawn, position |-> e.position,
              steam |-> IF who.steam # Nothing THEN who.steam ELSE e.steam]

Kept(last, who, alive) ==
  LET same == { e \in last : Compatible(who, e) /\ ~(alive /\ ~e.alive) }
  IN IF same = {}
     THEN [pawn |-> who.pawn, steam |-> who.steam, position |-> {}]
     ELSE LET e == CHOOSE e \in same : TRUE
          IN [pawn |-> e.pawn, position |-> e.position,
              steam |-> IF who.steam # Nothing THEN who.steam ELSE e.steam]

(* retainPlayerSample: the dead and the dormant stay where they were first *)
(* seen so; for the others a failed read is bridged for a short time.      *)
RetainedPosition(kept, now, frozen) ==
  IF frozen THEN IF kept.position = {} THEN now ELSE kept.position
  ELSE IF now # {} THEN now ELSE kept.position
ShownPosition(position, frozen) ==
  IF frozen THEN position ELSE { q \in position : CanReuse(q) }

Retain(last, who, alive, dormant, now) ==
  LET kept == Kept(last, who, alive)
      frozen == dormant \/ ~alive
      position == RetainedPosition(kept, now, frozen)
  IN [ last |-> {[pawn |-> kept.pawn, steam |-> kept.steam, alive |-> alive,
                  position |-> position, age |-> 0]},
       shown |-> ShownPosition(position, frozen) ]

(* A read of an origin fails, finds zero or finds a place.  The origin of  *)
(* the scene node counts while the node belongs to the pawn, unless it is  *)
(* zero and the old origin is not; whose node is another's is dormant.     *)
Origins == {"unread", "zero", "place"}
ChoosePosition(absolute, old) ==
  CASE "place" \in {absolute, old} -> "place"
    [] "zero" \in {absolute, old} -> "zero"
    [] OTHER -> "unread"
SceneSample(owner, absolute, old) ==
  ChoosePosition(IF owner THEN absolute ELSE "unread", old) # "unread"
RadarDormant(owner, dormant) == ~owner \/ dormant

(* A position read now, of the cached pawn e. *)
PositionOf(e, alive) ==
  [ map |-> data.g.mapState, local |-> data.sample.local, pawn |-> e.pawn,
    steam |-> e.steam, alive |-> alive, age |-> 0 ]

(* The samples of slots not seen for too long are forgotten. *)
Forget(last) == { e \in last : e.age <= KeepTicks }

(* Enemies are published once per update, also when there are none. *)
PublishEnemies(s, some) == [s EXCEPT !.enemies = some, !.lag = 0]

(* The slot is passed over: nothing cached, not of interest between radar  *)
(* samples, or its controller has another pawn, health or team by now.     *)
PassOver ==
  /\ Steps("players")
  /\ data' = [data EXCEPT !.pc = "publish",
                          !.g.last = IF data.sample.capture THEN Forget(@) ELSE @]
  /\ shared' = PublishEnemies(shared, FALSE)
  /\ UNCHANGED <<app, screen, win, menu, worker, mem>>

SampleEnemy ==
  /\ Steps("players") /\ data.g.cache # {}
  /\ data.config.esp /\ ~data.sample.capture
  /\ data' = [data EXCEPT !.pc = "publish"]
  /\ shared' = PublishEnemies(shared, TRUE)
  /\ UNCHANGED <<app, screen, win, menu, worker, mem>>

SamplePlayer ==
  /\ Steps("players") /\ data.sample.capture
  /\ \E e \in data.g.cache, alive, owner, asleep \in BOOLEAN, absolute, old \in Origins :
       LET now == IF SceneSample(owner, absolute, old) THEN {PositionOf(e, alive)} ELSE {}
           dormant == RadarDormant(owner, asleep)
           retains == data.g.mapState # Nothing /\ e.named
           r == IF retains THEN Retain(data.g.last, e, alive, dormant, now)
                ELSE [last |-> data.g.last, shown |-> now]
           player == [ pawn |-> e.pawn, steam |-> e.steam, alive |-> alive,
                       dormant |-> dormant, position |-> r.shown ]
       IN /\ data' = [data EXCEPT !.pc = "publish", !.sample.players = {player},
                                  !.g.last = Forget(r.last)]
          /\ \E enemy \in BOOLEAN :
               /\ enemy => data.config.esp /\ alive
               /\ shared' = PublishEnemies(shared, enemy)
  /\ UNCHANGED <<app, screen, win, menu, worker, mem>>

-----------------------------------------------------------------------------
(* updateBombInfo: gone, found, or flags that could not be read.           *)
Bombs(b) == {FALSE, TRUE, b}

(* The dropped bomb among the world entities: looked for every 250 ms, its *)
(* position read while the index still names the same entity.              *)
DiscoverBomb(g, due, listed, found) ==
  IF due THEN [g EXCEPT !.c4 = listed /\ found] ELSE g
PositionBomb(g, due, listed, resolves) ==
  IF due THEN [g EXCEPT !.dropped = listed /\ g.c4 /\ resolves] ELSE g
NoWorldEntities(g) == [g EXCEPT !.c4 = FALSE, !.dropped = FALSE]

(* World entities, bomb and, when one was taken, the radar snapshot. *)
Publish ==
  /\ Steps("publish")
  /\ \E discover, position, listed, found, resolves \in BOOLEAN :
       LET g == IF data.config.radar
                THEN PositionBomb(DiscoverBomb(data.g, discover, listed, found),
                                  position, listed, resolves)
                ELSE NoWorldEntities(data.g)
       IN data' = [data EXCEPT !.pc = "check", !.sample = NoSample, !.g = g]
  /\ \E bomb \in Bombs(shared.bomb) :
       /\ ~data.config.radar => ~bomb
       /\ data.config.radar /\ ~data.sample.capture => bomb = shared.bomb
       /\ shared' = [shared EXCEPT !.bomb = bomb,
                                   !.snapshot = IF data.sample.capture THEN "live" ELSE @]
  /\ UNCHANGED <<app, screen, win, menu, worker, mem>>

DataWorks ==
  \/ DataExits \/ DataIdles \/ DataBegins \/ ReadFails \/ ReadLocal \/ RefreshCache
  \/ SampleMap \/ PassOver \/ SampleEnemy \/ SamplePlayer \/ Publish
DataStep == DataWorks \/ DataSleeps
=============================================================================

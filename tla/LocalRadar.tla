----------------------------- MODULE LocalRadar -----------------------------
(***************************************************************************)
(* The radar drawn into the overlay (local_fixed_radar.cpp): which floor   *)
(* of a map is shown (fixed_map_radar.hpp) and the cache of map textures,  *)
(* whose textures belong to an SDL renderer that the overlay destroys and  *)
(* creates again (sdl_renderer.cpp, main.cpp).  All of it runs on the main *)
(* thread; what it is given, and what fails, is up to the environment.     *)
(*                                                                         *)
(* lastUsed orders the cached entries and is represented by their order in *)
(* the sequence, the least recently used first.  Whether retryAfter has    *)
(* passed is left open.  Drawing keeps no state.                           *)
(***************************************************************************)
EXTENDS Integers, SequencesExt

CONSTANTS
  Definitions,   \* the catalog: a map's name to its image and its levels
  MapNames,      \* names a snapshot may carry
  PlayerIds,     \* players of a snapshot, in this order
  Places,        \* heights of positions
  Hysteresis,    \* 24 units
  MaxTextures,   \* MAX_CACHED_RADAR_TEXTURES
  MaxRevisions,  \* bound: renderers created
  None           \* no value: std::nullopt, a null texture

ASSUME RadarAssumption ==
  /\ MaxTextures \in Nat \ {0} /\ MaxRevisions \in Nat /\ Hysteresis \in Nat
  /\ Places \subseteq Int /\ None \notin Int
  /\ PlayerIds \in Seq(Range(PlayerIds))
  /\ \A map \in DOMAIN Definitions :
       LET levels == Definitions[map].levels
       IN /\ levels \in Seq(Range(levels))
          /\ \A i \in DOMAIN levels : levels[i].min \in Int /\ levels[i].max \in Int

VARIABLES
  device,    \* the renderer: whether there is one, and its revision
  textures,  \* textures of the renderer that have not been destroyed
  cache,     \* textureCache
  floor      \* selectedLevelMapId, selectedLevelIndex and the last reference

radarVars == <<device, textures, cache, floor>>

-----------------------------------------------------------------------------
(* selectReferenceZ: the player whose height chooses the floor. *)
Teams == {"T", "CT", "other"}
PlayerStates == [alive : BOOLEAN, team : Teams, z : Places \cup {None}]
Snapshots ==
  [ players : [1..Len(PlayerIds) -> PlayerStates],
    localId : Range(PlayerIds) \cup {None}, observedId : Range(PlayerIds) \cup {None},
    localTeam : Teams ]

First(s, indices) ==
  LET found == { i \in indices : s.players[i].z # None }
  IN IF found = {} THEN None ELSE Min(found)
OrElse(a, b) == IF a # None THEN a ELSE b

ReferenceTeam(s) ==
  LET locals == { i \in DOMAIN s.players : PlayerIds[i] = s.localId /\ s.players[i].team # "other" }
  IN IF locals = {} THEN s.localTeam ELSE s.players[CHOOSE i \in locals : TRUE].team

ReferencePlayer(s) ==
  LET p == s.players
      all == DOMAIN p
      living == { i \in all : p[i].alive }
      local == { i \in all : PlayerIds[i] = s.localId }
      observed == { i \in living : PlayerIds[i] = s.observedId }
      mates == { i \in living : ReferenceTeam(s) # "other" /\ p[i].team = ReferenceTeam(s) }
  IN OrElse(First(s, local \cap living), OrElse(First(s, observed),
     OrElse(First(s, mates), OrElse(First(s, living),
     OrElse(First(s, local), First(s, all))))))

(* Its height, whether that player lives, and whether anybody who can be   *)
(* placed does.                                                            *)
ReferenceZ(s) ==
  LET i == ReferencePlayer(s)
  IN [ z |-> IF i = None THEN None ELSE s.players[i].z,
       living |-> i # None /\ s.players[i].alive,
       someLiving |-> \E j \in DOMAIN s.players : s.players[j].alive /\ s.players[j].z # None ]
References == { ReferenceZ(s) : s \in Snapshots }

-----------------------------------------------------------------------------
(* selectLevel: the first level that holds the height, or the nearest;     *)
(* levels without extent do not count.                                     *)
ValidLevel(l) == l.min < l.max
Holds(l, z, margin) == z >= l.min - margin /\ z < l.max + margin
Distance(l, z) == IF z < l.min THEN l.min - z ELSE z - l.max

SelectLevel(levels, z) ==
  LET valid == { i \in DOMAIN levels : ValidLevel(levels[i]) }
      holding == { i \in valid : Holds(levels[i], z, 0) }
      nearest == { i \in valid : \A j \in valid : Distance(levels[i], z) <= Distance(levels[j], z) }
  IN IF holding # {} THEN Min(holding)
     ELSE IF valid # {} THEN Min(nearest) ELSE None

(* The level shown before stays while the height is within its margin. *)
WithHysteresis(levels, z, previous) ==
  LET selected == SelectLevel(levels, z)
  IN IF /\ selected # None /\ previous # None /\ previous \in DOMAIN levels
        /\ ValidLevel(levels[previous]) /\ Holds(levels[previous], z, Hysteresis)
     THEN previous ELSE selected

NoFloor == [map |-> None, index |-> None, z |-> None, living |-> FALSE, someLiving |-> FALSE]

(* Mutant: the level of another map is taken for the level shown before. *)
SelectedAcrossMaps(map, r) ==
  [ map |-> map, z |-> r.z, living |-> r.living, someLiving |-> r.someLiving,
    index |-> IF r.z = None THEN None
              ELSE WithHysteresis(Definitions[map].levels, r.z, floor.index) ]

Selected(map, r) ==
  LET previous == IF floor.map = map THEN floor.index ELSE None
  IN [ map |-> map, z |-> r.z, living |-> r.living, someLiving |-> r.someLiving,
       index |-> IF r.z = None THEN None
                 ELSE WithHysteresis(Definitions[map].levels, r.z, previous) ]

Image(f) ==
  LET d == Definitions[f.map]
  IN IF f.index = None THEN d.image ELSE d.levels[f.index].image

-----------------------------------------------------------------------------
(* textureForImage. *)
EmptyCache(revision) == [revision |-> revision, entries |-> <<>>]
Fresh(live) == CHOOSE t \in 1..(2 * MaxTextures) : t \notin live
Loaded(loads, live) == IF loads THEN Fresh(live) ELSE None
Owned(entries) == { entries[i].texture : i \in DOMAIN entries } \ {None}

(* Another revision: its textures went with the old renderer. *)
Current == IF cache.revision = device.revision THEN cache ELSE EmptyCache(device.revision)

(* Mutant: the entry makes room and its texture is not destroyed. *)
EvictedQuietly(entry) == textures

Evicted(entry) == textures \ {entry.texture}

CacheHit(c, i, due, loads) ==
  LET e == c.entries[i]
      texture == IF e.texture = None /\ due THEN Loaded(loads, textures) ELSE e.texture
  IN /\ cache' = [c EXCEPT !.entries = Append(RemoveAt(@, i), [e EXCEPT !.texture = texture])]
     /\ textures' = textures \cup ({texture} \ {None})

(* Mutant: a full cache is noticed one entry late. *)
FullTooLate(c) == Len(c.entries) > MaxTextures

Full(c) == Len(c.entries) >= MaxTextures

CacheMiss(c, image, loads) ==
  LET full == Full(c)
      kept == IF full THEN Tail(c.entries) ELSE c.entries
      live == IF full THEN Evicted(Head(c.entries)) ELSE textures
      texture == Loaded(loads, live)
  IN /\ cache' = [c EXCEPT !.entries = Append(kept, [image |-> image, texture |-> texture])]
     /\ textures' = live \cup ({texture} \ {None})

TextureForImage(image) ==
  \E due, loads \in BOOLEAN :
    LET hits == { i \in DOMAIN Current.entries : Current.entries[i].image = image }
    IN IF hits = {} THEN CacheMiss(Current, image, loads)
       ELSE \E i \in hits : CacheHit(Current, i, due, loads)

-----------------------------------------------------------------------------
(* A frame with the radar on: nothing is drawn and nothing changes without *)
(* a viewport, a map, or the map in the catalog.  The renderer was looked  *)
(* at when the frame began.                                                *)
Find(map) == map \in DOMAIN Definitions
Render ==
  /\ device.renderer
  /\ \E map \in { m \in MapNames : Find(m) }, r \in References :
       LET f == Selected(map, r)
       IN floor' = f /\ TextureForImage(Image(f))
  /\ UNCHANGED device

(* The radar is switched off, or a session ends. *)
Reset ==
  /\ cache' = EmptyCache(0) /\ floor' = NoFloor
  /\ textures' = IF cache.revision = device.revision /\ device.renderer
                 THEN textures \ Owned(cache.entries) ELSE textures
SwitchedOff == Reset /\ UNCHANGED device

(* createRenderer counts the renderers.  A lost one is destroyed, with its *)
(* textures, before another is created, which may fail; the one of a       *)
(* session is destroyed after the radar was reset.                         *)
CreateRenderer ==
  /\ ~device.renderer /\ device.revision < MaxRevisions
  /\ device' = [renderer |-> TRUE, revision |-> device.revision + 1]
  /\ UNCHANGED <<textures, cache, floor>>
RecoverRenderer ==
  /\ device.renderer
  /\ \/ /\ device.revision < MaxRevisions
        /\ device' = [device EXCEPT !.revision = @ + 1]
     \/ device' = [device EXCEPT !.renderer = FALSE]
  /\ textures' = {}
  /\ UNCHANGED <<cache, floor>>
EndSession ==
  /\ cache' = EmptyCache(0) /\ floor' = NoFloor /\ textures' = {}
  /\ device' = [device EXCEPT !.renderer = FALSE]

RadarInit ==
  /\ device = [renderer |-> FALSE, revision |-> 0]
  /\ textures = {} /\ cache = EmptyCache(0) /\ floor = NoFloor
RadarNext == Render \/ SwitchedOff \/ CreateRenderer \/ RecoverRenderer \/ EndSession
RadarSpec == RadarInit /\ [][RadarNext]_radarVars

-----------------------------------------------------------------------------
RadarTypeOK ==
  /\ device \in [renderer : BOOLEAN, revision : 0..MaxRevisions]
  /\ cache.revision \in 0..MaxRevisions /\ Len(cache.entries) <= MaxTextures
  /\ floor.index = None \/ floor.index \in DOMAIN Definitions[floor.map].levels

(* Every live texture is the texture of one cache entry, and every cached  *)
(* texture lives as long as the renderer it was created with: none leaks,  *)
(* and none is drawn or destroyed after its renderer, whatever was lost,   *)
(* recovered, evicted or reset (local_fixed_radar.cpp:288-358, 971-985).   *)
TexturesOwned ==
  /\ textures = IF device.renderer /\ cache.revision = device.revision
                THEN Owned(cache.entries) ELSE {}
  /\ \A i, j \in DOMAIN cache.entries :
       i # j => /\ cache.entries[i].image # cache.entries[j].image
                /\ cache.entries[i].texture = None
                   \/ cache.entries[i].texture # cache.entries[j].texture

(* The floor shown belongs to a living player when one can be placed.  On  *)
(* a map just entered it holds that player's height, when a floor does;    *)
(* from then on another floor is shown only once the height has left the   *)
(* margin of the one before (fixed_map_radar.hpp:86-231,                   *)
(* local_fixed_radar.cpp:641-656).                                         *)
Exactly(levels, z, i) ==
  Holds(levels[i], z, 0) \/ \A l \in Range(levels) : ~(ValidLevel(l) /\ Holds(l, z, 0))
FloorHolds ==
  [][ LET levels == Definitions[floor'.map].levels
      IN floor'.index # None =>
           /\ floor'.someLiving => floor'.living
           /\ floor'.index # floor.index \/ floor'.map # floor.map =>
                Exactly(levels, floor'.z, floor'.index)
           /\ floor'.map = floor.map /\ floor.index \notin {None, floor'.index} =>
                ~Holds(levels[floor.index], floor'.z, Hysteresis)
    ]_radarVars
=============================================================================

---------------------------- MODULE Tools_proofs ----------------------------
(***************************************************************************)
(* Proofs about the overlay's radar, the island tool's scanner and the     *)
(* offset dumper: each program's own specification, for every value of its *)
(* constants, and at the end what TLC runs the three with.                 *)
(***************************************************************************)
EXTENDS MCTools, FiniteSetTheorems, WellFoundedInduction, SequenceTheorems, TLAPS

(* A set of natural numbers that is not empty has its least element, Min's.  *)
LEMMA NatMin ==
  ASSUME NEW S \in SUBSET Nat, S # {}
  PROVE  Min(S) \in S /\ \A x \in S : Min(S) <= x
<1> DEFINE R == { ss \in Nat \X Nat : ss[1] < ss[2] }
<1>1. IsWellFoundedOn(R, Nat)
  BY NatLessThanWellFounded, Zenon DEF OpToRel
<1>2. PICK m \in S : \A y \in S : <<y, m>> \notin R
  <2> HIDE DEF R
  <2> QED
    BY <1>1, WFMin
<1>3. ASSUME NEW y \in S PROVE m <= y
  <2>1. y \in Nat /\ m \in Nat
    OBVIOUS
  <2>2. ~(y < m)
    <3>1. SUFFICES ASSUME y < m PROVE <<y, m>> \in R
      BY <1>2
    <3> QED
      BY <2>1, <3>1
  <2> QED
    BY <2>1, <2>2
<1> QED
  BY <1>3 DEF Min

-----------------------------------------------------------------------------
(* The overlay's radar. *)

(* What a missing value is not. *)
LEMMA RadarNumbers ==
  None \notin Int /\ Places \subseteq Int /\ Hysteresis \in Nat /\ MaxTextures \in Nat \ {0}
BY RadarAssumption

-----------------------------------------------------------------------------
(* The floor shown. *)

(* The first of some players that can be placed, if there is one. *)
LEMMA FirstFound ==
  ASSUME NEW s \in Snapshots, NEW S \in SUBSET DOMAIN s.players
  PROVE  /\ First(s, S) = None => \A i \in S : s.players[i].z = None
         /\ First(s, S) # None => First(s, S) \in S /\ s.players[First(s, S)].z # None
<1> DEFINE found == { i \in S : s.players[i].z # None }
<1>1. DOMAIN s.players = 1..Len(PlayerIds) /\ Len(PlayerIds) \in Nat
  BY RadarAssumption DEF Snapshots
<1>2. found \in SUBSET Nat
  BY <1>1
<1>3. CASE found = {}
  <2>1. First(s, S) = None
    BY <1>3 DEF First
  <2> QED
    BY <1>3, <2>1
<1>4. CASE found # {}
  <2>1. First(s, S) = Min(found)
    BY <1>4 DEF First
  <2>2. Min(found) \in found
    BY <1>2, <1>4, NatMin
  <2>3. First(s, S) # None
    <3>1. \A i \in found : i \in Int
      BY <1>1
    <3>2. Min(found) \in Int
      BY <2>2, <3>1
    <3> QED
      BY <2>1, <3>2, RadarNumbers
  <2> QED
    BY <2>1, <2>2, <2>3
<1> QED
  BY <1>3, <1>4

(* A player is found while one can be placed, a living one while a living  *)
(* one can, and it has a height (selectReferenceZ).                        *)
LEMMA ReferenceLives ==
  ASSUME NEW r \in References
  PROVE  /\ r.z \in Places \cup {None}
         /\ r.z # None /\ r.someLiving => r.living
<1>1. PICK s \in Snapshots : r = ReferenceZ(s)
  BY DEF References
<1> DEFINE p == s.players
           all == DOMAIN p
           living == { i \in all : p[i].alive }
           local == { i \in all : PlayerIds[i] = s.localId }
           observed == { i \in living : PlayerIds[i] = s.observedId }
           mates == { i \in living : ReferenceTeam(s) # "other" /\ p[i].team = ReferenceTeam(s) }
           i == ReferencePlayer(s)
<1>2. i = OrElse(First(s, local \cap living), OrElse(First(s, observed),
          OrElse(First(s, mates), OrElse(First(s, living),
          OrElse(First(s, local), First(s, all))))))
  BY DEF ReferencePlayer
<1>3. /\ (local \cap living) \in SUBSET all /\ observed \in SUBSET all
      /\ mates \in SUBSET all /\ living \in SUBSET all /\ local \in SUBSET all
      /\ all \in SUBSET all
  OBVIOUS
<1>4. p \in [1..Len(PlayerIds) -> PlayerStates]
  BY DEF Snapshots
<1>5. i # None => i \in all
  BY <1>2, <1>3, FirstFound DEF OrElse
<1>6. i # None => i \in living \/ First(s, living) = None
  BY <1>2, <1>3, FirstFound DEF OrElse
<1>7. First(s, living) = None => \A j \in living : p[j].z = None
  BY <1>3, FirstFound
<1>8. /\ r.z = (IF i = None THEN None ELSE p[i].z)
      /\ r.living = (i # None /\ p[i].alive)
      /\ r.someLiving = (\E j \in all : p[j].alive /\ p[j].z # None)
  BY <1>1 DEF ReferenceZ
<1> HIDE DEF i
<1>9. r.z \in Places \cup {None}
  BY <1>4, <1>5, <1>8 DEF PlayerStates
<1>10. ASSUME r.z # None, r.someLiving PROVE r.living
  <2>1. i # None
    BY <1>8, <1>10
  <2>2. First(s, living) # None
    BY <1>7, <1>8, <1>10
  <2> QED
    BY <1>6, <1>8, <2>1, <2>2
<1> QED
  BY <1>9, <1>10

(* The level selected has an extent, and holds the height if one does.     *)
LEMMA LevelSelected ==
  ASSUME NEW map \in DOMAIN Definitions, NEW z \in Int,
         SelectLevel(Definitions[map].levels, z) # None
  PROVE  LET levels == Definitions[map].levels
             i == SelectLevel(levels, z)
         IN i \in DOMAIN levels /\ ValidLevel(levels[i]) /\ Exactly(levels, z, i)
<1> DEFINE levels == Definitions[map].levels
           valid == { i \in DOMAIN levels : ValidLevel(levels[i]) }
           holding == { i \in valid : Holds(levels[i], z, 0) }
           nearest == { i \in valid :
                          \A j \in valid : Distance(levels[i], z) <= Distance(levels[j], z) }
<1>1. levels \in Seq(Range(levels)) /\ \A i \in DOMAIN levels : levels[i].min \in Int
                                                                /\ levels[i].max \in Int
  BY RadarAssumption
<1>2. DOMAIN levels \in SUBSET Nat
  BY <1>1
<1>s. SelectLevel(levels, z) =
        IF holding # {} THEN Min(holding) ELSE IF valid # {} THEN Min(nearest) ELSE None
  BY DEF SelectLevel
<1>3. CASE holding # {}
  <2>1. SelectLevel(levels, z) = Min(holding)
    <3> HIDE DEF holding, valid, nearest, levels
    <3> QED
      BY <1>3, <1>s
  <2>2. Min(holding) \in holding
    BY <1>2, <1>3, NatMin
  <2> QED
    BY <2>1, <2>2 DEF Exactly
<1>4. CASE holding = {} /\ valid # {}
  <2> DEFINE distances == { Distance(levels[i], z) : i \in valid }
  <2>1. distances \in SUBSET Nat
    <3>1. ASSUME NEW i \in valid PROVE Distance(levels[i], z) \in Nat
      <4>1. levels[i].min \in Int /\ levels[i].max \in Int /\ ~Holds(levels[i], z, 0)
        BY <1>1, <1>4
      <4> QED
        BY <4>1 DEF Holds, Distance
    <3> QED
      BY <3>1
  <2>2. distances # {}
    BY <1>4
  <2>3. PICK i \in valid : \A j \in valid : Distance(levels[i], z) <= Distance(levels[j], z)
    <3>1. Min(distances) \in distances /\ \A x \in distances : Min(distances) <= x
      BY <2>1, <2>2, NatMin
    <3> QED
      BY <3>1
  <2>4. nearest # {}
    BY <2>3
  <2>5. Min(nearest) \in nearest
    BY <1>2, <2>4, NatMin
  <2>6. SelectLevel(levels, z) = Min(nearest)
    <3> HIDE DEF holding, valid, nearest, levels
    <3> QED
      BY <1>4, <1>s
  <2>7. \A l \in Range(levels) : ~(ValidLevel(l) /\ Holds(l, z, 0))
    BY <1>4 DEF Range
  <2> QED
    BY <2>5, <2>6, <2>7 DEF Exactly
<1>5. CASE valid = {}
  BY <1>5 DEF SelectLevel
<1> QED
  BY <1>3, <1>4, <1>5

(* The floor remembered is one of its map, and of a living player's.       *)
FloorOK(f) ==
  f.index # None =>
    /\ f.map \in DOMAIN Definitions
    /\ f.index \in DOMAIN Definitions[f.map].levels
    /\ ValidLevel(Definitions[f.map].levels[f.index])
    /\ f.someLiving => f.living

(* The floor f after the floor before: another one holds the height or no  *)
(* floor does, and the one before does not hold it within its margin.      *)
After(before, f) ==
  LET levels == Definitions[f.map].levels
  IN f.index # None =>
       /\ f.someLiving => f.living
       /\ f.index # before.index \/ f.map # before.map => Exactly(levels, f.z, f.index)
       /\ f.map = before.map /\ before.index \notin {None, f.index} =>
            ~Holds(levels[before.index], f.z, Hysteresis)

(* The floor chosen for a frame is one and comes after the floor before    *)
(* (selectLevelWithHysteresis).                                            *)
LEMMA FloorChosen ==
  ASSUME NEW map \in DOMAIN Definitions, NEW r \in References, FloorOK(floor)
  PROVE  FloorOK(Selected(map, r)) /\ After(floor, Selected(map, r))
<1> DEFINE f == Selected(map, r)
           levels == Definitions[map].levels
           previous == IF floor.map = map THEN floor.index ELSE None
           selected == SelectLevel(levels, r.z)
<1>1. /\ f.map = map /\ f.z = r.z /\ f.living = r.living /\ f.someLiving = r.someLiving
      /\ f.index = IF r.z = None THEN None ELSE WithHysteresis(levels, r.z, previous)
  BY DEF Selected
<1> SUFFICES FloorOK(f) /\ After(floor, f)
  OBVIOUS
<1> HIDE DEF f
<1>2. CASE f.index = None
  BY <1>1, <1>2 DEF FloorOK, After
<1>3. CASE f.index # None
  <2>1. r.z # None /\ r.z \in Int /\ (r.someLiving => r.living)
    BY <1>1, <1>3, ReferenceLives, RadarNumbers
  <2> DEFINE stays == /\ selected # None /\ previous # None /\ previous \in DOMAIN levels
                      /\ ValidLevel(levels[previous])
                      /\ Holds(levels[previous], r.z, Hysteresis)
  <2>2. f.index = IF stays THEN previous ELSE selected
    BY <1>1, <2>1 DEF WithHysteresis
  <2>3. CASE stays
    <3>1. f.index = previous /\ previous = floor.index /\ floor.map = map
      BY <2>2, <2>3
    <3>2. FloorOK(f)
      BY <1>1, <2>1, <2>3, <3>1 DEF FloorOK
    <3> QED
      BY <1>1, <2>1, <3>1, <3>2 DEF After
  <2>4. CASE ~stays
    <3>1. f.index = selected /\ selected # None
      BY <1>3, <2>2, <2>4
    <3>2. /\ selected \in DOMAIN levels /\ ValidLevel(levels[selected])
          /\ Exactly(levels, r.z, selected)
      BY <2>1, <3>1, LevelSelected
    <3>3. FloorOK(f)
      BY <1>1, <2>1, <3>1, <3>2 DEF FloorOK
    <3>4. ASSUME map = floor.map, floor.index \notin {None, f.index}
          PROVE  ~Holds(levels[floor.index], f.z, Hysteresis)
      <4>1. previous = floor.index /\ floor.index # None
        BY <3>4
      <4>2. floor.index \in DOMAIN levels /\ ValidLevel(levels[floor.index])
        BY <3>4, <4>1 DEF FloorOK
      <4> QED
        BY <1>1, <2>4, <3>1, <4>1, <4>2
    <3> QED
      BY <1>1, <2>1, <3>1, <3>2, <3>3, <3>4 DEF After
  <2> QED
    BY <2>3, <2>4
<1> QED
  BY <1>2, <1>3

(* A step of the radar keeps the floor, forgets it, or chooses another.    *)
LEMMA FloorStep ==
  ASSUME FloorOK(floor), [RadarNext]_radarVars
  PROVE  FloorOK(floor') /\ After(floor, floor')
<1>1. CASE Render
  <2>1. PICK map \in DOMAIN Definitions, r \in References : floor' = Selected(map, r)
    BY <1>1 DEF Render, Find
  <2> QED
    BY <2>1, FloorChosen
<1>2. CASE UNCHANGED floor
  BY <1>2 DEF FloorOK, After
<1>3. CASE floor' = NoFloor
  BY <1>3 DEF NoFloor, FloorOK, After
<1>4. Render \/ UNCHANGED floor \/ floor' = NoFloor
  BY DEF RadarNext, SwitchedOff, Reset, CreateRenderer, RecoverRenderer, EndSession, radarVars
<1> QED
  BY <1>1, <1>2, <1>3, <1>4

(* The floor shown holds its height when one does, belongs to a living     *)
(* player when one can be placed, and is left only beyond its margin, for  *)
(* every catalog of maps (fixed_map_radar.hpp:86-231,                      *)
(* local_fixed_radar.cpp:641-656).                                         *)
THEOREM FloorsHold == RadarSpec => FloorHolds
<1>1. RadarInit => FloorOK(floor)
  BY DEF RadarInit, NoFloor, FloorOK
<1>2. FloorOK(floor) /\ [RadarNext]_radarVars => FloorOK(floor)'
  BY FloorStep DEF FloorOK
<1>3. FloorOK(floor) /\ [RadarNext]_radarVars =>
        [ LET levels == Definitions[floor'.map].levels
          IN floor'.index # None =>
               /\ floor'.someLiving => floor'.living
               /\ floor'.index # floor.index \/ floor'.map # floor.map =>
                    Exactly(levels, floor'.z, floor'.index)
               /\ floor'.map = floor.map /\ floor.index \notin {None, floor'.index} =>
                    ~Holds(levels[floor.index], floor'.z, Hysteresis)
        ]_radarVars
  BY FloorStep DEF After
<1> QED
  BY <1>1, <1>2, <1>3, PTL DEF RadarSpec, FloorHolds

-----------------------------------------------------------------------------
(* Textures. *)
ImageNames ==
  { Definitions[map].image : map \in DOMAIN Definitions }
  \cup UNION { { Definitions[map].levels[i].image : i \in DOMAIN Definitions[map].levels }
               : map \in DOMAIN Definitions }
TextureNames == 1..(2 * MaxTextures)
Entry == [image : ImageNames, texture : TextureNames \cup {None}]

(* No two entries are for the same image or have the same texture.         *)
Apart(entries) ==
  \A i, j \in DOMAIN entries :
    i # j => /\ entries[i].image # entries[j].image
             /\ entries[i].texture = None \/ entries[i].texture # entries[j].texture

(* The entries without the one at i.                                       *)
Rest(rest, entries, i) ==
  /\ rest \in Seq(Entry) /\ Len(rest) = Len(entries) - 1
  /\ \A j \in 1..(Len(entries) - 1) : rest[j] = entries[IF j < i THEN j ELSE j + 1]

(* RemoveAt and Tail leave the others in their order. *)
LEMMA RestOf ==
  ASSUME NEW entries \in Seq(Entry), NEW i \in 1..Len(entries)
  PROVE  /\ Rest(RemoveAt(entries, i), entries, i)
         /\ i = 1 => Rest(Tail(entries), entries, i)
<1> DEFINE n == Len(entries)
           left == SubSeq(entries, 1, i - 1)
           right == SubSeq(entries, i + 1, n)
<1>1. n \in Nat /\ i \in Nat /\ i >= 1 /\ i <= n /\ \A j \in 1..n : entries[j] \in Entry
  BY LenProperties, ElementOfSeq
<1>2. /\ left \in Seq(Entry) /\ Len(left) = i - 1
      /\ \A j \in 1..(i - 1) : left[j] = entries[j]
  <2>1. \A j \in 1..(i - 1) : entries[j] \in Entry
    BY <1>1
  <2>2. /\ left \in Seq(Entry)
        /\ Len(left) = IF 1 <= i - 1 THEN (i - 1) - 1 + 1 ELSE 0
        /\ \A j \in 1..((i - 1) - 1 + 1) : left[j] = entries[1 + j - 1]
    BY <1>1, <2>1, SubSeqProperties
  <2>3. \A j \in 1..(i - 1) : j \in 1..((i - 1) - 1 + 1) /\ 1 + j - 1 = j
    BY <1>1
  <2> HIDE DEF left
  <2> QED
    BY <1>1, <2>2, <2>3
<1>3. /\ right \in Seq(Entry) /\ Len(right) = n - i
      /\ \A j \in 1..(n - i) : right[j] = entries[i + j]
  <2>1. \A j \in (i + 1)..n : entries[j] \in Entry
    BY <1>1
  <2>2. /\ right \in Seq(Entry)
        /\ Len(right) = IF i + 1 <= n THEN n - (i + 1) + 1 ELSE 0
        /\ \A j \in 1..(n - (i + 1) + 1) : right[j] = entries[(i + 1) + j - 1]
    BY <1>1, <2>1, SubSeqProperties
  <2>3. \A j \in 1..(n - i) : j \in 1..(n - (i + 1) + 1) /\ (i + 1) + j - 1 = i + j
    BY <1>1
  <2> HIDE DEF right, n
  <2> QED
    BY <1>1, <2>2, <2>3
<1>4. Rest(RemoveAt(entries, i), entries, i)
  <2>1. RemoveAt(entries, i) = left \o right
    BY DEF RemoveAt
  <2> HIDE DEF left, right, n
  <2>2. /\ left \o right \in Seq(Entry) /\ Len(left \o right) = Len(left) + Len(right)
        /\ \A j \in 1..(Len(left) + Len(right)) : (left \o right)[j] =
             IF j <= Len(left) THEN left[j] ELSE right[j - Len(left)]
    BY <1>2, <1>3, ConcatProperties
  <2>3. ASSUME NEW j \in 1..(n - 1)
        PROVE  (left \o right)[j] = entries[IF j < i THEN j ELSE j + 1]
    <3>1. j \in 1..(Len(left) + Len(right))
      BY <1>1, <1>2, <1>3
    <3>2. CASE j < i
      BY <1>1, <1>2, <2>2, <3>1, <3>2
    <3>3. CASE j >= i
      <4>1. (left \o right)[j] = right[j - (i - 1)]
        BY SMTT(30), <1>1, <1>2, <2>2, <3>1, <3>3
      <4>2. j - (i - 1) \in 1..(n - i) /\ i + (j - (i - 1)) = j + 1
        BY <1>1, <3>3
      <4> QED
        BY <1>1, <1>3, <3>3, <4>1, <4>2
    <3>4. j < i \/ j >= i
      BY <1>1
    <3> QED
      BY <3>2, <3>3, <3>4
  <2> QED
    BY <1>1, <1>2, <1>3, <2>1, <2>2, <2>3 DEF Rest, n
<1>5. ASSUME i = 1 PROVE Rest(Tail(entries), entries, i)
  <2>1. entries # <<>>
    BY <1>1, EmptySeq
  <2>2. /\ Tail(entries) \in Seq(Entry) /\ Len(Tail(entries)) = Len(entries) - 1
        /\ \A j \in 1..Len(Tail(entries)) : Tail(entries)[j] = entries[j + 1]
    BY <2>1, HeadTailProperties
  <2> QED
    BY <1>1, <1>5, <2>2 DEF Rest
<1> QED
  BY <1>4, <1>5

(* What owns the textures when an entry is gone. *)
LEMMA RestApart ==
  ASSUME NEW entries \in Seq(Entry), NEW i \in 1..Len(entries), NEW rest,
         Rest(rest, entries, i), Apart(entries)
  PROVE  /\ Apart(rest)
         /\ Owned(rest) = Owned(entries) \ {entries[i].texture}
         /\ \A j \in DOMAIN rest : rest[j].image # entries[i].image
<1> DEFINE n == Len(entries)
           at(j) == IF j < i THEN j ELSE j + 1
<1>1. n \in Nat /\ DOMAIN entries = 1..n
  BY LenProperties
<1>2. DOMAIN rest = 1..(n - 1)
  BY <1>1, LenProperties DEF Rest
<1>3. \A j \in 1..(n - 1) : rest[j] = entries[at(j)] /\ at(j) \in 1..n /\ at(j) # i
  BY <1>1 DEF Rest
<1>4. \A j, k \in 1..(n - 1) : j # k => at(j) # at(k)
  BY <1>1
<1>5. \A k \in 1..n : k # i => \E j \in 1..(n - 1) : at(j) = k
  <2>1. ASSUME NEW k \in 1..n, k # i PROVE \E j \in 1..(n - 1) : at(j) = k
    <3>1. CASE k < i
      <4>1. k \in 1..(n - 1) /\ at(k) = k
        BY <1>1, <3>1
      <4> QED
        BY <4>1
    <3>2. CASE k > i
      <4>1. k - 1 \in 1..(n - 1) /\ at(k - 1) = k
        BY <1>1, <3>2
      <4> QED
        BY <4>1
    <3> QED
      BY <1>1, <2>1, <3>1, <3>2
  <2> QED
    BY <2>1
<1> HIDE DEF at, n
<1>6. Apart(rest)
  BY <1>1, <1>2, <1>3, <1>4 DEF Apart
<1>7. ASSUME NEW t PROVE t \in Owned(rest) => t \in Owned(entries) /\ t # entries[i].texture
  <2>1. SUFFICES ASSUME NEW j \in 1..(n - 1), t = rest[j].texture, t # None
                 PROVE  t \in Owned(entries) /\ t # entries[i].texture
    BY <1>2 DEF Owned
  <2>2. at(j) \in 1..n /\ at(j) # i /\ t = entries[at(j)].texture
    BY <1>3, <2>1
  <2> QED
    BY <1>1, <2>1, <2>2 DEF Owned, Apart, n
<1>8. ASSUME NEW t PROVE t \in Owned(entries) /\ t # entries[i].texture => t \in Owned(rest)
  <2>1. SUFFICES ASSUME NEW k \in 1..n, t = entries[k].texture, t # None, k # i
                 PROVE  t \in Owned(rest)
    BY <1>1 DEF Owned
  <2>2. PICK j \in 1..(n - 1) : at(j) = k
    BY <1>5, <2>1
  <2>3. t = rest[j].texture
    BY <1>3, <2>1, <2>2
  <2> QED
    BY <1>2, <2>1, <2>3 DEF Owned
<1>9. \A j \in DOMAIN rest : rest[j].image # entries[i].image
  BY <1>1, <1>2, <1>3 DEF Apart, n
<1> QED
  BY <1>6, <1>7, <1>8, <1>9

(* What owns the textures when an entry is added. *)
LEMMA AppendApart ==
  ASSUME NEW rest \in Seq(Entry), NEW e \in Entry, Apart(rest),
         \A j \in DOMAIN rest : rest[j].image # e.image,
         e.texture \notin Owned(rest)
  PROVE  /\ Append(rest, e) \in Seq(Entry) /\ Len(Append(rest, e)) = Len(rest) + 1
         /\ Apart(Append(rest, e))
         /\ Owned(Append(rest, e)) = Owned(rest) \cup ({e.texture} \ {None})
<1> DEFINE n == Len(rest)
           longer == Append(rest, e)
<1>1. n \in Nat /\ DOMAIN rest = 1..n
  BY LenProperties
<1>2. /\ longer \in Seq(Entry) /\ Len(longer) = n + 1
      /\ \A j \in 1..n : longer[j] = rest[j]
      /\ longer[n + 1] = e
  BY AppendProperties
<1>3. DOMAIN longer = 1..(n + 1)
  BY <1>1, <1>2, LenProperties
<1> HIDE DEF longer, n
<1>4. \A j \in 1..n : rest[j].texture = None \/ rest[j].texture # e.texture
  BY <1>1 DEF Owned
<1>5. Apart(longer)
  <2>1. SUFFICES ASSUME NEW i \in 1..(n + 1), NEW j \in 1..(n + 1), i # j
                 PROVE  /\ longer[i].image # longer[j].image
                        /\ longer[i].texture = None \/ longer[i].texture # longer[j].texture
    BY <1>3 DEF Apart
  <2>2. CASE i \in 1..n /\ j \in 1..n
    BY <1>1, <1>2, <2>1, <2>2 DEF Apart
  <2>3. CASE i \in 1..n /\ j = n + 1
    BY <1>1, <1>2, <1>4, <2>3
  <2>4. CASE i = n + 1 /\ j \in 1..n
    BY <1>1, <1>2, <1>4, <2>4
  <2> QED
    BY <1>1, <2>1, <2>2, <2>3, <2>4
<1>6. ASSUME NEW t PROVE t \in Owned(longer) <=> t \in Owned(rest) \cup ({e.texture} \ {None})
  <2>1. t \in Owned(longer) <=> t # None /\ \E j \in 1..(n + 1) : t = longer[j].texture
    BY <1>3 DEF Owned
  <2>2. t \in Owned(rest) <=> t # None /\ \E j \in 1..n : t = rest[j].texture
    BY <1>1 DEF Owned
  <2>3. \A j \in 1..(n + 1) : j \in 1..n \/ j = n + 1
    BY <1>1
  <2>4. n + 1 \in 1..(n + 1) /\ \A j \in 1..n : j \in 1..(n + 1)
    BY <1>1
  <2> QED
    BY <1>2, <2>1, <2>2, <2>3, <2>4
<1> QED
  BY <1>2, <1>5, <1>6 DEF longer, n

(* A texture is available while the cache is not over its limit, for each  *)
(* live one is in the cache (MAX_CACHED_RADAR_TEXTURES).                   *)
LEMMA FreshTexture ==
  ASSUME NEW entries \in Seq(Entry), Len(entries) <= MaxTextures,
         NEW live \in SUBSET Owned(entries)
  PROVE  Fresh(live) \in TextureNames /\ Fresh(live) \notin live /\ Fresh(live) # None
<1> DEFINE n == Len(entries)
<1>1. n \in Nat /\ DOMAIN entries = 1..n /\ MaxTextures \in Nat \ {0} /\ n < 2 * MaxTextures
  BY LenProperties, RadarNumbers
<1>2. \E t \in TextureNames : t \notin live
  <2>1. SUFFICES ASSUME \A t \in TextureNames : \E i \in 1..n : t = entries[i].texture
                 PROVE  FALSE
    BY <1>1 DEF Owned
  <2> DEFINE at == [t \in TextureNames |-> CHOOSE i \in 1..n : t = entries[i].texture]
  <2>2. at \in [TextureNames -> 1..n] /\ \A t \in TextureNames : t = entries[at[t]].texture
    BY <2>1
  <2>3. /\ IsFiniteSet(TextureNames) /\ IsFiniteSet(1..n)
        /\ Cardinality(1..n) < Cardinality(TextureNames)
    <3>1. /\ IsFiniteSet(1..(2 * MaxTextures))
          /\ Cardinality(1..(2 * MaxTextures)) =
               IF 1 > 2 * MaxTextures THEN 0 ELSE 2 * MaxTextures - 1 + 1
      BY <1>1, FS_Interval
    <3>2. IsFiniteSet(1..n) /\ Cardinality(1..n) = IF 1 > n THEN 0 ELSE n - 1 + 1
      <4> HIDE DEF n, at
      <4> QED
        BY <1>1, FS_Interval
    <3> QED
      BY <1>1, <3>1, <3>2 DEF TextureNames
  <2> HIDE DEF at
  <2>4. \E x, y \in TextureNames : x # y /\ at[x] = at[y]
    BY <2>2, <2>3, FS_PigeonHole
  <2> QED
    BY <2>2, <2>4
<1>3. Fresh(live) \in TextureNames /\ Fresh(live) \notin live
  BY <1>2 DEF Fresh, TextureNames
<1> QED
  BY <1>1, <1>3, RadarNumbers DEF TextureNames

(* The invariant of the cache. *)
CacheOK(c) ==
  /\ c.entries \in Seq(Entry) /\ Len(c.entries) <= MaxTextures /\ Apart(c.entries)
RadarInv ==
  /\ device \in [renderer : BOOLEAN, revision : 0..MaxRevisions]
  /\ cache \in [revision : 0..MaxRevisions, entries : Seq(Entry)]
  /\ cache.revision <= device.revision
  /\ CacheOK(cache)
  /\ textures = IF device.renderer /\ cache.revision = device.revision
                THEN Owned(cache.entries) ELSE {}

(* An empty cache owns nothing. *)
LEMMA EmptyOK ==
  ASSUME NEW n \in 0..MaxRevisions
  PROVE  /\ EmptyCache(n) \in [revision : 0..MaxRevisions, entries : Seq(Entry)]
         /\ EmptyCache(n).revision = n
         /\ CacheOK(EmptyCache(n)) /\ Owned(EmptyCache(n).entries) = {}
<1>1. <<>> \in Seq(Entry) /\ Len(<<>>) = 0 /\ DOMAIN <<>> = {}
  BY EmptySeq
<1>2. EmptyCache(n).entries = <<>> /\ EmptyCache(n).revision = n
  BY DEF EmptyCache
<1> QED
  BY <1>1, <1>2, RadarNumbers DEF EmptyCache, CacheOK, Apart, Owned

(* What textureForImage gives back for a cache that owns its textures:     *)
(* another one that does.                                                  *)
CacheKept(c) ==
  /\ cache' = [revision |-> c.revision, entries |-> cache'.entries]
  /\ CacheOK(cache') /\ textures' = Owned(cache'.entries)

(* A hit moves the entry to the end and may load its texture again.        *)
LEMMA HitKeeps ==
  ASSUME NEW c \in [revision : 0..MaxRevisions, entries : Seq(Entry)], CacheOK(c),
         textures = Owned(c.entries),
         NEW i \in DOMAIN c.entries, NEW due \in BOOLEAN, NEW loads \in BOOLEAN,
         CacheHit(c, i, due, loads)
  PROVE  CacheKept(c)
<1> DEFINE s == c.entries
           e == s[i]
           texture == IF e.texture = None /\ due THEN Loaded(loads, textures) ELSE e.texture
           rest == RemoveAt(s, i)
           moved == [e EXCEPT !.texture = texture]
<1>1. /\ s \in Seq(Entry) /\ Len(s) <= MaxTextures /\ Apart(s) /\ i \in 1..Len(s)
      /\ Len(s) \in Nat
  BY LenProperties DEF CacheOK
<1>2. e \in Entry
  BY <1>1, ElementOfSeq
<1>3. /\ texture \in TextureNames \cup {None} /\ (texture # e.texture => texture \notin textures)
  <2>1. Fresh(textures) \in TextureNames /\ Fresh(textures) \notin textures
    BY <1>1, FreshTexture
  <2> QED
    BY <1>2, <2>1 DEF Loaded, Entry, Owned
<1>4. cache' = [c EXCEPT !.entries = Append(rest, moved)]
      /\ textures' = textures \cup ({texture} \ {None})
  BY DEF CacheHit
<1> HIDE DEF s, texture, rest
<1>5. Rest(rest, s, i)
  BY <1>1, RestOf DEF rest
<1>6. /\ Apart(rest) /\ Owned(rest) = Owned(s) \ {e.texture}
      /\ \A j \in DOMAIN rest : rest[j].image # e.image
  BY <1>1, <1>5, RestApart
<1>7. rest \in Seq(Entry) /\ Len(rest) = Len(s) - 1
  BY <1>5 DEF Rest
<1>8. moved \in Entry /\ moved.image = e.image /\ moved.texture = texture
  BY <1>2, <1>3 DEF Entry
<1> HIDE DEF e, moved
<1>9. texture \notin Owned(rest)
  BY <1>3, <1>6 DEF s
<1>10. /\ Append(rest, moved) \in Seq(Entry) /\ Len(Append(rest, moved)) = Len(rest) + 1
       /\ Apart(Append(rest, moved))
       /\ Owned(Append(rest, moved)) = Owned(rest) \cup ({texture} \ {None})
  BY <1>6, <1>7, <1>8, <1>9, AppendApart
<1>11. cache'.entries = Append(rest, moved) /\ cache' = [revision |-> c.revision,
                                                         entries |-> Append(rest, moved)]
  BY <1>4
<1>12. textures' = Owned(rest) \cup ({texture} \ {None})
  <2>1. textures = Owned(s) /\ (e.texture # None => e.texture = texture)
    BY DEF s, texture
  <2>2. None \notin Owned(s)
    BY DEF Owned
  <2> QED
    BY <1>4, <1>6, <2>1, <2>2
<1> QED
  BY <1>1, <1>7, <1>10, <1>11, <1>12 DEF CacheKept, CacheOK

(* A miss makes room in a full cache, by the entry used longest ago and    *)
(* its texture.                                                            *)
LEMMA MissKeeps ==
  ASSUME NEW c \in [revision : 0..MaxRevisions, entries : Seq(Entry)], CacheOK(c),
         textures = Owned(c.entries),
         NEW image \in ImageNames, \A i \in DOMAIN c.entries : c.entries[i].image # image,
         NEW loads \in BOOLEAN, CacheMiss(c, image, loads)
  PROVE  CacheKept(c)
<1> DEFINE s == c.entries
           full == Full(c)
           kept == IF full THEN Tail(s) ELSE s
           live == IF full THEN Evicted(Head(s)) ELSE textures
           texture == Loaded(loads, live)
           added == [image |-> image, texture |-> texture]
<1>1. /\ s \in Seq(Entry) /\ Len(s) <= MaxTextures /\ Apart(s) /\ Len(s) \in Nat
      /\ DOMAIN s = 1..Len(s) /\ textures = Owned(s) /\ MaxTextures \in Nat \ {0}
  BY LenProperties, RadarNumbers DEF CacheOK
<1>2. cache' = [c EXCEPT !.entries = Append(kept, added)]
      /\ textures' = live \cup ({texture} \ {None})
  BY DEF CacheMiss
<1>3. /\ kept \in Seq(Entry) /\ Len(kept) < MaxTextures /\ Apart(kept)
      /\ \A j \in DOMAIN kept : kept[j].image # image
      /\ live = Owned(kept)
  <2>1. CASE full
    <3>1. 1 \in 1..Len(s) /\ Head(s) = s[1]
      BY <1>1, <2>1 DEF Full
    <3>2. Rest(kept, s, 1)
      BY <1>1, <2>1, <3>1, RestOf
    <3>3. /\ Apart(kept) /\ Owned(kept) = Owned(s) \ {s[1].texture}
      BY <1>1, <3>1, <3>2, RestApart
    <3>4. live = Owned(kept)
      BY <1>1, <2>1, <3>1, <3>3 DEF Evicted
    <3> HIDE DEF kept, live
    <3>5. kept \in Seq(Entry) /\ Len(kept) = Len(s) - 1
          /\ \A j \in 1..(Len(s) - 1) : kept[j] = s[j + 1]
      BY <1>1, <3>2 DEF Rest
    <3>6. DOMAIN kept = 1..(Len(s) - 1)
      BY <3>5, LenProperties
    <3>7. ASSUME NEW j \in DOMAIN kept PROVE kept[j].image # image
      <4>1. j \in 1..(Len(s) - 1) /\ j + 1 \in DOMAIN s
        BY <1>1, <3>6
      <4> QED
        BY <3>5, <4>1
    <3> QED
      BY <1>1, <3>3, <3>4, <3>5, <3>7
  <2>2. CASE ~full
    BY <1>1, <2>2 DEF Full
  <2> QED
    BY <2>1, <2>2
<1> HIDE DEF kept, live
<1>4. texture \in TextureNames \cup {None} /\ texture \notin Owned(kept)
  <2>1. Fresh(live) \in TextureNames /\ Fresh(live) \notin live
    BY <1>1, <1>3, FreshTexture
  <2>2. None \notin Owned(kept)
    BY DEF Owned
  <2> QED
    BY <1>3, <2>1, <2>2 DEF Loaded
<1> HIDE DEF texture
<1>5. added \in Entry /\ added.image = image /\ added.texture = texture
  BY <1>4 DEF Entry
<1> HIDE DEF added
<1>6. /\ Append(kept, added) \in Seq(Entry) /\ Len(Append(kept, added)) = Len(kept) + 1
      /\ Apart(Append(kept, added))
      /\ Owned(Append(kept, added)) = Owned(kept) \cup ({texture} \ {None})
  BY <1>3, <1>4, <1>5, AppendApart
<1>7. cache'.entries = Append(kept, added)
      /\ cache' = [revision |-> c.revision, entries |-> Append(kept, added)]
  BY <1>2
<1>8. Len(kept) \in Nat
  BY <1>3, LenProperties
<1>9. Len(Append(kept, added)) <= MaxTextures
  BY <1>1, <1>3, <1>6, <1>8
<1>10. textures' = Owned(Append(kept, added))
  BY <1>2, <1>3, <1>6
<1> QED
  BY <1>6, <1>7, <1>9, <1>10 DEF CacheKept, CacheOK

(* The image of a floor is one of the catalog. *)
LEMMA ImageNamed ==
  ASSUME NEW map \in DOMAIN Definitions, NEW r \in References, FloorOK(floor)
  PROVE  Image(Selected(map, r)) \in ImageNames
<1> DEFINE f == Selected(map, r)
<1>1. f.map = map /\ FloorOK(f)
  BY FloorChosen DEF Selected
<1> SUFFICES Image(f) \in ImageNames
  OBVIOUS
<1> HIDE DEF f
<1>2. CASE f.index = None
  BY <1>1, <1>2 DEF Image, ImageNames
<1>3. CASE f.index # None
  BY <1>1, <1>3 DEF Image, ImageNames, FloorOK
<1> QED
  BY <1>2, <1>3

(* Every step keeps the textures with their owners. *)
LEMMA TextureStep ==
  ASSUME RadarInv, FloorOK(floor), [RadarNext]_radarVars
  PROVE  RadarInv'
<1>0. MaxRevisions \in Nat /\ 0 \in 0..MaxRevisions
  BY RadarAssumption
<1>e. /\ EmptyCache(0) \in [revision : 0..MaxRevisions, entries : Seq(Entry)]
      /\ EmptyCache(0).revision = 0
      /\ CacheOK(EmptyCache(0)) /\ Owned(EmptyCache(0).entries) = {}
  BY <1>0, EmptyOK
<1>1. CASE Render
  <2>1. PICK image \in ImageNames : TextureForImage(image)
    BY <1>1, ImageNamed DEF Render, Find
  <2>2. /\ Current \in [revision : 0..MaxRevisions, entries : Seq(Entry)]
        /\ CacheOK(Current) /\ textures = Owned(Current.entries)
        /\ Current.revision = device.revision
    BY <1>1, EmptyOK DEF Render, RadarInv, Current
  <2>3. CacheKept(Current)
    <3> DEFINE hits == { i \in DOMAIN Current.entries : Current.entries[i].image = image }
    <3>1. PICK due \in BOOLEAN, loads \in BOOLEAN :
            IF hits = {} THEN CacheMiss(Current, image, loads)
            ELSE \E i \in hits : CacheHit(Current, i, due, loads)
      BY <2>1 DEF TextureForImage
    <3>2. CASE hits = {}
      BY <2>2, <3>1, <3>2, MissKeeps
    <3>3. CASE hits # {}
      <4>1. PICK i \in DOMAIN Current.entries : CacheHit(Current, i, due, loads)
        BY <3>1, <3>3
      <4> QED
        BY <2>2, <4>1, HitKeeps
    <3> QED
      BY <3>2, <3>3
  <2>4. device' = device /\ device.renderer
    BY <1>1 DEF Render
  <2>5. /\ cache'.revision = device.revision /\ CacheOK(cache')
        /\ cache' \in [revision : 0..MaxRevisions, entries : Seq(Entry)]
        /\ textures' = Owned(cache'.entries)
    BY <2>2, <2>3 DEF CacheKept, CacheOK
  <2> QED
    BY <2>4, <2>5 DEF RadarInv
<1>3. CASE SwitchedOff
  <2>1. textures' = {} /\ cache' = EmptyCache(0) /\ device' = device
    <3>1. CASE cache.revision = device.revision /\ device.renderer
      <4>1. textures = Owned(cache.entries) /\ textures' = textures \ Owned(cache.entries)
        BY <1>3, <3>1 DEF SwitchedOff, Reset, RadarInv
      <4> QED
        BY <1>3, <4>1 DEF SwitchedOff, Reset
    <3>2. CASE ~(cache.revision = device.revision /\ device.renderer)
      BY <1>3, <3>2 DEF SwitchedOff, Reset, RadarInv
    <3> QED
      BY <3>1, <3>2
  <2>2. /\ cache' \in [revision : 0..MaxRevisions, entries : Seq(Entry)]
        /\ cache'.revision = 0 /\ CacheOK(cache') /\ Owned(cache'.entries) = {}
    BY <1>e, <2>1
  <2> QED
    BY <1>0, <2>1, <2>2 DEF RadarInv
<1>4. CASE EndSession
  <2>1. /\ textures' = {} /\ cache' = EmptyCache(0)
        /\ device' = [device EXCEPT !.renderer = FALSE]
    BY <1>4 DEF EndSession
  <2>2. /\ device' \in [renderer : BOOLEAN, revision : 0..MaxRevisions]
    BY <2>1 DEF RadarInv
  <2> QED
    BY <1>0, <1>e, <2>1, <2>2 DEF RadarInv
<1>5. CASE CreateRenderer
  <2>1. /\ textures = {} /\ textures' = {} /\ cache' = cache
        /\ device' = [renderer |-> TRUE, revision |-> device.revision + 1]
        /\ device.revision < MaxRevisions
    BY <1>5 DEF CreateRenderer, RadarInv
  <2>2. /\ device' \in [renderer : BOOLEAN, revision : 0..MaxRevisions]
        /\ cache.revision < device'.revision
    BY <1>0, <2>1 DEF RadarInv
  <2> QED
    BY <2>1, <2>2 DEF RadarInv, CacheOK
<1>6. CASE RecoverRenderer
  <2>1. /\ textures' = {} /\ cache' = cache
    BY <1>6 DEF RecoverRenderer
  <2>2. /\ device' \in [renderer : BOOLEAN, revision : 0..MaxRevisions]
        /\ \/ cache.revision < device'.revision
           \/ ~device'.renderer /\ cache.revision <= device'.revision
    <3>1. CASE device.revision < MaxRevisions /\ device' = [device EXCEPT !.revision = @ + 1]
      BY <1>0, <3>1 DEF RadarInv
    <3>2. CASE device' = [device EXCEPT !.renderer = FALSE]
      BY <3>2 DEF RadarInv
    <3> QED
      BY <1>6, <3>1, <3>2 DEF RecoverRenderer
  <2> QED
    BY <1>0, <2>1, <2>2 DEF RadarInv, CacheOK
<1>7. CASE UNCHANGED radarVars
  BY <1>7 DEF radarVars, RadarInv, CacheOK
<1> QED
  BY <1>1, <1>3, <1>4, <1>5, <1>6, <1>7 DEF RadarNext

(* A radar that was not used yet owns nothing. *)
LEMMA RadarStarts ==
  ASSUME RadarInit
  PROVE  RadarInv /\ FloorOK(floor)
<1>1. FloorOK(floor)
  BY DEF RadarInit, NoFloor, FloorOK
<1>2. device = [renderer |-> FALSE, revision |-> 0] /\ textures = {} /\ cache = EmptyCache(0)
  BY DEF RadarInit
<1>3. 0 \in 0..MaxRevisions
  BY RadarAssumption
<1> QED
  BY <1>1, <1>2, <1>3, EmptyOK DEF RadarInv

(* Every step keeps the radar's invariant. *)
LEMMA RadarStep ==
  ASSUME RadarInv, FloorOK(floor), [RadarNext]_radarVars
  PROVE  RadarInv' /\ FloorOK(floor)'
BY TextureStep, FloorStep DEF FloorOK

(* Every live texture is the texture of one cache entry, and none outlives *)
(* its renderer, for every limit and catalog (local_fixed_radar.cpp:288-   *)
(* 358, 971-985).                                                          *)
THEOREM TexturesAreOwned == RadarSpec => []TexturesOwned
<1>1. RadarInv => TexturesOwned
  BY DEF RadarInv, CacheOK, Apart, TexturesOwned
<1> QED
  BY <1>1, RadarStarts, RadarStep, PTL DEF RadarSpec

-----------------------------------------------------------------------------
(* The island tool's scanner. *)

(* Sets in order. *)

(* A list of the elements of a set from the least on. *)
Enumerates(s, S) ==
  /\ s \in [1..Cardinality(S) -> S]
  /\ \A m, n \in DOMAIN s : m < n => s[m] < s[n]

(* The element m below those of the set that t lists, before t. *)
LEMMA EnumeratesBefore ==
  ASSUME NEW S \in SUBSET Nat, IsFiniteSet(S), NEW m \in S, \A x \in S : m <= x,
         NEW t, Enumerates(t, S \ {m})
  PROVE  \E s : Enumerates(s, S)
<1> DEFINE k == Cardinality(S)
           s == [i \in 1..k |-> IF i = 1 THEN m ELSE t[i - 1]]
<1>1. k \in Nat /\ k > 0 /\ Cardinality(S \ {m}) = k - 1
  <2>1. k \in Nat
    BY FS_CardinalityType
  <2>2. k # 0
    BY FS_EmptySet
  <2>3. Cardinality(S \ {m}) = k - 1
    BY FS_RemoveElement
  <2> HIDE DEF k
  <2> QED
    BY <2>1, <2>2, <2>3
<1>2. /\ t \in [1..(k - 1) -> S \ {m}]
      /\ \A i, j \in 1..(k - 1) : i < j => t[i] < t[j]
  BY <1>1 DEF Enumerates
<1> HIDE DEF k
<1>3. \A i \in 1..k : i # 1 => i - 1 \in 1..(k - 1)
  BY <1>1
<1>4. s \in [1..k -> S]
  BY <1>2, <1>3
<1>5. ASSUME NEW i \in 1..k, NEW j \in 1..k, i < j PROVE s[i] < s[j]
  <2>1. j # 1 /\ j - 1 \in 1..(k - 1)
    BY <1>1, <1>3, <1>5
  <2>0. t[j - 1] \in S \ {m} /\ t[j - 1] \in Nat /\ m \in Nat
    BY <1>2, <2>1
  <2>2. CASE i = 1
    <3>1. m < t[j - 1]
      BY <2>0
    <3> QED
      BY <2>1, <2>2, <3>1
  <2>3. CASE i # 1
    <3>1. i - 1 \in 1..(k - 1) /\ i - 1 < j - 1
      BY <1>1, <1>5, <2>3
    <3> QED
      BY <1>2, <2>1, <2>3, <3>1
  <2> QED
    BY <2>2, <2>3
<1>6. Enumerates(s, S)
  BY <1>4, <1>5 DEF Enumerates, k
<1> QED
  BY <1>6

(* Every finite set of numbers can be listed. *)
LEMMA Enumerable ==
  ASSUME NEW S \in SUBSET Nat, IsFiniteSet(S)
  PROVE  \E s : Enumerates(s, S)
<1> DEFINE Bad == { k \in Nat : \E T \in SUBSET S : /\ IsFiniteSet(T) /\ Cardinality(T) = k
                                                    /\ ~\E s : Enumerates(s, T) }
<1>1. SUFFICES ASSUME Bad # {} PROVE FALSE
  BY FS_CardinalityType
<1>2. Min(Bad) \in Bad /\ \A k \in Bad : Min(Bad) <= k
  <2>1. Bad \in SUBSET Nat
    OBVIOUS
  <2> HIDE DEF Bad
  <2> QED
    BY <1>1, <2>1, NatMin
<1>3. PICK T \in SUBSET S : /\ IsFiniteSet(T) /\ Cardinality(T) = Min(Bad)
                            /\ ~\E s : Enumerates(s, T)
  BY <1>2
<1>4. T # {}
  <2>1. SUFFICES ASSUME T = {} PROVE Enumerates(<<>>, T)
    BY <1>3
  <2> QED
    BY <2>1, FS_EmptySet DEF Enumerates
<1>5. Min(T) \in T /\ \A x \in T : Min(T) <= x
  BY <1>4, NatMin
<1> DEFINE U == T \ {Min(T)}
<1>6. IsFiniteSet(U) /\ Cardinality(U) = Cardinality(T) - 1 /\ Cardinality(U) \in Nat
  BY <1>3, <1>5, FS_RemoveElement, FS_CardinalityType
<1>7. \E s : Enumerates(s, U)
  <2>1. Cardinality(U) \notin Bad
    <3>1. Min(Bad) \in Nat
      BY <1>2
    <3> HIDE DEF Bad, U
    <3> QED
      BY <1>2, <1>3, <1>6, <3>1
  <2>2. U \in SUBSET S
    OBVIOUS
  <2> QED
    BY <1>6, <2>1, <2>2
<1>8. T \in SUBSET Nat
  OBVIOUS
<1> QED
  BY <1>3, <1>5, <1>7, <1>8, EnumeratesBefore

(* InOrder lists a finite set of numbers: all of it, from the least on. *)
LEMMA InOrderLists ==
  ASSUME NEW S \in SUBSET Nat, IsFiniteSet(S)
  PROVE  /\ Cardinality(S) \in Nat
         /\ InOrder(S) \in [1..Cardinality(S) -> S] /\ Len(InOrder(S)) = Cardinality(S)
         /\ \A m, n \in 1..Cardinality(S) : m < n => InOrder(S)[m] < InOrder(S)[n]
         /\ \A x \in S : \E n \in 1..Cardinality(S) : InOrder(S)[n] = x
<1> DEFINE s == InOrder(S)
           k == Cardinality(S)
<1>1. k \in Nat
  BY FS_CardinalityType
<1>2. Enumerates(s, S)
  BY Enumerable DEF Enumerates, InOrder
<1>3. /\ s \in [1..k -> S]
      /\ \A m, n \in 1..k : m < n => s[m] < s[n]
  BY <1>2 DEF Enumerates
<1>4. Len(s) = k
  <2>1. s \in Seq(S)
    BY <1>1, <1>3, SeqDef
  <2> HIDE DEF s, k
  <2> QED
    BY <1>1, <1>3, <2>1, LenProperties
<1>5. ASSUME NEW x \in S PROVE \E n \in 1..k : s[n] = x
  <2>1. SUFFICES ASSUME \A n \in 1..k : s[n] # x PROVE FALSE
    OBVIOUS
  <2> HIDE DEF s
  <2>2. s \in [1..k -> S \ {x}]
    BY <1>3, <2>1
  <2>3. IsFiniteSet(S \ {x}) /\ Cardinality(S \ {x}) = k - 1
    BY FS_RemoveElement
  <2>4. IsFiniteSet(1..k) /\ Cardinality(1..k) = k
    BY <1>1, FS_Interval
  <2> HIDE DEF k
  <2>5. Cardinality(S \ {x}) < Cardinality(1..k)
    BY <1>1, <2>3, <2>4
  <2>6. PICK m \in 1..k, n \in 1..k : m # n /\ s[m] = s[n]
    <3>1. \E m, n \in 1..k : m # n /\ s[m] = s[n]
      <4> DEFINE A == 1..k
                 B == S \ {x}
      <4>1. /\ IsFiniteSet(A) /\ IsFiniteSet(B) /\ Cardinality(B) < Cardinality(A)
            /\ s \in [A -> B]
        BY <2>2, <2>3, <2>4, <2>5
      <4> SUFFICES \E m, n \in A : m # n /\ s[m] = s[n]
        OBVIOUS
      <4> HIDE DEF A, B
      <4> QED
        BY <4>1, FS_PigeonHole
    <3> QED
      BY <3>1
  <2>7. m < n \/ n < m
    BY <1>1, <2>6
  <2>8. s[m] \in Nat /\ s[n] \in Nat
    BY <2>2
  <2> QED
    BY <1>3, <2>6, <2>7, <2>8
<1> QED
  BY <1>1, <1>3, <1>4, <1>5

-----------------------------------------------------------------------------
(* The game's memory. *)
LEMMA RegionsAre ==
  /\ DOMAIN Regions = 1..Len(Regions) /\ Len(Regions) \in Nat /\ Len(Regions) \in DOMAIN Regions
  /\ \A i \in DOMAIN Regions :
       /\ Regions[i].base \in Nat /\ Regions[i].end \in Nat /\ Regions[i].base < Regions[i].end
       /\ Regions[i].base % Word = 0 /\ Regions[i].end % Word = 0
       /\ Regions[i].end <= Regions[Len(Regions)].end
  /\ \A i, j \in DOMAIN Regions : i < j => Regions[i].end <= Regions[j].base
<1>1. /\ DOMAIN Regions = 1..Len(Regions) /\ Len(Regions) \in Nat /\ Regions # <<>>
      /\ \A i \in DOMAIN Regions : Regions[i] \in [base : Nat, end : Nat, private : BOOLEAN]
  <2> DEFINE R == [base : Nat, end : Nat, private : BOOLEAN]
  <2>1. Regions \in Seq(R) /\ Regions # <<>>
    BY ScannerAssumption
  <2> SUFFICES /\ DOMAIN Regions = 1..Len(Regions) /\ Len(Regions) \in Nat
               /\ \A i \in DOMAIN Regions : Regions[i] \in R
    BY <2>1
  <2> HIDE DEF R
  <2> QED
    BY <2>1, LenProperties, ElementOfSeq
<1>2. Len(Regions) # 0
  BY <1>1, ScannerAssumption, EmptySeq
<1>3. Len(Regions) \in DOMAIN Regions
  BY <1>1, <1>2
<1>4. \A i \in DOMAIN Regions :
        /\ Regions[i].base \in Nat /\ Regions[i].end \in Nat /\ Regions[i].base < Regions[i].end
        /\ Regions[i].base % Word = 0 /\ Regions[i].end % Word = 0
  BY <1>1, ScannerAssumption
<1>5. \A i, j \in DOMAIN Regions : i < j => Regions[i].end <= Regions[j].base
  BY ScannerAssumption
<1>6. ASSUME NEW i \in DOMAIN Regions PROVE Regions[i].end <= Regions[Len(Regions)].end
  <2>1. i = Len(Regions) \/ i < Len(Regions)
    BY <1>1
  <2>2. CASE i < Len(Regions)
    <3>1. Regions[i].end <= Regions[Len(Regions)].base
      BY <1>3, <1>5, <2>2
    <3> QED
      BY <1>3, <1>4, <3>1
  <2> QED
    BY <1>4, <2>1, <2>2
<1> QED
  BY <1>1, <1>3, <1>4, <1>5, <1>6

(* Arithmetic of words. *)
LEMMA WordNumbers ==
  /\ Word \in Nat \ {0} /\ Chunk \in Nat \ {0} /\ CandidateLimit \in Nat \ {0}
  /\ DefaultLowest \in Nat /\ DefaultHighest \in Nat
BY ScannerAssumption

(* A number that begins a word, as so many words. *)
LEMMA Multiple ==
  ASSUME NEW a \in Nat, a % Word = 0
  PROVE  \E k \in Nat : a = Word * k
<1>1. a = Word * (a \div Word) /\ a \div Word \in Nat
  BY WordNumbers
<1> QED
  BY <1>1

(* From one beginning of a word to another is a word at least. *)
LEMMA NextWord ==
  ASSUME NEW a \in Nat, NEW b \in Nat, a % Word = 0, b % Word = 0, a < b
  PROVE  a + Word <= b
<1>1. PICK k \in Nat, m \in Nat : a = Word * k /\ b = Word * m
  BY Multiple
<1>2. Word * k + Word <= Word * m
  BY <1>1, WordNumbers
<1> QED
  BY <1>1, <1>2

(* An address lies less than a chunk behind the beginning of one. *)
LEMMA InChunk ==
  ASSUME NEW a \in Nat
  PROVE  a % Chunk \in Nat /\ a % Chunk < Chunk /\ a % Chunk <= a
<1>1. Chunk \in Nat /\ Chunk > 0
  BY WordNumbers
<1>2. a % Chunk \in 0..(Chunk - 1)
  BY <1>1
<1>3. a = (Chunk * (a \div Chunk)) + (a % Chunk) /\ a \div Chunk \in Nat
  BY <1>1
<1>4. Chunk * (a \div Chunk) \in Nat
  BY <1>1, <1>3
<1> QED
  BY <1>1, <1>2, <1>3, <1>4

(* A chunk after the beginning of a word is the beginning of a word. *)
LEMMA NextChunk ==
  ASSUME NEW a \in Nat, a % Word = 0
  PROVE  (a + Chunk) % Word = 0
<1>1. Chunk \in Nat /\ Chunk % Word = 0
  BY ScannerAssumption
<1>2. PICK k \in Nat, m \in Nat : a = Word * k /\ Chunk = Word * m
  BY <1>1, Multiple
<1>3. Word * k + Word * m = Word * (k + m) /\ k + m \in Nat
  BY WordNumbers
<1>4. (Word * (k + m)) % Word = 0
  BY <1>3, WordNumbers
<1> QED
  BY <1>2, <1>3, <1>4

(* An address lies in one region at most, a word of a region wholly so.    *)
LEMMA OneRegion ==
  ASSUME NEW a \in Nat, NEW i \in RegionsOf(a)
  PROVE  /\ i \in DOMAIN Regions /\ Regions[i].base <= a /\ a < Regions[i].end
         /\ \A j \in RegionsOf(a) : i = j
         /\ a % Word = 0 => a \in InRegions /\ a + Word <= Regions[i].end
<1>1. i \in DOMAIN Regions /\ Regions[i].base <= a /\ a < Regions[i].end
  BY RegionsAre DEF RegionsOf, Within
<1>2. ASSUME NEW j \in RegionsOf(a) PROVE i = j
  <2>1. j \in DOMAIN Regions /\ Regions[j].base <= a /\ a < Regions[j].end
    BY RegionsAre DEF RegionsOf, Within
  <2>2. i \in Nat /\ j \in Nat
    BY <1>1, <2>1, RegionsAre
  <2>3. ~(i < j)
    <3>1. i < j => Regions[i].end <= Regions[j].base
      BY <1>1, <2>1, RegionsAre
    <3> QED
      BY <1>1, <2>1, <3>1, RegionsAre
  <2>4. ~(j < i)
    <3>1. j < i => Regions[j].end <= Regions[i].base
      BY <1>1, <2>1, RegionsAre
    <3> QED
      BY <1>1, <2>1, <3>1, RegionsAre
  <2> QED
    BY <2>2, <2>3, <2>4
<1>3. ASSUME a % Word = 0 PROVE a \in InRegions /\ a + Word <= Regions[i].end
  <2>1. a + Word <= Regions[i].end
    BY <1>1, <1>3, NextWord, RegionsAre
  <2>2. a \in 0..Regions[Len(Regions)].end
    BY <1>1, RegionsAre
  <2> QED
    BY <1>3, <2>1, <2>2 DEF InRegions, Words
<1> QED
  BY <1>1, <1>2, <1>3

(* The words of the memory, finitely many. *)
LEMMA WordsInRegions ==
  /\ InRegions \subseteq Words
  /\ \A w \in Words : w \in Nat /\ w % Word = 0
  /\ Words \in SUBSET Nat /\ IsFiniteSet(Words)
<1>1. InRegions \subseteq Words
  BY DEF InRegions
<1>2. \A w \in Words : w \in Nat /\ w % Word = 0 /\ w \in 0..Regions[Len(Regions)].end
  BY RegionsAre DEF Words
<1>3. Words \in SUBSET (0..Regions[Len(Regions)].end)
  BY <1>2
<1>4. IsFiniteSet(0..Regions[Len(Regions)].end)
  <2> DEFINE e == Regions[Len(Regions)].end
  <2>1. e \in Int /\ 0 \in Int
    BY RegionsAre
  <2> SUFFICES IsFiniteSet(0..e)
    OBVIOUS
  <2> HIDE DEF e
  <2> QED
    BY <2>1, FS_Interval
<1>5. IsFiniteSet(Words)
  BY <1>3, <1>4, FS_Subset
<1> QED
  BY <1>1, <1>2, <1>5

-----------------------------------------------------------------------------
(* The invariant. *)
Cand == [address : InRegions, previous : Values]

(* A list in the order of its addresses; within the range; with the value  *)
(* the game has of every word that is untouched; with the word w.          *)
Sorted(s) == \A m, n \in DOMAIN s : m < n => s[m].address < s[n].address
InRange(s) == \A n \in DOMAIN s : /\ scan.range.low <= s[n].address
                                  /\ s[n].address + Word <= scan.range.high
UpToDate(s) == \A n \in DOMAIN s : s[n].address \in past.untouched => s[n] = Capture(s[n].address)
Has(s, w) == \E n \in DOMAIN s : s[n] = Capture(w)
NoneOf(s) == \A n \in DOMAIN s : s[n].address \notin past.untouched

ScanShape ==
  /\ game = [value |-> game.value, access |-> game.access, events |-> game.events]
  /\ game.value \in [InRegions -> Values] /\ game.access = [i \in DOMAIN Regions |-> game.access[i]]
  /\ scan = [ pc |-> scan.pc, kind |-> scan.kind, filter |-> scan.filter, at |-> scan.at,
              region |-> scan.region, range |-> scan.range, candidates |-> scan.candidates,
              filtered |-> scan.filtered, truncated |-> scan.truncated ]
  /\ past = [ untouched |-> past.untouched, onlyUnchanged |-> past.onlyUnchanged,
              valid |-> past.valid ]
  /\ scan.pc \in {"idle", "start", "chunk", "filter", "read"}
  /\ scan.range.low \in Nat /\ scan.range.high \in Nat
  /\ scan.candidates \in Seq(Cand) /\ scan.filtered \in Seq(Cand)
  /\ past.untouched \subseteq InRegions
  /\ past.onlyUnchanged \in BOOLEAN /\ past.valid \in BOOLEAN /\ scan.truncated \in BOOLEAN

(* At any time, the candidates of a range that was valid.                  *)
Ordered ==
  /\ Len(scan.candidates) <= CandidateLimit
  /\ UpToDate(scan.candidates)
  /\ past.valid => Sorted(scan.candidates) /\ InRange(scan.candidates)
  /\ ~past.valid => scan.candidates = <<>> /\ scan.pc = "idle"

(* Every word before a, or from a on, that can be scanned is a candidate.  *)
Claimed == past.onlyUnchanged /\ ~scan.truncated /\ scan.range.low % Word = 0
Resting ==
  past.valid =>
    /\ Claimed => \A w \in past.untouched : Scannable(w) => Has(scan.candidates, w)
    /\ ~past.onlyUnchanged => NoneOf(scan.candidates)
Passing ==
  /\ past.onlyUnchanged /\ ~scan.truncated /\ Len(scan.candidates) < CandidateLimit
  /\ scan.at \in Nat /\ scan.range.low <= scan.at
  /\ \A n \in DOMAIN scan.candidates : scan.candidates[n].address + Word <= scan.at
  /\ scan.range.low % Word = 0 =>
       /\ scan.at % Word = 0 \/ RegionsOf(scan.at) = {} \/ scan.at >= scan.range.high
       /\ \A w \in past.untouched :
            w + Word <= scan.at /\ Scannable(w) => Has(scan.candidates, w)
  /\ scan.pc = "chunk" => /\ scan.region \in RegionsOf(scan.at) /\ scan.at < scan.range.high
                          /\ Regions[scan.region].private
Filtering ==
  /\ scan.at \in Nat \ {0} /\ scan.at <= Len(scan.candidates) + 1
  /\ Len(scan.filtered) < scan.at /\ scan.filter \in Filters
  /\ Sorted(scan.filtered) /\ UpToDate(scan.filtered)
  /\ \A n \in DOMAIN scan.filtered : \E m \in 1..(scan.at - 1) :
       scan.filtered[n].address = scan.candidates[m].address
  /\ past.onlyUnchanged => scan.filter = "unchanged"
  /\ Claimed => \A w \in past.untouched :
       Scannable(w) => \/ Has(scan.filtered, w)
                       \/ \E n \in scan.at..Len(scan.candidates) : scan.candidates[n] = Capture(w)
  /\ ~past.onlyUnchanged => /\ NoneOf(scan.filtered)
                            /\ scan.filter = "unchanged" => NoneOf(scan.candidates)
  /\ scan.pc = "read" => /\ scan.at <= Len(scan.candidates)
                         /\ scan.region \in RegionsOf(scan.candidates[scan.at].address)
ScanInv ==
  /\ ScanShape /\ Ordered
  /\ scan.pc = "idle" => Resting
  /\ scan.pc \in {"start", "chunk"} => Passing
  /\ scan.pc \in {"filter", "read"} => Filtering

(* What a list of candidates is. *)
LEMMA CandList ==
  ASSUME NEW s \in Seq(Cand)
  PROVE  /\ DOMAIN s = 1..Len(s) /\ Len(s) \in Nat
         /\ \A n \in 1..Len(s) : /\ s[n] \in Cand /\ s[n].address \in InRegions
                                 /\ s[n].address \in Nat /\ s[n].address % Word = 0
<1>1. DOMAIN s = 1..Len(s) /\ Len(s) \in Nat /\ \A n \in 1..Len(s) : s[n] \in Cand
  BY LenProperties, ElementOfSeq
<1>2. \A c \in Cand : c.address \in InRegions /\ c.address \in Nat /\ c.address % Word = 0
  BY WordsInRegions DEF Cand
<1> QED
  BY <1>1, <1>2

(* The game. *)
Runs ==
  /\ UNCHANGED scan /\ past.valid' = past.valid /\ past.onlyUnchanged' = past.onlyUnchanged
  /\ past.untouched' \subseteq past.untouched
  /\ \A w \in past.untouched' : /\ game.value'[w] = game.value[w]
                                /\ \A i \in RegionsOf(w) : game.access'[i] = game.access[i]

(* What the game does to words and regions leaves the untouched ones.      *)
LEMMA RunsKeeps ==
  ASSUME ScanInv, Runs, ScanShape'
  PROVE  ScanInv'
<1>1. \A w \in past.untouched' : w \in past.untouched /\ Capture(w)' = Capture(w)
  BY DEF Runs, Capture
<1>2. ASSUME NEW w \in past.untouched', Scannable(w)' PROVE Scannable(w)
  BY <1>2 DEF Runs, Scannable, Writable, Finite
<1>3. \A s : /\ UpToDate(s) => UpToDate(s)'
             /\ NoneOf(s) => NoneOf(s)'
             /\ Sorted(s) => Sorted(s)'
             /\ InRange(s) => InRange(s)'
             /\ \A w \in past.untouched' : Has(s, w)' = Has(s, w)
  BY <1>1 DEF UpToDate, NoneOf, Sorted, InRange, Has, Runs
<1>4. scan' = scan /\ past.valid' = past.valid /\ past.onlyUnchanged' = past.onlyUnchanged
  BY DEF Runs
<1>5. Ordered'
  BY <1>3, <1>4 DEF ScanInv, Ordered
<1>6. Resting => Resting'
  BY <1>1, <1>2, <1>3, <1>4 DEF Resting, Claimed
<1>7. Passing => Passing'
  BY <1>1, <1>2, <1>3, <1>4 DEF Passing
<1>8. Filtering => Filtering'
  BY <1>1, <1>2, <1>3, <1>4 DEF Filtering, Claimed
<1> QED
  BY <1>4, <1>5, <1>6, <1>7, <1>8 DEF ScanInv

(* The game writes a word, or protects a region. *)
LEMMA GameStep ==
  ASSUME ScanInv, GameWrites \/ GameProtects
  PROVE  ScanInv'
<1>1. CASE GameWrites
  <2>1. PICK w \in InRegions, v \in Values :
          /\ game' = [game EXCEPT !.value[w] = v, !.events = @ + 1]
          /\ past' = [past EXCEPT !.untouched = @ \ {w}]
    BY <1>1 DEF GameWrites
  <2>2. ScanShape' /\ Runs
    BY <1>1, <2>1 DEF GameWrites, ScanInv, ScanShape, Runs
  <2> QED
    BY <2>2, RunsKeeps
<1>2. CASE GameProtects
  <2>1. PICK i \in DOMAIN Regions, a \in Accesses :
          /\ game' = [game EXCEPT !.access[i] = a, !.events = @ + 1]
          /\ past' = [past EXCEPT !.untouched = { w \in @ : ~Within(w, Regions[i]) }]
    BY <1>2 DEF GameProtects
  <2>2. ScanShape' /\ UNCHANGED scan
    BY <1>2, <2>1 DEF GameProtects, ScanInv, ScanShape
  <2>3. Runs
    <3>1. /\ past.valid' = past.valid /\ past.onlyUnchanged' = past.onlyUnchanged
          /\ past.untouched' = { w \in past.untouched : ~Within(w, Regions[i]) }
          /\ game'.value = game.value
          /\ \A j \in DOMAIN Regions : j # i => game'.access[j] = game.access[j]
      BY <2>1 DEF ScanInv, ScanShape
    <3>2. ASSUME NEW w \in past.untouched', NEW j \in RegionsOf(w)
          PROVE  j \in DOMAIN Regions /\ j # i
      BY <3>1 DEF RegionsOf
    <3> QED
      BY <2>2, <3>1, <3>2 DEF Runs
  <2> QED
    BY <2>2, <2>3, RunsKeeps
<1> QED
  BY <1>1, <1>2

(* A range that is valid is scanned from its first address on. *)
LEMMA StartScanStep ==
  ASSUME ScanInv, StartScan
  PROVE  ScanInv'
<1>1. PICK kind \in Kinds, range \in Ranges :
        LET c == Clamped(range)
            cleared == [scan EXCEPT !.candidates = <<>>, !.kind = kind, !.truncated = FALSE]
        IN \/ c.low >= c.high /\ scan' = cleared /\ past' = NewPast(FALSE)
           \/ /\ c.low < c.high
              /\ scan' = [cleared EXCEPT !.pc = "start", !.range = c, !.at = c.low]
              /\ past' = NewPast(TRUE)
  BY DEF StartScan
<1> DEFINE c == Clamped(range)
<1>2. c.low \in Nat /\ c.high \in Nat
  <2>1. range.low \in Nat /\ range.high \in Nat
    BY ScannerAssumption
  <2> QED
    BY <2>1, WordNumbers DEF Clamped
<1>3. /\ UNCHANGED game /\ scan.pc = "idle"
      /\ \/ /\ c.low >= c.high /\ past' = NewPast(FALSE)
            /\ scan' = [scan EXCEPT !.candidates = <<>>, !.kind = kind, !.truncated = FALSE]
         \/ /\ c.low < c.high /\ past' = NewPast(TRUE)
            /\ scan' = [scan EXCEPT !.candidates = <<>>, !.kind = kind, !.truncated = FALSE,
                                    !.pc = "start", !.range = c, !.at = c.low]
  BY <1>1 DEF StartScan
<1> HIDE DEF c
<1>4. <<>> \in Seq(Cand) /\ Len(<<>>) = 0 /\ DOMAIN <<>> = {}
  BY EmptySeq
<1>5. scan' = [ pc |-> scan.pc', kind |-> scan.kind', filter |-> scan.filter', at |-> scan.at',
              region |-> scan.region', range |-> scan.range', candidates |-> scan.candidates',
              filtered |-> scan.filtered', truncated |-> scan.truncated' ]
  BY <1>3 DEF ScanInv, ScanShape
<1>6. /\ past' = [ untouched |-> past.untouched', onlyUnchanged |-> past.onlyUnchanged',
                   valid |-> past.valid' ]
      /\ scan.candidates' = <<>> /\ scan.filtered' = scan.filtered /\ scan.truncated' = FALSE
      /\ past.untouched' = InRegions /\ past.onlyUnchanged' = TRUE
      /\ \/ c.low >= c.high /\ scan.pc' = "idle" /\ scan.range' = scan.range /\ past.valid' = FALSE
         \/ /\ c.low < c.high /\ scan.pc' = "start" /\ scan.range' = c /\ scan.at' = c.low
            /\ past.valid' = TRUE
  <2>1. CASE /\ c.low >= c.high /\ past' = NewPast(FALSE)
             /\ scan' = [scan EXCEPT !.candidates = <<>>, !.kind = kind, !.truncated = FALSE]
    BY <1>3, <2>1 DEF ScanInv, ScanShape, NewPast
  <2>2. CASE /\ c.low < c.high /\ past' = NewPast(TRUE)
             /\ scan' = [scan EXCEPT !.candidates = <<>>, !.kind = kind, !.truncated = FALSE,
                                     !.pc = "start", !.range = c, !.at = c.low]
    BY <2>2 DEF ScanInv, ScanShape, NewPast
  <2> QED
    BY <1>3, <2>1, <2>2
<1>7. ScanShape'
  BY <1>2, <1>3, <1>4, <1>5, <1>6 DEF ScanInv, ScanShape
<1>8. Ordered'
  BY <1>4, <1>6, WordNumbers DEF Ordered, UpToDate, Sorted, InRange
<1>9. ASSUME scan.pc' = "start" PROVE Passing'
  <2>0. c.low < c.high /\ scan.range' = c /\ scan.at' = c.low
    BY <1>6, <1>9
  <2>1. ASSUME c.low % Word = 0, NEW w \in InRegions, w + Word <= c.low, Scannable(w)'
        PROVE  FALSE
    <3>1. w >= c.low /\ w \in Nat
      BY <2>0, <2>1, WordsInRegions DEF Scannable
    <3> QED
      BY <1>2, <2>1, <3>1, WordNumbers
  <2>2. Len(scan.candidates') < CandidateLimit
    BY <1>4, <1>6, WordNumbers
  <2>3. c.low % Word = 0 =>
          \A w \in InRegions : w + Word <= c.low /\ Scannable(w)' => Has(scan.candidates, w)'
    BY <2>1
  <2> QED
    BY <1>2, <1>4, <1>6, <1>9, <2>0, <2>2, <2>3 DEF Passing
<1>10. ASSUME scan.pc' = "idle" PROVE Resting'
  BY <1>6, <1>10 DEF Resting
<1> QED
  BY <1>6, <1>7, <1>8, <1>9, <1>10 DEF ScanInv

(* A step of the scanner alone, in the same range; one that keeps the      *)
(* candidates as well.                                                     *)
Scans == /\ UNCHANGED <<game, past>>
         /\ scan.range' = scan.range /\ scan.kind' = scan.kind
Keeps == Scans /\ scan.candidates' = scan.candidates /\ scan.truncated' = scan.truncated

(* What such a step leaves as it was. *)
LEMMA ScansSame ==
  ASSUME Scans
  PROVE  /\ \A s : /\ UpToDate(s)' = UpToDate(s) /\ NoneOf(s)' = NoneOf(s)
                   /\ Sorted(s)' = Sorted(s) /\ InRange(s)' = InRange(s)
                   /\ \A w : Has(s, w)' = Has(s, w)
         /\ \A w : Scannable(w)' = Scannable(w) /\ Capture(w)' = Capture(w)
<1>1. \A w : Capture(w)' = Capture(w)
  BY DEF Scans, Capture
<1>2. \A w : Scannable(w)' = Scannable(w)
  BY DEF Scans, Scannable, Writable, Finite
<1>3. \A s : /\ UpToDate(s)' = UpToDate(s) /\ NoneOf(s)' = NoneOf(s)
             /\ Sorted(s)' = Sorted(s) /\ InRange(s)' = InRange(s)
             /\ \A w : Has(s, w)' = Has(s, w)
  BY <1>1 DEF Scans, UpToDate, NoneOf, Sorted, InRange, Has
<1> QED
  BY <1>1, <1>2, <1>3

(* And what one that keeps the candidates does. *)
LEMMA KeepsSame ==
  ASSUME Keeps
  PROVE  /\ \A s : /\ UpToDate(s)' = UpToDate(s) /\ NoneOf(s)' = NoneOf(s)
                   /\ Sorted(s)' = Sorted(s) /\ InRange(s)' = InRange(s)
                   /\ \A w : Has(s, w)' = Has(s, w)
         /\ \A w : Scannable(w)' = Scannable(w) /\ Capture(w)' = Capture(w)
         /\ Claimed' = Claimed
<1>1. Scans /\ Claimed' = Claimed
  BY DEF Keeps, Scans, Claimed
<1> QED
  BY <1>1, ScansSame

(* The pass goes over regions that cannot be scanned and over gaps without *)
(* missing a word, and ends where every word of the range is behind it.    *)
LEMMA StartRegionStep ==
  ASSUME ScanInv, StartRegion
  PROVE  ScanInv'
<1>1. scan.pc = "start" /\ ScanShape /\ Ordered /\ Passing /\ past.valid /\ UNCHANGED <<game, past>>
  BY DEF ScanInv, Ordered, StartRegion
<1>2. /\ scan.range.low \in Nat /\ scan.range.high \in Nat /\ scan.at \in Nat
      /\ past.untouched \subseteq InRegions
      /\ \A w \in past.untouched : w \in Nat /\ w % Word = 0
      /\ Word \in Nat /\ Word > 0
  BY <1>1, WordsInRegions, WordNumbers DEF ScanShape, Passing
<1>3. \/ scan.at >= scan.range.high /\ scan' = [scan EXCEPT !.pc = "idle"]
      \/ /\ scan.at < scan.range.high /\ RegionsOf(scan.at) = {}
         /\ scan' = [scan EXCEPT !.at = @ + 1]
      \/ /\ scan.at < scan.range.high
         /\ \E i \in RegionsOf(scan.at) : /\ Writable(i) /\ Regions[i].private
                                          /\ scan' = [scan EXCEPT !.pc = "chunk", !.region = i]
      \/ /\ scan.at < scan.range.high
         /\ \E i \in RegionsOf(scan.at) : /\ ~(Writable(i) /\ Regions[i].private)
                                          /\ scan' = [scan EXCEPT !.at = NextAddress(i, @)]
  <2>1. CASE scan.at >= scan.range.high
    BY <2>1 DEF StartRegion
  <2>2. CASE scan.at < scan.range.high /\ RegionsOf(scan.at) = {}
    <3>1. ~(scan.at >= scan.range.high)
      BY <1>2, <2>2
    <3> QED
      BY <2>2, <3>1 DEF StartRegion
  <2>3. CASE scan.at < scan.range.high /\ RegionsOf(scan.at) # {}
    <3>1. ~(scan.at >= scan.range.high)
      BY <1>2, <2>3
    <3>2. PICK i \in RegionsOf(scan.at) :
            scan' = IF Writable(i) /\ Regions[i].private
                    THEN [scan EXCEPT !.pc = "chunk", !.region = i]
                    ELSE [scan EXCEPT !.at = NextAddress(i, @)]
      BY <2>3, <3>1 DEF StartRegion
    <3>3. CASE Writable(i) /\ Regions[i].private
      BY <2>3, <3>2, <3>3
    <3>4. CASE ~(Writable(i) /\ Regions[i].private)
      BY <2>3, <3>2, <3>4
    <3> QED
      BY <3>3, <3>4
  <2>4. scan.at >= scan.range.high \/ scan.at < scan.range.high
    BY <1>2
  <2> QED
    BY <2>1, <2>2, <2>3, <2>4
<1>4. /\ Keeps /\ scan.filtered' = scan.filtered /\ scan.pc' \in {"idle", "start", "chunk"}
      /\ scan' = [ pc |-> scan.pc', kind |-> scan.kind', filter |-> scan.filter', at |-> scan.at',
              region |-> scan.region', range |-> scan.range', candidates |-> scan.candidates',
              filtered |-> scan.filtered', truncated |-> scan.truncated' ]
  <2>1. \/ scan' = [scan EXCEPT !.pc = "idle"]
        \/ \E a : scan' = [scan EXCEPT !.at = a]
        \/ \E i : scan' = [scan EXCEPT !.pc = "chunk", !.region = i]
    BY <1>3
  <2>2. CASE scan' = [scan EXCEPT !.pc = "idle"]
    BY <1>1, <2>2 DEF ScanShape, Keeps, Scans
  <2>3. CASE \E a : scan' = [scan EXCEPT !.at = a]
    BY <1>1, <2>3 DEF ScanShape, Keeps, Scans
  <2>4. CASE \E i : scan' = [scan EXCEPT !.pc = "chunk", !.region = i]
    BY <1>1, <2>4 DEF ScanShape, Keeps, Scans
  <2> QED
    BY <2>1, <2>2, <2>3, <2>4
<1>5. ScanShape' /\ Ordered'
  <2>1. ScanShape'
    BY <1>1, <1>4 DEF ScanShape, Keeps, Scans
  <2> QED
    BY <1>1, <1>4, <2>1, KeepsSame DEF Ordered, Keeps, Scans
<1>6. CASE scan.at >= scan.range.high /\ scan' = [scan EXCEPT !.pc = "idle"]
  <2>1. scan.pc' = "idle"
    BY <1>1, <1>6 DEF ScanShape
  <2>2. ASSUME Claimed, NEW w \in past.untouched, Scannable(w) PROVE Has(scan.candidates, w)
    <3>1. w + Word <= scan.range.high
      BY <2>2 DEF Scannable
    <3>2. w + Word <= scan.at
      BY <1>2, <1>6, <3>1
    <3> QED
      BY <1>1, <2>2, <3>2 DEF Claimed, Passing
  <2>3. Resting
    BY <1>1, <2>2 DEF Resting, Passing
  <2>4. Resting'
    BY <1>4, <2>3, KeepsSame DEF Resting, Keeps, Scans
  <2> QED
    BY <1>5, <2>1, <2>4 DEF ScanInv
<1>7. CASE /\ scan.at < scan.range.high /\ RegionsOf(scan.at) = {}
           /\ scan' = [scan EXCEPT !.at = @ + 1]
  <2>1. scan.pc' = "start" /\ scan.at' = scan.at + 1
    BY <1>1, <1>7 DEF ScanShape
  <2>2. (scan.at + 1) % Word = 0 \/ RegionsOf(scan.at + 1) = {}
    <3> SUFFICES ASSUME NEW j \in RegionsOf(scan.at + 1) PROVE (scan.at + 1) % Word = 0
      OBVIOUS
    <3>1. /\ j \in DOMAIN Regions /\ Regions[j].base <= scan.at + 1
          /\ scan.at + 1 < Regions[j].end /\ Regions[j].base \in Nat /\ Regions[j].end \in Nat
      BY <1>2, RegionsAre DEF RegionsOf, Within
    <3>2. ~(Regions[j].base <= scan.at)
      BY <1>2, <1>7, <3>1 DEF RegionsOf, Within
    <3>3. Regions[j].base = scan.at + 1
      BY <1>2, <3>1, <3>2
    <3> QED
      BY <3>1, <3>3, RegionsAre
  <2>3. ASSUME scan.range.low % Word = 0, NEW w \in past.untouched, w + Word <= scan.at + 1,
               Scannable(w)
        PROVE  Has(scan.candidates, w)
    <3>1. PICK i \in RegionsOf(w) : TRUE
      BY <2>3 DEF Scannable
    <3>2. /\ i \in DOMAIN Regions /\ Regions[i].base <= w /\ w + Word <= Regions[i].end
          /\ Regions[i].base \in Nat /\ Regions[i].end \in Nat
      BY <1>2, <3>1, OneRegion, RegionsAre
    <3>3. w + Word <= scan.at
      <4>1. SUFFICES ASSUME w + Word = scan.at + 1 PROVE FALSE
        BY <1>2, <2>3
      <4>2. Within(scan.at, Regions[i])
        BY <1>2, <3>2, <4>1 DEF Within
      <4> QED
        BY <1>7, <3>2, <4>2 DEF RegionsOf
    <3> QED
      BY <1>1, <2>3, <3>3 DEF Passing
  <2>4. \A n \in DOMAIN scan.candidates : scan.candidates[n].address + Word <= scan.at + 1
    <3>1. \A n \in DOMAIN scan.candidates : /\ scan.candidates[n].address \in Nat
                                            /\ scan.candidates[n].address + Word <= scan.at
      BY <1>1, CandList DEF ScanShape, Passing
    <3> QED
      BY <1>2, <3>1
  <2>5. Passing'
    <3>1. scan.at + 1 \in Nat /\ scan.range.low <= scan.at + 1
      BY <1>1, <1>2 DEF Passing
    <3>2. /\ \A w : Has(scan.candidates, w)' = Has(scan.candidates, w)
          /\ \A w : Scannable(w)' = Scannable(w)
      BY <1>4, KeepsSame DEF Keeps, Scans
    <3> QED
      BY <1>1, <1>4, <2>1, <2>2, <2>3, <2>4, <3>1, <3>2 DEF Passing, Keeps, Scans
  <2> QED
    BY <1>5, <2>1, <2>5 DEF ScanInv
<1>8. ASSUME scan.at < scan.range.high,
             NEW i \in RegionsOf(scan.at), Writable(i), Regions[i].private,
             scan' = [scan EXCEPT !.pc = "chunk", !.region = i]
      PROVE  ScanInv'
  <2>1. scan.pc' = "chunk" /\ scan.at' = scan.at /\ scan.region' = i
    BY <1>1, <1>8 DEF ScanShape
  <2>2. Passing'
    <3>1. /\ \A w : Has(scan.candidates, w)' = Has(scan.candidates, w)
          /\ \A w : Scannable(w)' = Scannable(w)
      BY <1>4, KeepsSame DEF Keeps, Scans
    <3> QED
      BY <1>1, <1>4, <1>8, <2>1, <3>1 DEF Passing, Keeps, Scans
  <2> QED
    BY <1>5, <2>1, <2>2 DEF ScanInv
<1>9. ASSUME scan.at < scan.range.high,
             NEW i \in RegionsOf(scan.at), ~(Writable(i) /\ Regions[i].private),
             scan' = [scan EXCEPT !.at = NextAddress(i, @)]
      PROVE  ScanInv'
  <2> DEFINE e == Regions[i].end
  <2>1. /\ i \in DOMAIN Regions /\ Regions[i].base <= scan.at /\ scan.at < e
        /\ e \in Nat /\ e % Word = 0 /\ Regions[i].base \in Nat
    BY <1>2, OneRegion, RegionsAre
  <2>2. scan.pc' = "start" /\ scan.at' = e
    BY <1>1, <1>2, <1>9, <2>1 DEF ScanShape, NextAddress
  <2>3. ASSUME scan.range.low % Word = 0, NEW w \in past.untouched, w + Word <= e, Scannable(w)
        PROVE  Has(scan.candidates, w)
    <3>1. scan.at % Word = 0
      BY <1>1, <1>2, <1>9, <2>3 DEF Passing
    <3>2. PICK j \in RegionsOf(w) : Writable(j) /\ Regions[j].private
      BY <2>3 DEF Scannable
    <3>3. w < scan.at
      <4>1. SUFFICES ASSUME scan.at <= w PROVE FALSE
        BY <1>2
      <4>2. i \in RegionsOf(w)
        BY <1>2, <2>1, <2>3, <4>1 DEF RegionsOf, Within
      <4>3. i = j
        BY <1>2, <3>2, <4>2, OneRegion
      <4> QED
        BY <1>9, <3>2, <4>3
    <3>4. w + Word <= scan.at
      BY <1>2, <3>1, <3>3, NextWord
    <3> QED
      BY <1>1, <2>3, <3>4 DEF Passing
  <2>4. \A n \in DOMAIN scan.candidates : scan.candidates[n].address + Word <= e
    <3>1. \A n \in DOMAIN scan.candidates : /\ scan.candidates[n].address \in Nat
                                            /\ scan.candidates[n].address + Word <= scan.at
      BY <1>1, CandList DEF ScanShape, Passing
    <3> HIDE DEF e
    <3> QED
      BY <1>2, <2>1, <3>1
  <2>5. Passing'
    <3>1. e \in Nat /\ scan.range.low <= e
      BY <1>1, <1>2, <2>1 DEF Passing
    <3>2. /\ \A w : Has(scan.candidates, w)' = Has(scan.candidates, w)
          /\ \A w : Scannable(w)' = Scannable(w)
      BY <1>4, KeepsSame DEF Keeps, Scans
    <3> HIDE DEF e
    <3> QED
      BY <1>1, <1>4, <2>1, <2>2, <2>3, <2>4, <3>1, <3>2 DEF Passing, Keeps, Scans
  <2> QED
    BY <1>5, <2>2, <2>5 DEF ScanInv
<1> QED
  BY <1>3, <1>6, <1>7, <1>8, <1>9

(* A list of candidates after another one. *)
LEMMA Joined ==
  ASSUME NEW s \in Seq(Cand), NEW t \in Seq(Cand)
  PROVE  /\ s \o t \in Seq(Cand) /\ Len(s \o t) = Len(s) + Len(t)
         /\ Sorted(s) /\ Sorted(t) /\ (\A m \in DOMAIN s, n \in DOMAIN t : s[m].address < t[n].address)
              => Sorted(s \o t)
         /\ InRange(s) /\ InRange(t) => InRange(s \o t)
         /\ UpToDate(s) /\ UpToDate(t) => UpToDate(s \o t)
         /\ NoneOf(s) /\ NoneOf(t) => NoneOf(s \o t)
         /\ \A w : Has(s, w) \/ Has(t, w) => Has(s \o t, w)
         /\ \A n \in DOMAIN (s \o t) : \/ n \in DOMAIN s /\ (s \o t)[n] = s[n]
                                       \/ \E m \in DOMAIN t : (s \o t)[n] = t[m]
<1> DEFINE j == s \o t
<1>1. /\ j \in Seq(Cand) /\ Len(j) = Len(s) + Len(t)
      /\ \A n \in 1..(Len(s) + Len(t)) : j[n] = IF n <= Len(s) THEN s[n] ELSE t[n - Len(s)]
  BY ConcatProperties
<1>2. /\ DOMAIN s = 1..Len(s) /\ Len(s) \in Nat /\ DOMAIN t = 1..Len(t) /\ Len(t) \in Nat
      /\ \A n \in DOMAIN s : s[n].address \in Nat
      /\ \A n \in DOMAIN t : t[n].address \in Nat
  BY CandList
<1>3. DOMAIN j = 1..(Len(s) + Len(t))
  BY <1>1, LenProperties
<1> HIDE DEF j
<1>4. ASSUME NEW n \in DOMAIN j
      PROVE  \/ n \in DOMAIN s /\ j[n] = s[n] /\ n <= Len(s)
             \/ n - Len(s) \in DOMAIN t /\ j[n] = t[n - Len(s)] /\ n > Len(s)
  BY <1>1, <1>2, <1>3
<1>5. ASSUME NEW n \in DOMAIN s PROVE n \in DOMAIN j /\ j[n] = s[n]
  BY <1>1, <1>2, <1>3
<1>6. ASSUME NEW n \in DOMAIN t PROVE Len(s) + n \in DOMAIN j /\ j[Len(s) + n] = t[n]
  <2>1. Len(s) + n \in DOMAIN j /\ ~(Len(s) + n <= Len(s)) /\ (Len(s) + n) - Len(s) = n
    BY <1>2, <1>3
  <2> QED
    BY <1>1, <1>3, <2>1
<1>7. ASSUME Sorted(s), Sorted(t), \A m \in DOMAIN s, n \in DOMAIN t : s[m].address < t[n].address
      PROVE  Sorted(j)
  <2> SUFFICES ASSUME NEW m \in DOMAIN j, NEW n \in DOMAIN j, m < n
               PROVE  j[m].address < j[n].address
    BY DEF Sorted
  <2>0. m \in Nat /\ n \in Nat
    BY <1>3
  <2>1. CASE n \in DOMAIN s /\ j[n] = s[n] /\ n <= Len(s)
    <3>1. m \in DOMAIN s /\ j[m] = s[m]
      BY <1>2, <1>4, <2>0, <2>1
    <3> QED
      BY <1>7, <2>1, <3>1 DEF Sorted
  <2>2. CASE n - Len(s) \in DOMAIN t /\ j[n] = t[n - Len(s)] /\ n > Len(s)
    <3>1. CASE m \in DOMAIN s /\ j[m] = s[m] /\ m <= Len(s)
      BY <1>7, <2>2, <3>1
    <3>2. CASE m - Len(s) \in DOMAIN t /\ j[m] = t[m - Len(s)] /\ m > Len(s)
      <4>1. m - Len(s) < n - Len(s)
        BY <1>2, <2>0
      <4> QED
        BY <1>7, <2>2, <3>2, <4>1 DEF Sorted
    <3> QED
      BY <1>4, <3>1, <3>2
  <2> QED
    BY <1>4, <2>1, <2>2
<1>8. InRange(s) /\ InRange(t) => InRange(j)
  BY <1>4 DEF InRange
<1>9. UpToDate(s) /\ UpToDate(t) => UpToDate(j)
  BY <1>4 DEF UpToDate
<1>10. NoneOf(s) /\ NoneOf(t) => NoneOf(j)
  BY <1>4 DEF NoneOf
<1>11. \A w : Has(s, w) \/ Has(t, w) => Has(j, w)
  BY <1>5, <1>6 DEF Has
<1>12. \A n \in DOMAIN j : \/ n \in DOMAIN s /\ j[n] = s[n]
                           \/ \E m \in DOMAIN t : j[n] = t[m]
  BY <1>4
<1> QED
  BY <1>1, <1>7, <1>8, <1>9, <1>10, <1>11, <1>12 DEF j

(* What a chunk holds of the region i that the pass is in. *)
LEMMA ChunkRead ==
  ASSUME ScanInv, scan.pc = "chunk"
  PROVE  LET i == scan.region
             e == ChunkEnd(i)
         IN /\ i \in DOMAIN Regions /\ Regions[i].base <= scan.at /\ scan.at < e
            /\ scan.at \in Nat /\ e \in Nat /\ e <= Regions[i].end /\ e <= scan.range.high
            /\ RegionEnd(i) \in Nat /\ e <= RegionEnd(i)
            /\ RegionEnd(i) <= Regions[i].end /\ RegionEnd(i) <= scan.range.high
            /\ scan.range.low % Word = 0 => scan.at % Word = 0
            /\ scan.range.low % Word = 0 => e % Word = 0 \/ e = scan.range.high
<1> DEFINE i == scan.region
           e == ChunkEnd(i)
           b == RegionEnd(i)
           high == scan.range.high
           at == scan.at
           end == Regions[i].end
<1>1. /\ Passing /\ ScanShape /\ i \in RegionsOf(at) /\ at < high
      /\ at \in Nat /\ high \in Nat
  BY DEF ScanInv, Passing, ScanShape
<1>2. /\ i \in DOMAIN Regions /\ Regions[i].base <= at /\ at < end
      /\ Regions[i].base \in Nat /\ end \in Nat /\ end % Word = 0
  BY <1>1, OneRegion, RegionsAre
<1>3. Chunk \in Nat /\ Chunk > 0
  BY WordNumbers
<1>4. /\ b = IF end < high THEN end ELSE high
      /\ e = IF at + Chunk < b THEN at + Chunk ELSE b
  BY DEF RegionEnd, ChunkEnd
<1>5. scan.range.low % Word = 0 => at % Word = 0
  <2>1. RegionsOf(at) # {} /\ ~(at >= high)
    BY <1>1
  <2> QED
    BY <1>1, <2>1 DEF Passing
<1>6. at % Word = 0 => (at + Chunk) % Word = 0
  BY <1>1, NextChunk
<1> SUFFICES /\ i \in DOMAIN Regions /\ Regions[i].base <= at /\ at < e
             /\ at \in Nat /\ e \in Nat /\ e <= end /\ e <= high
             /\ b \in Nat /\ e <= b /\ b <= end /\ b <= high
             /\ scan.range.low % Word = 0 => at % Word = 0
             /\ scan.range.low % Word = 0 => e % Word = 0 \/ e = high
  OBVIOUS
<1> HIDE DEF e, b, high, at, end
<1>7. b \in Nat /\ b <= end /\ b <= high /\ at < b /\ (b = end \/ b = high)
  BY <1>1, <1>2, <1>4
<1>8. e \in Nat /\ e <= b /\ at < e /\ (e = at + Chunk \/ e = b)
  BY <1>1, <1>3, <1>4, <1>7
<1>9. e <= end /\ e <= high
  BY <1>1, <1>2, <1>7, <1>8
<1> QED
  BY <1>1, <1>2, <1>5, <1>6, <1>7, <1>8, <1>9

(* What is captured lies in the chunk, and is every word of it that can be  *)
(* scanned and that no earlier chunk has.                                  *)
LEMMA CapturedIs ==
  ASSUME ScanInv, scan.pc = "chunk"
  PROVE  LET i == scan.region
             e == ChunkEnd(i)
         IN /\ Captured(i) \in SUBSET Nat /\ IsFiniteSet(Captured(i))
            /\ \A w \in Captured(i) : /\ w \in InRegions /\ Capture(w) \in Cand
                                      /\ scan.at <= w /\ w + Word <= e
            /\ scan.range.low % Word = 0 =>
                 \A w \in past.untouched :
                   w + Word <= e /\ ~(w + Word <= scan.at) /\ Scannable(w) => w \in Captured(i)
<1> DEFINE i == scan.region
           e == ChunkEnd(i)
<1>1. /\ i \in DOMAIN Regions /\ Regions[i].base <= scan.at /\ scan.at < e
      /\ scan.at \in Nat /\ e \in Nat /\ e <= Regions[i].end
      /\ scan.range.low % Word = 0 => scan.at % Word = 0
      /\ Regions[i].base \in Nat /\ Regions[i].end \in Nat
  BY ChunkRead, RegionsAre
<1>2. /\ ScanShape /\ past.untouched \subseteq InRegions
      /\ game.value \in [InRegions -> Values]
  BY DEF ScanInv, ScanShape
<1>3. \A w \in Captured(i) : w \in Words /\ scan.at <= w /\ w + Word <= e
  BY DEF Captured, WordsIn
<1>4. Captured(i) \in SUBSET Nat /\ IsFiniteSet(Captured(i))
  <2>1. Captured(i) \in SUBSET Words
    BY <1>3
  <2> QED
    BY <2>1, WordsInRegions, FS_Subset
<1>5. ASSUME NEW w \in Captured(i) PROVE w \in InRegions /\ Capture(w) \in Cand
  <2>0. w \in Words /\ w + Word <= e
    BY <1>3
  <2>1. w \in Nat /\ w % Word = 0 /\ w < e
    <3>1. w \in Nat /\ w % Word = 0
      BY <2>0, WordsInRegions
    <3>2. Word \in Nat /\ Word > 0
      BY WordNumbers
    <3> HIDE DEF e
    <3> QED
      BY <1>1, <2>0, <3>1, <3>2
  <2>2. i \in RegionsOf(w)
    BY <1>1, <1>3, <2>1 DEF RegionsOf, Within
  <2>3. w \in InRegions
    BY <2>1, <2>2, OneRegion
  <2> QED
    BY <1>2, <2>3 DEF Capture, Cand
<1>6. ASSUME scan.range.low % Word = 0, NEW w \in past.untouched,
             w + Word <= e, ~(w + Word <= scan.at), Scannable(w)
      PROVE  w \in Captured(i)
  <2>0. w \in Words
    BY <1>2, WordsInRegions
  <2>1. w \in Words /\ w \in Nat /\ w % Word = 0 /\ Word \in Nat /\ Word > 0
    BY <2>0, WordsInRegions, WordNumbers
  <2>2. scan.at <= w
    <3>1. w < scan.at => w + Word <= scan.at
      BY <1>1, <1>6, <2>1, NextWord
    <3> QED
      BY <1>1, <1>6, <2>1, <3>1
  <2>3. i \in RegionsOf(w)
    <3>1. w < e
      BY <1>1, <1>6, <2>1
    <3> QED
      BY <1>1, <2>1, <2>2, <3>1 DEF RegionsOf, Within
  <2>4. Readable(i) /\ Finite(scan.kind, game.value[w])
    <3>1. PICK j \in RegionsOf(w) : Writable(j)
      BY <1>6 DEF Scannable
    <3>2. i = j
      BY <2>1, <2>3, <3>1, OneRegion
    <3> QED
      BY <1>6, <3>1, <3>2 DEF Readable, Scannable
  <2> QED
    BY <1>6, <2>1, <2>2, <2>4 DEF Captured, WordsIn
<1> QED
  BY <1>3, <1>4, <1>5, <1>6

(* What of it becomes candidates: as many of the captured words as there is *)
(* room for.                                                               *)
Taken(i, m) == [n \in 1..m |-> Capture(InOrder(Captured(i))[n])]

(* They are a list of their own, as the candidates are. *)
LEMMA TakenIs ==
  ASSUME ScanInv, scan.pc = "chunk", NEW m \in Nat, m <= Cardinality(Captured(scan.region))
  PROVE  LET t == Taken(scan.region, m)
         IN /\ t \in Seq(Cand) /\ Len(t) = m /\ DOMAIN t = 1..m
            /\ Sorted(t) /\ InRange(t) /\ UpToDate(t)
            /\ \A n \in 1..m : /\ scan.at <= t[n].address
                               /\ t[n].address + Word <= ChunkEnd(scan.region)
            /\ m = Cardinality(Captured(scan.region)) =>
                 \A w \in Captured(scan.region) : Has(t, w)
<1> DEFINE i == scan.region
           e == ChunkEnd(i)
           S == Captured(i)
           k == Cardinality(S)
           f == InOrder(S)
           t == Taken(i, m)
<1>1. /\ S \in SUBSET Nat /\ IsFiniteSet(S)
      /\ \A w \in S : w \in InRegions /\ Capture(w) \in Cand /\ scan.at <= w /\ w + Word <= e
  BY CapturedIs
<1>2. /\ k \in Nat /\ f \in [1..k -> S] /\ Len(f) = k
      /\ \A p, q \in 1..k : p < q => f[p] < f[q]
      /\ \A x \in S : \E n \in 1..k : f[n] = x
  <2> HIDE DEF S
  <2> QED
    BY <1>1, InOrderLists
<1>3. e <= scan.range.high /\ scan.range.low <= scan.at /\ e \in Nat /\ scan.at \in Nat
      /\ scan.range.low \in Nat /\ scan.range.high \in Nat
  BY ChunkRead DEF ScanInv, Passing, ScanShape
<1>4. t = [n \in 1..m |-> Capture(f[n])]
  BY DEF Taken
<1> SUFFICES /\ t \in Seq(Cand) /\ Len(t) = m /\ DOMAIN t = 1..m
             /\ Sorted(t) /\ InRange(t) /\ UpToDate(t)
             /\ \A n \in 1..m : scan.at <= t[n].address /\ t[n].address + Word <= e
             /\ m = k => \A w \in S : Has(t, w)
  OBVIOUS
<1>0. m <= k
  OBVIOUS
<1> HIDE DEF t, f, k, S, e
<1>5. \A n \in 1..m : n \in 1..k
  BY <1>0, <1>2
<1>6. \A n \in 1..m : f[n] \in S /\ t[n] = Capture(f[n]) /\ t[n].address = f[n]
  BY <1>2, <1>4, <1>5 DEF Capture
<1>7. t \in [1..m -> Cand]
  BY <1>1, <1>4, <1>6
<1>8. t \in Seq(Cand) /\ Len(t) = m /\ DOMAIN t = 1..m
  <2>1. t \in Seq(Cand)
    BY <1>7, SeqDef
  <2> QED
    BY <1>7, <2>1, LenProperties
<1>9. \A n \in 1..m : scan.at <= t[n].address /\ t[n].address + Word <= e
  BY <1>1, <1>6
<1>10. Sorted(t)
  <2> SUFFICES ASSUME NEW p \in 1..m, NEW q \in 1..m, p < q PROVE t[p].address < t[q].address
    BY <1>8 DEF Sorted
  <2> QED
    BY <1>2, <1>5, <1>6
<1>11. InRange(t)
  <2> SUFFICES ASSUME NEW n \in 1..m
               PROVE  scan.range.low <= t[n].address /\ t[n].address + Word <= scan.range.high
    BY <1>8 DEF InRange
  <2>1. t[n].address \in Nat /\ Word \in Nat
    BY <1>1, <1>6, WordNumbers
  <2> QED
    BY <1>3, <1>9, <2>1
<1>12. UpToDate(t)
  BY <1>6, <1>8 DEF UpToDate
<1>13. ASSUME m = k, NEW w \in S PROVE Has(t, w)
  BY <1>2, <1>6, <1>8, <1>13 DEF Has
<1> QED
  BY <1>8, <1>9, <1>10, <1>11, <1>12, <1>13

(* A chunk adds its words, in order after those there are, and the pass     *)
(* goes on behind it; or they are too many, and it ends.                    *)
LEMMA StartChunkStep ==
  ASSUME ScanInv, StartChunk
  PROVE  ScanInv'
<1> DEFINE i == scan.region
           C == scan.candidates
           e == ChunkEnd(i)
           S == Captured(i)
           k == Cardinality(S)
           room == CandidateLimit - Len(C)
           m == IF k < room THEN k ELSE room
           t == Taken(i, m)
<1>1. /\ scan.pc = "chunk" /\ ScanShape /\ Ordered /\ Passing /\ past.valid
      /\ UNCHANGED <<game, past>>
  BY DEF ScanInv, Ordered, StartChunk
<1>2. /\ i \in DOMAIN Regions /\ scan.at < e /\ scan.at \in Nat /\ e \in Nat
      /\ e <= scan.range.high /\ RegionEnd(i) \in Nat /\ e <= RegionEnd(i)
      /\ RegionEnd(i) <= Regions[i].end /\ RegionEnd(i) <= scan.range.high
      /\ scan.range.low % Word = 0 => scan.at % Word = 0
      /\ scan.range.low % Word = 0 => e % Word = 0 \/ e = scan.range.high
      /\ Regions[i].base <= scan.at
  BY <1>1, ChunkRead
<1>3. /\ S \in SUBSET Nat /\ IsFiniteSet(S)
      /\ scan.range.low % Word = 0 =>
           \A w \in past.untouched :
             w + Word <= e /\ ~(w + Word <= scan.at) /\ Scannable(w) => w \in S
  BY <1>1, CapturedIs
<1>4. k \in Nat /\ Len(InOrder(S)) = k
  <2> HIDE DEF S
  <2> QED
    BY <1>3, InOrderLists
<1>5. /\ C \in Seq(Cand) /\ Len(C) \in Nat /\ room \in Nat /\ room > 0 /\ m \in Nat /\ m <= k
      /\ m <= room /\ (k < room => m = k) /\ (k >= room => m = room)
      /\ k < room \/ k >= room
  <2>1. C \in Seq(Cand) /\ Len(C) < CandidateLimit /\ Len(C) \in Nat /\ CandidateLimit \in Nat
    BY <1>1, CandList, WordNumbers DEF ScanShape, Passing
  <2> HIDE DEF k, C
  <2> QED
    BY <1>4, <2>1
<1>6. /\ t \in Seq(Cand) /\ Len(t) = m /\ DOMAIN t = 1..m
      /\ Sorted(t) /\ InRange(t) /\ UpToDate(t)
      /\ \A n \in 1..m : scan.at <= t[n].address /\ t[n].address + Word <= e
      /\ m = k => \A w \in S : Has(t, w)
  <2> HIDE DEF m
  <2> QED
    BY <1>1, <1>5, TakenIs
<1>7. \/ k >= room /\ scan' = [scan EXCEPT !.candidates = C \o t, !.at = e,
                                           !.pc = "idle", !.truncated = TRUE]
      \/ k < room /\ scan' = [scan EXCEPT !.candidates = C \o t, !.at = e,
                                 !.pc = IF e < RegionEnd(i) THEN "chunk" ELSE "start"]
  <2>1. t = [n \in 1..(IF Len(InOrder(S)) < room THEN Len(InOrder(S)) ELSE room)
               |-> Capture(InOrder(S)[n])]
    BY <1>4 DEF Taken
  <2>2. LET next == [scan EXCEPT !.candidates = @ \o t, !.at = e]
        IN scan' = IF Len(InOrder(S)) >= room
                   THEN [next EXCEPT !.pc = "idle", !.truncated = TRUE]
                   ELSE [next EXCEPT !.pc = IF e < RegionEnd(i) THEN "chunk" ELSE "start"]
    BY <2>1 DEF StartChunk
  <2> HIDE DEF t, S, e, k, room
  <2>3. k >= room \/ (k < room /\ ~(k >= room))
    BY <1>4, <1>5
  <2>4. CASE k >= room
    BY <1>4, <2>2, <2>4
  <2>5. CASE k < room /\ ~(k >= room)
    BY <1>4, <2>2, <2>5
  <2> QED
    BY <2>3, <2>4, <2>5
<1> HIDE DEF t, m, k, room, S, e
<1>8. /\ scan' = [ pc |-> scan.pc', kind |-> scan.kind', filter |-> scan.filter', at |-> scan.at',
              region |-> scan.region', range |-> scan.range', candidates |-> scan.candidates',
              filtered |-> scan.filtered', truncated |-> scan.truncated' ]
      /\ scan.candidates' = C \o t /\ scan.at' = e /\ scan.filtered' = scan.filtered
      /\ scan.region' = i
      /\ Scans
      /\ \/ k >= room /\ scan.pc' = "idle" /\ scan.truncated' = TRUE
         \/ /\ k < room /\ scan.truncated' = scan.truncated
            /\ \/ e < RegionEnd(i) /\ scan.pc' = "chunk"
               \/ ~(e < RegionEnd(i)) /\ scan.pc' = "start"
  <2>1. CASE k >= room /\ scan' = [scan EXCEPT !.candidates = C \o t, !.at = e,
                                           !.pc = "idle", !.truncated = TRUE]
    BY <1>1, <2>1 DEF ScanShape, Scans
  <2>2. CASE k < room /\ scan' = [scan EXCEPT !.candidates = C \o t, !.at = e,
                                 !.pc = IF e < RegionEnd(i) THEN "chunk" ELSE "start"]
    <3>1. CASE e < RegionEnd(i)
      BY <1>1, <2>2, <3>1 DEF ScanShape, Scans
    <3>2. CASE ~(e < RegionEnd(i))
      BY <1>1, <2>2, <3>2 DEF ScanShape, Scans
    <3> QED
      BY <3>1, <3>2
  <2> QED
    BY <1>7, <2>1, <2>2
<1>9. /\ \A s : /\ UpToDate(s)' = UpToDate(s) /\ NoneOf(s)' = NoneOf(s)
                /\ Sorted(s)' = Sorted(s) /\ InRange(s)' = InRange(s)
                /\ \A w : Has(s, w)' = Has(s, w)
      /\ \A w : Scannable(w)' = Scannable(w)
  BY <1>8, ScansSame
<1>10. \A n \in DOMAIN C : /\ C[n].address \in Nat /\ C[n].address + Word <= scan.at
  BY <1>1, <1>5, CandList DEF Passing
<1>11. /\ C \o t \in Seq(Cand) /\ Len(C \o t) = Len(C) + m
       /\ Sorted(C \o t) /\ InRange(C \o t) /\ UpToDate(C \o t)
       /\ \A w : Has(C, w) \/ Has(t, w) => Has(C \o t, w)
       /\ \A n \in DOMAIN (C \o t) : \/ n \in DOMAIN C /\ (C \o t)[n] = C[n]
                                     \/ \E p \in DOMAIN t : (C \o t)[n] = t[p]
  <2>1. Sorted(C) /\ InRange(C) /\ UpToDate(C)
    BY <1>1 DEF Ordered
  <2>2. ASSUME NEW a \in DOMAIN C, NEW n \in DOMAIN t PROVE C[a].address < t[n].address
    <3>1. t[n].address \in Nat /\ scan.at <= t[n].address
      BY <1>6, CandList
    <3> HIDE DEF C
    <3> QED
      BY <1>2, <1>10, <3>1, WordNumbers
  <2> HIDE DEF C
  <2> QED
    BY <1>5, <1>6, <2>1, <2>2, Joined
<1>12. ScanShape'
  BY <1>1, <1>8, <1>11 DEF ScanShape, Scans
<1>13. Ordered'
  <2>1. Len(C) + m <= CandidateLimit
    BY <1>5, WordNumbers DEF room
  <2> QED
    BY <1>1, <1>8, <1>9, <1>11, <2>1 DEF Ordered, Scans
<1>14. CASE k >= room /\ scan.pc' = "idle" /\ scan.truncated' = TRUE
  <2>1. past.onlyUnchanged' = TRUE
    BY <1>1, <1>8 DEF Passing, Scans, ScanShape
  <2>2. Resting'
    BY <1>14, <2>1 DEF Resting, Claimed
  <2> QED
    BY <1>12, <1>13, <1>14, <2>2 DEF ScanInv
<1>15. CASE /\ k < room /\ scan.truncated' = scan.truncated
            /\ \/ e < RegionEnd(i) /\ scan.pc' = "chunk"
               \/ ~(e < RegionEnd(i)) /\ scan.pc' = "start"
  <2>1. Len(C \o t) < CandidateLimit
    BY <1>5, <1>11, <1>15, WordNumbers DEF room
  <2>2. ASSUME NEW n \in DOMAIN (C \o t) PROVE (C \o t)[n].address + Word <= e
    <3>1. CASE n \in DOMAIN C /\ (C \o t)[n] = C[n]
      <4>1. C[n].address \in Nat /\ C[n].address + Word <= scan.at
        BY <1>10, <3>1
      <4> QED
        BY <1>2, <3>1, <4>1, WordNumbers
    <3>2. CASE \E p \in DOMAIN t : (C \o t)[n] = t[p]
      BY <1>6, <3>2
    <3> QED
      BY <1>11, <3>1, <3>2
  <2>3. ASSUME scan.range.low % Word = 0, NEW w \in past.untouched, w + Word <= e, Scannable(w)
        PROVE  Has(C \o t, w)
    <3>1. CASE w + Word <= scan.at
      BY <1>1, <1>11, <2>3, <3>1 DEF Passing
    <3>2. CASE ~(w + Word <= scan.at)
      BY <1>3, <1>5, <1>6, <1>11, <1>15, <2>3, <3>2
    <3> QED
      BY <3>1, <3>2
  <2>4. e \in Nat /\ scan.range.low <= e
    BY <1>1, <1>2 DEF Passing, ScanShape
  <2>5. scan.range.low % Word = 0 => e % Word = 0 \/ e >= scan.range.high
    BY <1>2
  <2>6. ASSUME scan.pc' = "chunk"
        PROVE  i \in RegionsOf(e) /\ e < scan.range.high /\ Regions[i].private
    <3>1. e < RegionEnd(i)
      BY <1>15, <2>6
    <3>2. e < scan.range.high /\ e < Regions[i].end /\ Regions[i].base <= e
      BY <1>1, <1>2, <3>1, RegionsAre DEF ScanShape
    <3> QED
      BY <1>1, <1>2, <3>2 DEF RegionsOf, Within, Passing
  <2>7. Passing'
    BY <1>1, <1>8, <1>9, <1>15, <2>1, <2>2, <2>3, <2>4, <2>5, <2>6 DEF Passing, Scans
  <2>8. scan.pc' \in {"start", "chunk"}
    BY <1>15
  <2> QED
    BY <1>12, <1>13, <2>7, <2>8 DEF ScanInv
<1> QED
  BY <1>8, <1>14, <1>15

-----------------------------------------------------------------------------
(* A filter begins with every candidate before it. *)
LEMMA StartFilterStep ==
  ASSUME ScanInv, StartFilter
  PROVE  ScanInv'
<1>1. scan.pc = "idle" /\ ScanShape /\ Ordered /\ Resting /\ UNCHANGED game
  BY DEF ScanInv, StartFilter
<1>2. PICK filter \in Filters :
        /\ scan' = IF scan.candidates = <<>> THEN scan
                   ELSE [scan EXCEPT !.pc = "filter", !.filter = filter,
                                     !.at = 1, !.filtered = <<>>]
        /\ past' = IF filter = "unchanged" THEN past ELSE [past EXCEPT !.onlyUnchanged = FALSE]
  BY DEF StartFilter
<1>3. /\ past' = [ untouched |-> past.untouched', onlyUnchanged |-> past.onlyUnchanged',
                   valid |-> past.valid' ]
      /\ past.untouched' = past.untouched /\ past.valid' = past.valid
      /\ \/ filter = "unchanged" /\ past.onlyUnchanged' = past.onlyUnchanged
         \/ filter # "unchanged" /\ past.onlyUnchanged' = FALSE
  <2>1. CASE filter = "unchanged"
    BY <1>1, <1>2, <2>1 DEF ScanShape
  <2>2. CASE filter # "unchanged"
    BY <1>1, <1>2, <2>2 DEF ScanShape
  <2> QED
    BY <2>1, <2>2
<1>4. /\ <<>> \in Seq(Cand) /\ Len(<<>>) = 0 /\ DOMAIN <<>> = {}
      /\ scan.candidates \in Seq(Cand)
      /\ DOMAIN scan.candidates = 1..Len(scan.candidates) /\ Len(scan.candidates) \in Nat
  BY <1>1, EmptySeq, CandList DEF ScanShape
<1>5. ASSUME scan.range' = scan.range, scan.kind' = scan.kind
      PROVE  /\ \A s : /\ UpToDate(s)' = UpToDate(s) /\ NoneOf(s)' = NoneOf(s)
                       /\ Sorted(s)' = Sorted(s) /\ InRange(s)' = InRange(s)
                       /\ \A w : Has(s, w)' = Has(s, w)
             /\ \A w : Scannable(w)' = Scannable(w) /\ Capture(w)' = Capture(w)
  <2>1. \A w : Capture(w)' = Capture(w)
    BY <1>1 DEF Capture
  <2>2. \A w : Scannable(w)' = Scannable(w)
    BY <1>1, <1>5 DEF Scannable, Writable, Finite
  <2>3. \A s : /\ UpToDate(s)' = UpToDate(s) /\ NoneOf(s)' = NoneOf(s)
               /\ Sorted(s)' = Sorted(s) /\ InRange(s)' = InRange(s)
               /\ \A w : Has(s, w)' = Has(s, w)
    BY <1>3, <1>5, <2>1 DEF UpToDate, NoneOf, Sorted, InRange, Has
  <2> QED
    BY <2>1, <2>2, <2>3
<1>6. CASE scan.candidates = <<>>
  <2>1. scan' = scan
    BY <1>2, <1>6
  <2>2. ScanShape' /\ Ordered'
    <3>1. ScanShape'
      BY <1>1, <1>3, <2>1 DEF ScanShape
    <3>2. Ordered'
      BY <1>1, <1>3, <1>5, <2>1 DEF Ordered
    <3> QED
      BY <3>1, <3>2
  <2>3. NoneOf(scan.candidates)'
    BY <1>4, <1>6, <2>1 DEF NoneOf
  <2>4. Claimed' => Claimed
    BY <1>3, <2>1 DEF Claimed
  <2>5. Resting'
    BY <1>1, <1>3, <1>5, <2>1, <2>3, <2>4 DEF Resting
  <2> QED
    BY <1>1, <2>1, <2>2, <2>5 DEF ScanInv
<1>7. CASE scan.candidates # <<>>
  <2>1. scan' = [scan EXCEPT !.pc = "filter", !.filter = filter, !.at = 1, !.filtered = <<>>]
    BY <1>2, <1>7
  <2>2. /\ scan' = [ pc |-> scan.pc', kind |-> scan.kind', filter |-> scan.filter', at |-> scan.at',
              region |-> scan.region', range |-> scan.range', candidates |-> scan.candidates',
              filtered |-> scan.filtered', truncated |-> scan.truncated' ]
        /\ scan.pc' = "filter" /\ scan.filter' = filter /\ scan.at' = 1 /\ scan.filtered' = <<>>
        /\ scan.candidates' = scan.candidates /\ scan.range' = scan.range
        /\ scan.kind' = scan.kind /\ scan.truncated' = scan.truncated
    BY <1>1, <2>1 DEF ScanShape
  <2>3. past.valid
    BY <1>1, <1>7 DEF Ordered
  <2>4. ScanShape'
    BY <1>1, <1>3, <1>4, <2>2 DEF ScanShape
  <2>5. Ordered'
    BY <1>1, <1>3, <1>5, <2>2, <2>3 DEF Ordered
  <2>6. Claimed' => Claimed
    BY <1>3, <2>2 DEF Claimed
  <2>7. ASSUME Claimed', NEW w \in past.untouched', Scannable(w)'
        PROVE  \E n \in 1..Len(scan.candidates) : scan.candidates[n] = Capture(w)'
    <3>1. Has(scan.candidates, w)
      BY <1>1, <1>3, <1>5, <2>2, <2>3, <2>6, <2>7 DEF Resting
    <3> QED
      BY <1>4, <1>5, <2>2, <3>1 DEF Has
  <2>8. ASSUME ~past.onlyUnchanged', filter = "unchanged" PROVE NoneOf(scan.candidates)
    BY <1>1, <1>3, <2>3, <2>8 DEF Resting
  <2>9. /\ Sorted(<<>>)' /\ UpToDate(<<>>)' /\ NoneOf(<<>>)'
    BY <1>4 DEF Sorted, UpToDate, NoneOf
  <2>10. Filtering'
    BY <1>3, <1>4, <1>5, <2>2, <2>7, <2>8, <2>9 DEF Filtering
  <2> QED
    BY <2>2, <2>4, <2>5, <2>10 DEF ScanInv
<1> QED
  BY <1>6, <1>7

(* A filter goes over a candidate in no region that can be read, and ends   *)
(* with those it kept.                                                     *)
LEMMA FilterRegionStep ==
  ASSUME ScanInv, FilterRegion
  PROVE  ScanInv'
<1> DEFINE C == scan.candidates
           F == scan.filtered
           at == scan.at
<1>1. /\ scan.pc = "filter" /\ ScanShape /\ Ordered /\ Filtering /\ past.valid
      /\ UNCHANGED <<game, past>>
  BY DEF ScanInv, Ordered, FilterRegion
<1>2. /\ C \in Seq(Cand) /\ DOMAIN C = 1..Len(C) /\ Len(C) \in Nat
      /\ F \in Seq(Cand) /\ DOMAIN F = 1..Len(F) /\ Len(F) \in Nat
      /\ \A n \in 1..Len(C) : C[n].address \in Nat
      /\ at \in Nat /\ at > 0 /\ at <= Len(C) + 1 /\ Len(F) < at
      /\ CandidateLimit \in Nat /\ Len(C) <= CandidateLimit
  BY <1>1, CandList, WordNumbers DEF ScanShape, Filtering, Ordered
<1> DEFINE regions == { i \in RegionsOf(C[at].address) : Writable(i) }
<1>3. \/ at > Len(C) /\ scan' = [scan EXCEPT !.pc = "idle", !.candidates = F, !.filtered = <<>>]
      \/ at <= Len(C) /\ regions = {} /\ scan' = [scan EXCEPT !.at = @ + 1]
      \/ at <= Len(C) /\ \E i \in regions : scan' = [scan EXCEPT !.pc = "read", !.region = i]
  <2>1. CASE at > Len(C)
    BY <2>1 DEF FilterRegion
  <2>2. CASE at <= Len(C) /\ ~(at > Len(C))
    <3>1. CASE regions = {}
      BY <2>2, <3>1 DEF FilterRegion
    <3>2. CASE regions # {}
      BY <2>2, <3>2 DEF FilterRegion
    <3> QED
      BY <3>1, <3>2
  <2>3. at > Len(C) \/ (at <= Len(C) /\ ~(at > Len(C)))
    <3> HIDE DEF C, at
    <3> QED
      BY <1>2
  <2> QED
    BY <2>1, <2>2, <2>3
<1>4. CASE at > Len(C) /\ scan' = [scan EXCEPT !.pc = "idle", !.candidates = F, !.filtered = <<>>]
  <2>1. /\ scan' = [ pc |-> scan.pc', kind |-> scan.kind', filter |-> scan.filter', at |-> scan.at',
              region |-> scan.region', range |-> scan.range', candidates |-> scan.candidates',
              filtered |-> scan.filtered', truncated |-> scan.truncated' ]
        /\ scan.pc' = "idle" /\ scan.candidates' = F /\ scan.filtered' = <<>>
        /\ Scans /\ scan.truncated' = scan.truncated
    BY <1>1, <1>4 DEF ScanShape, Scans
  <2>2. /\ \A s : /\ UpToDate(s)' = UpToDate(s) /\ NoneOf(s)' = NoneOf(s)
                  /\ Sorted(s)' = Sorted(s) /\ InRange(s)' = InRange(s)
                  /\ \A w : Has(s, w)' = Has(s, w)
        /\ \A w : Scannable(w)' = Scannable(w)
    BY <2>1, ScansSame
  <2>3. ScanShape'
    BY <1>1, <1>2, <2>1, EmptySeq DEF ScanShape, Scans
  <2>4. InRange(F)
    <3>1. \A n \in DOMAIN F : \E m \in 1..(at - 1) : F[n].address = C[m].address
      BY <1>1 DEF Filtering
    <3>2. \A m \in 1..(at - 1) : m \in DOMAIN C
      BY <1>2
    <3>3. InRange(C)
      BY <1>1 DEF Ordered
    <3> QED
      BY <3>1, <3>2, <3>3 DEF InRange
  <2>5. Len(F) <= CandidateLimit
    BY <1>2
  <2>6. Sorted(F) /\ UpToDate(F)
    BY <1>1 DEF Filtering
  <2>7. Ordered'
    BY <1>1, <2>1, <2>2, <2>4, <2>5, <2>6 DEF Ordered, Scans
  <2>8. ASSUME Claimed, NEW w \in past.untouched, Scannable(w) PROVE Has(F, w)
    <3>1. ~\E n \in at..Len(C) : C[n] = Capture(w)
      BY <1>2, <1>4
    <3> QED
      BY <1>1, <2>8, <3>1 DEF Filtering
  <2>9. Claimed' = Claimed
    BY <2>1 DEF Claimed, Scans
  <2>10. ~past.onlyUnchanged => NoneOf(F)
    BY <1>1 DEF Filtering
  <2>11. Resting'
    BY <2>1, <2>2, <2>8, <2>9, <2>10 DEF Resting, Scans
  <2> QED
    BY <2>1, <2>3, <2>7, <2>11 DEF ScanInv
<1>5. CASE at <= Len(C) /\ regions = {} /\ scan' = [scan EXCEPT !.at = @ + 1]
  <2>1. /\ scan' = [ pc |-> scan.pc', kind |-> scan.kind', filter |-> scan.filter', at |-> scan.at',
              region |-> scan.region', range |-> scan.range', candidates |-> scan.candidates',
              filtered |-> scan.filtered', truncated |-> scan.truncated' ]
        /\ scan.pc' = "filter" /\ scan.at' = at + 1 /\ scan.filtered' = F
        /\ scan.filter' = scan.filter /\ Keeps
    BY <1>1, <1>5 DEF ScanShape, Keeps, Scans
  <2>2. ScanShape' /\ Ordered'
    <3>1. ScanShape'
      BY <1>1, <2>1 DEF ScanShape, Keeps, Scans
    <3> QED
      BY <1>1, <2>1, <3>1, KeepsSame DEF Ordered, Keeps, Scans
  <2>3. ASSUME NEW w, C[at] = Capture(w), Scannable(w) PROVE FALSE
    <3>1. C[at].address = w
      BY <2>3 DEF Capture
    <3>2. PICK i \in RegionsOf(w) : Writable(i)
      BY <2>3 DEF Scannable
    <3> QED
      BY <1>5, <3>1, <3>2
  <2>4. ASSUME Claimed, NEW w \in past.untouched, Scannable(w)
        PROVE  Has(F, w) \/ \E n \in (at + 1)..Len(C) : C[n] = Capture(w)
    <3>1. CASE \E n \in at..Len(C) : C[n] = Capture(w)
      <4>1. PICK n \in at..Len(C) : C[n] = Capture(w)
        BY <3>1
      <4>2. n # at
        BY <2>3, <2>4, <4>1
      <4>3. n \in (at + 1)..Len(C)
        BY <1>2, <4>2
      <4> QED
        BY <4>1, <4>3
    <3> QED
      BY <1>1, <2>4, <3>1 DEF Filtering
  <2>5. \A n \in DOMAIN F : \E m \in 1..((at + 1) - 1) : F[n].address = C[m].address
    <3>1. \A m \in 1..(at - 1) : m \in 1..((at + 1) - 1)
      BY <1>2
    <3> QED
      BY <1>1, <3>1 DEF Filtering
  <2>6. at + 1 \in Nat \ {0} /\ at + 1 <= Len(C) + 1 /\ Len(F) < at + 1
    BY <1>2, <1>5
  <2>7. /\ \A s : /\ UpToDate(s)' = UpToDate(s) /\ NoneOf(s)' = NoneOf(s)
                  /\ Sorted(s)' = Sorted(s)
                  /\ \A w : Has(s, w)' = Has(s, w)
        /\ \A w : Scannable(w)' = Scannable(w) /\ Capture(w)' = Capture(w)
        /\ Claimed' = Claimed
    BY <2>1, KeepsSame
  <2>8. Filtering'
    BY <1>1, <2>1, <2>4, <2>5, <2>6, <2>7 DEF Filtering, Keeps, Scans
  <2> QED
    BY <2>1, <2>2, <2>8 DEF ScanInv
<1>6. CASE at <= Len(C) /\ \E i \in regions : scan' = [scan EXCEPT !.pc = "read", !.region = i]
  <2>0. PICK i \in regions : scan' = [scan EXCEPT !.pc = "read", !.region = i]
    BY <1>6
  <2>1. /\ scan' = [ pc |-> scan.pc', kind |-> scan.kind', filter |-> scan.filter', at |-> scan.at',
              region |-> scan.region', range |-> scan.range', candidates |-> scan.candidates',
              filtered |-> scan.filtered', truncated |-> scan.truncated' ]
        /\ scan.pc' = "read" /\ scan.at' = at /\ scan.filtered' = F /\ scan.region' = i
        /\ scan.filter' = scan.filter /\ Keeps
    BY <1>1, <2>0 DEF ScanShape, Keeps, Scans
  <2>2. ScanShape' /\ Ordered'
    <3>1. ScanShape'
      BY <1>1, <2>1 DEF ScanShape, Keeps, Scans
    <3> QED
      BY <1>1, <2>1, <3>1, KeepsSame DEF Ordered, Keeps, Scans
  <2>7. /\ \A s : /\ UpToDate(s)' = UpToDate(s) /\ NoneOf(s)' = NoneOf(s)
                  /\ Sorted(s)' = Sorted(s)
                  /\ \A w : Has(s, w)' = Has(s, w)
        /\ \A w : Scannable(w)' = Scannable(w) /\ Capture(w)' = Capture(w)
        /\ Claimed' = Claimed
    BY <2>1, KeepsSame
  <2>8. Filtering'
    BY <1>1, <1>6, <2>1, <2>7 DEF Filtering, Keeps, Scans
  <2> QED
    BY <2>1, <2>2, <2>8 DEF ScanInv
<1> QED
  BY <1>3, <1>4, <1>5, <1>6

(* A set of numbers up to a bound that is not empty has its greatest        *)
(* element, Max's.                                                         *)
LEMMA BoundedMax ==
  ASSUME NEW S \in SUBSET Nat, S # {}, NEW b \in Nat, \A x \in S : x <= b
  PROVE  Max(S) \in S /\ \A x \in S : x <= Max(S)
<1> DEFINE T == { b - x : x \in S }
<1>1. T \in SUBSET Nat /\ T # {}
  <2>1. \A x \in S : b - x \in Nat
    OBVIOUS
  <2> QED
    BY <2>1
<1>2. PICK d \in T : \A y \in T : d <= y
  <2> HIDE DEF T
  <2> QED
    BY <1>1, NatMin
<1>3. PICK m \in S : d = b - m
  BY <1>2
<1>4. ASSUME NEW x \in S PROVE m >= x
  <2>1. b - m <= b - x /\ x \in Nat /\ m \in Nat
    BY <1>2, <1>3
  <2> QED
    BY <2>1
<1>5. Max(S) \in S /\ \A x \in S : Max(S) >= x
  BY <1>4 DEF Max
<1> QED
  BY <1>5

(* The chunk that is read for the next candidate holds it, and a run of     *)
(* those after it, all in its region.                                      *)
LEMMA BatchIs ==
  ASSUME ScanInv, scan.pc = "read"
  PROVE  LET x == Max(Batch(scan.region))
         IN /\ x \in Nat /\ scan.at <= x /\ x <= Len(scan.candidates)
            /\ Batch(scan.region) = scan.at..x
            /\ \A n \in scan.at..x : scan.region \in RegionsOf(scan.candidates[n].address)
<1> DEFINE i == scan.region
           C == scan.candidates
           at == scan.at
           base == ChunkBase(i, C[at].address)
           end == IF base + Chunk < Regions[i].end THEN base + Chunk ELSE Regions[i].end
           B == Batch(i)
           x == Max(B)
<1>1. ScanShape /\ Ordered /\ Filtering /\ past.valid
  BY DEF ScanInv, Ordered
<1>2. /\ C \in Seq(Cand) /\ DOMAIN C = 1..Len(C) /\ Len(C) \in Nat
      /\ \A n \in 1..Len(C) : C[n].address \in Nat
      /\ at \in Nat /\ at > 0 /\ at <= Len(C) /\ at \in 1..Len(C)
      /\ i \in RegionsOf(C[at].address)
      /\ Sorted(C)
  BY <1>1, CandList DEF ScanShape, Filtering, Ordered
<1>3. /\ i \in DOMAIN Regions /\ Regions[i].base <= C[at].address
      /\ C[at].address < Regions[i].end
      /\ Regions[i].base \in Nat /\ Regions[i].end \in Nat
  BY <1>2, OneRegion, RegionsAre
<1>4. base \in Nat /\ Regions[i].base <= base /\ base <= C[at].address /\ C[at].address < base + Chunk
  <2> DEFINE a == C[at].address
             r == a % Chunk
             b == Regions[i].base
  <2>1. a \in Nat /\ b \in Nat /\ b <= a /\ Chunk \in Nat /\ Chunk > 0
    BY <1>2, <1>3, WordNumbers
  <2>2. r \in Nat /\ r < Chunk /\ r <= a
    <3> HIDE DEF a
    <3> QED
      BY <2>1, InChunk
  <2>3. base = IF a - r > b THEN a - r ELSE b
    BY DEF ChunkBase
  <2> SUFFICES base \in Nat /\ b <= base /\ base <= a /\ a < base + Chunk
    OBVIOUS
  <2> HIDE DEF a, r, b, base
  <2> QED
    BY <2>1, <2>2, <2>3
<1>5. end \in Nat /\ C[at].address < end /\ end <= Regions[i].end
  <2>1. Chunk \in Nat
    BY WordNumbers
  <2> HIDE DEF base
  <2> QED
    BY <1>2, <1>3, <1>4, <2>1
<1>6. B = { n \in at..Len(C) : C[n].address >= base /\ C[n].address < end }
  BY DEF Batch
<1> SUFFICES /\ x \in Nat /\ at <= x /\ x <= Len(C)
             /\ B = at..x
             /\ \A n \in at..x : i \in RegionsOf(C[n].address)
  OBVIOUS
<1> HIDE DEF base, end, C, at, B
<1>7. B \in SUBSET Nat /\ at \in B /\ \A n \in B : at <= n /\ n <= Len(C)
  BY <1>2, <1>4, <1>5, <1>6
<1>8. x \in B /\ \A n \in B : n <= x
  BY <1>2, <1>7, BoundedMax
<1> HIDE DEF x
<1>9. x \in Nat /\ at <= x /\ x <= Len(C)
  BY <1>7, <1>8
<1>10. \A m, n \in 1..Len(C) : m <= n => C[m].address <= C[n].address
  <2> SUFFICES ASSUME NEW m \in 1..Len(C), NEW n \in 1..Len(C), m <= n
               PROVE  C[m].address <= C[n].address
    OBVIOUS
  <2>1. m = n \/ m < n
    BY <1>2
  <2>2. C[m].address \in Nat /\ C[n].address \in Nat
    BY <1>2
  <2>3. m < n => C[m].address < C[n].address
    BY <1>2 DEF Sorted
  <2> QED
    BY <2>1, <2>2, <2>3
<1>11. ASSUME NEW n \in at..x PROVE n \in B
  <2>1. n \in 1..Len(C) /\ x \in 1..Len(C) /\ at <= n /\ n <= x
    BY <1>2, <1>9
  <2>2. C[at].address <= C[n].address /\ C[n].address <= C[x].address /\ C[x].address < end
        /\ C[n].address \in Nat /\ C[x].address \in Nat /\ C[at].address \in Nat
    BY <1>2, <1>6, <1>8, <1>10, <2>1
  <2>3. C[n].address >= base /\ C[n].address < end
    BY <1>4, <1>5, <2>2
  <2> QED
    BY <1>2, <1>6, <1>9, <2>1, <2>3
<1>12. B = at..x
  <2>1. ASSUME NEW n \in B PROVE n \in at..x
    <3>1. n \in Nat /\ at <= n /\ n <= x
      BY <1>7, <1>8, <2>1
    <3> QED
      BY <1>2, <1>9, <3>1
  <2> QED
    BY <1>11, <2>1
<1>13. ASSUME NEW n \in at..x PROVE i \in RegionsOf(C[n].address)
  <2>1. C[n].address >= base /\ C[n].address < end /\ C[n].address \in Nat
    BY <1>2, <1>6, <1>7, <1>11
  <2>2. C[n].address >= Regions[i].base /\ C[n].address < Regions[i].end
    BY <1>3, <1>4, <1>5, <2>1
  <2> QED
    BY <1>3, <2>2 DEF RegionsOf, Within
<1> QED
  BY <1>9, <1>12, <1>13

(* What a batch keeps: those of its candidates that match, with the values  *)
(* they have now.                                                          *)
KeptOf(B) == { n \in B : Kept(scan.candidates[n]) }
Found(B) == [n \in 1..Len(InOrder(KeptOf(B))) |->
               Capture(scan.candidates[InOrder(KeptOf(B))[n]].address)]

(* They are in order, and each is a candidate of the batch. *)
LEMMA FoundIs ==
  ASSUME ScanInv, scan.pc = "read", NEW x \in Nat, scan.at <= x, x <= Len(scan.candidates)
  PROVE  LET t == Found(scan.at..x)
         IN /\ t \in Seq(Cand) /\ Len(t) <= x - scan.at + 1
            /\ Sorted(t) /\ UpToDate(t)
            /\ \A n \in DOMAIN t : \E m \in scan.at..x :
                 t[n].address = scan.candidates[m].address /\ Kept(scan.candidates[m])
            /\ \A m \in scan.at..x : Kept(scan.candidates[m]) => Has(t, scan.candidates[m].address)
<1> DEFINE C == scan.candidates
           at == scan.at
           K == KeptOf(at..x)
           k == Cardinality(K)
           f == InOrder(K)
           t == Found(at..x)
<1>1. /\ C \in Seq(Cand) /\ DOMAIN C = 1..Len(C) /\ Len(C) \in Nat /\ Sorted(C)
      /\ \A n \in 1..Len(C) : C[n].address \in InRegions
      /\ at \in Nat /\ at > 0 /\ game.value \in [InRegions -> Values]
  BY CandList DEF ScanInv, ScanShape, Ordered, Filtering
<1>2. K \in SUBSET (at..x) /\ \A n \in at..x : Kept(C[n]) => n \in K
  BY DEF KeptOf
<1>3. \A n \in K : Kept(C[n])
  BY DEF KeptOf
<1>4. t = [n \in 1..Len(f) |-> Capture(C[f[n]].address)]
  BY DEF Found
<1> SUFFICES /\ t \in Seq(Cand) /\ Len(t) <= x - at + 1 /\ Sorted(t) /\ UpToDate(t)
             /\ \A n \in DOMAIN t : \E m \in at..x :
                  t[n].address = C[m].address /\ Kept(C[m])
             /\ \A m \in at..x : Kept(C[m]) => Has(t, C[m].address)
  OBVIOUS
<1>5. at <= x /\ x <= Len(C)
  OBVIOUS
<1> HIDE DEF t, f, k, K, at, C
<1>6. /\ IsFiniteSet(at..x) /\ Cardinality(at..x) = x - at + 1
  <2>1. at \in Int /\ x \in Int /\ ~(at > x)
    BY <1>1, <1>5
  <2> QED
    BY <2>1, FS_Interval
<1>7. IsFiniteSet(K) /\ k <= x - at + 1
  <2> DEFINE J == at..x
  <2>1. IsFiniteSet(J) /\ K \in SUBSET J /\ Cardinality(J) = x - at + 1
    BY <1>2, <1>6
  <2> HIDE DEF J
  <2> QED
    BY <2>1, FS_Subset DEF k
<1>8. K \in SUBSET Nat /\ \A n \in K : n \in 1..Len(C) /\ n \in at..x
  BY <1>1, <1>2, <1>5
<1>9. /\ k \in Nat /\ f \in [1..k -> K] /\ Len(f) = k
      /\ \A p, q \in 1..k : p < q => f[p] < f[q]
      /\ \A n \in K : \E p \in 1..k : f[p] = n
  BY <1>7, <1>8, InOrderLists DEF f, k
<1>10. \A n \in 1..k : f[n] \in K /\ t[n] = Capture(C[f[n]].address)
                       /\ t[n].address = C[f[n]].address
  BY <1>4, <1>9 DEF Capture
<1>11. t \in [1..k -> Cand]
  <2>1. ASSUME NEW n \in 1..k PROVE Capture(C[f[n]].address) \in Cand
    <3>1. f[n] \in 1..Len(C)
      BY <1>8, <1>10
    <3>2. C[f[n]].address \in InRegions
      BY <1>1, <3>1
    <3> QED
      BY <1>1, <3>2 DEF Capture, Cand
  <2> QED
    BY <1>4, <1>9, <2>1
<1>12. t \in Seq(Cand) /\ Len(t) = k /\ DOMAIN t = 1..k
  <2>1. t \in Seq(Cand)
    BY <1>9, <1>11, SeqDef
  <2> QED
    BY <1>9, <1>11, <2>1, LenProperties
<1>13. Sorted(t)
  <2> SUFFICES ASSUME NEW p \in 1..k, NEW q \in 1..k, p < q PROVE t[p].address < t[q].address
    BY <1>12 DEF Sorted
  <2>1. f[p] < f[q] /\ f[p] \in DOMAIN C /\ f[q] \in DOMAIN C
    BY <1>1, <1>8, <1>9, <1>10
  <2> QED
    BY <1>1, <1>10, <2>1 DEF Sorted
<1>14. UpToDate(t)
  BY <1>10, <1>12 DEF UpToDate
<1>15. ASSUME NEW n \in DOMAIN t
       PROVE  \E m \in at..x : t[n].address = C[m].address /\ Kept(C[m])
  BY <1>3, <1>8, <1>10, <1>12
<1>16. ASSUME NEW m \in at..x, Kept(C[m]) PROVE Has(t, C[m].address)
  <2>1. PICK p \in 1..k : f[p] = m
    BY <1>2, <1>9, <1>16
  <2> QED
    BY <1>10, <1>12, <2>1 DEF Has
<1> QED
  BY <1>7, <1>12, <1>13, <1>14, <1>15, <1>16

(* A candidate of a word that is untouched has the word's value: "unchanged" *)
(* keeps it and no other filter does.                                      *)
LEMMA UntouchedKept ==
  ASSUME ScanInv, NEW n \in DOMAIN scan.candidates,
         scan.candidates[n].address \in past.untouched, scan.filter \in Filters
  PROVE  Kept(scan.candidates[n]) <=> scan.filter = "unchanged"
<1> DEFINE c == scan.candidates[n]
<1>1. c.previous = game.value[c.address]
  <2>1. UpToDate(scan.candidates)
    BY DEF ScanInv, Ordered
  <2>2. c = Capture(c.address)
    BY <2>1 DEF UpToDate
  <2>3. \A w : Capture(w).previous = game.value[w]
    BY DEF Capture
  <2> HIDE DEF c
  <2> QED
    BY <2>2, <2>3
<1>2. c.previous \in Int
  <2>1. scan.candidates \in Seq(Cand) /\ n \in 1..Len(scan.candidates)
    BY CandList DEF ScanInv, ScanShape
  <2>2. c \in Cand
    BY <2>1, CandList
  <2> QED
    BY <2>2, ScannerAssumption DEF Cand
<1> HIDE DEF c
<1>3. ~(c.previous < c.previous) /\ ~(c.previous > c.previous)
  BY <1>2
<1>4. Kept(c) <=> scan.filter = "unchanged"
  BY <1>1, <1>3 DEF Kept, Matches, Filters
<1> QED
  BY <1>4 DEF c

(* The candidates of a chunk go to those that were kept, or, of a chunk     *)
(* that cannot be read, nowhere; and the filter goes on behind them.       *)
LEMMA FilterChunkStep ==
  ASSUME ScanInv, FilterChunk
  PROVE  ScanInv'
<1> DEFINE i == scan.region
           C == scan.candidates
           F == scan.filtered
           at == scan.at
           x == Max(Batch(i))
           t == Found(at..x)
           G == IF Readable(i) THEN F \o t ELSE F
<1>1. /\ scan.pc = "read" /\ ScanShape /\ Ordered /\ Filtering /\ past.valid
      /\ UNCHANGED <<game, past>>
  BY DEF ScanInv, Ordered, FilterChunk
<1>2. /\ x \in Nat /\ at <= x /\ x <= Len(C) /\ Batch(i) = at..x
      /\ \A n \in at..x : i \in RegionsOf(C[n].address)
  BY <1>1, BatchIs
<1>3. /\ C \in Seq(Cand) /\ DOMAIN C = 1..Len(C) /\ Len(C) \in Nat
      /\ F \in Seq(Cand) /\ DOMAIN F = 1..Len(F) /\ Len(F) \in Nat
      /\ \A n \in 1..Len(C) : C[n].address \in Nat
      /\ at \in Nat /\ at > 0 /\ at <= Len(C) + 1 /\ Len(F) < at
      /\ Sorted(C) /\ Sorted(F) /\ UpToDate(F) /\ scan.filter \in Filters
      /\ \A n \in DOMAIN F : \E m \in 1..(at - 1) : F[n].address = C[m].address
  BY <1>1, CandList DEF ScanShape, Filtering, Ordered
<1>4. /\ t \in Seq(Cand) /\ Len(t) <= x - at + 1 /\ Sorted(t) /\ UpToDate(t)
      /\ \A n \in DOMAIN t : \E m \in at..x : t[n].address = C[m].address /\ Kept(C[m])
      /\ \A m \in at..x : Kept(C[m]) => Has(t, C[m].address)
  BY <1>1, <1>2, FoundIs
<1>5. scan' = [scan EXCEPT !.pc = "filter", !.at = x + 1, !.filtered = G]
  BY <1>2 DEF FilterChunk, Found, KeptOf
<1>6. \A m \in at..x : m \in 1..Len(C) /\ m \in DOMAIN C /\ m \in 1..x
  BY <1>2, <1>3
<1> HIDE DEF t, x, G
<1>7. /\ scan' = [ pc |-> scan.pc', kind |-> scan.kind', filter |-> scan.filter', at |-> scan.at',
              region |-> scan.region', range |-> scan.range', candidates |-> scan.candidates',
              filtered |-> scan.filtered', truncated |-> scan.truncated' ]
      /\ scan.pc' = "filter" /\ scan.at' = x + 1 /\ scan.filtered' = G
      /\ scan.filter' = scan.filter /\ Keeps
  BY <1>1, <1>5 DEF ScanShape, Keeps, Scans
<1>8. \A m \in DOMAIN F, n \in DOMAIN t : F[m].address < t[n].address
  <2> SUFFICES ASSUME NEW m \in DOMAIN F, NEW n \in DOMAIN t PROVE F[m].address < t[n].address
    OBVIOUS
  <2>1. PICK p \in 1..(at - 1) : F[m].address = C[p].address
    BY <1>3
  <2>2. PICK q \in at..x : t[n].address = C[q].address
    BY <1>4
  <2>3. p \in DOMAIN C /\ q \in DOMAIN C /\ p < q
    BY <1>2, <1>3, <1>6, <2>1, <2>2
  <2> QED
    BY <1>3, <2>1, <2>2, <2>3 DEF Sorted
<1>9. ASSUME NEW m \in at..x, C[m].address \in past.untouched
      PROVE  Kept(C[m]) <=> scan.filter = "unchanged"
  BY <1>3, <1>6, <1>9, UntouchedKept
<1>10. /\ F \o t \in Seq(Cand) /\ Len(F \o t) = Len(F) + Len(t)
       /\ Sorted(F \o t) /\ UpToDate(F \o t)
       /\ NoneOf(F) /\ NoneOf(t) => NoneOf(F \o t)
       /\ \A w : Has(F, w) \/ Has(t, w) => Has(F \o t, w)
       /\ \A n \in DOMAIN (F \o t) : \/ n \in DOMAIN F /\ (F \o t)[n] = F[n]
                                     \/ \E m \in DOMAIN t : (F \o t)[n] = t[m]
  <2> HIDE DEF F
  <2> QED
    BY <1>3, <1>4, <1>8, Joined
<1>11. \A m \in 1..(at - 1) : m \in 1..x
  BY <1>2, <1>3
<1>12. /\ G \in Seq(Cand) /\ Len(G) < x + 1 /\ Sorted(G) /\ UpToDate(G)
       /\ \A n \in DOMAIN G : \E m \in 1..x : G[n].address = C[m].address
       /\ \A w : Has(F, w) => Has(G, w)
  <2>1. CASE Readable(i)
    <3>1. G = F \o t
      BY <2>1 DEF G
    <3>2. Len(t) \in Nat
      BY <1>4, LenProperties
    <3>3. Len(F) + Len(t) < x + 1
      <4> HIDE DEF F, at
      <4> QED
        BY <1>2, <1>3, <1>4, <3>2
    <3>4. ASSUME NEW n \in DOMAIN (F \o t)
          PROVE  \E m \in 1..x : (F \o t)[n].address = C[m].address
      <4>1. CASE n \in DOMAIN F /\ (F \o t)[n] = F[n]
        BY <1>3, <1>11, <4>1
      <4>2. CASE \E m \in DOMAIN t : (F \o t)[n] = t[m]
        BY <1>4, <1>6, <4>2
      <4> QED
        BY <1>10, <4>1, <4>2
    <3> HIDE DEF F, C
    <3> QED
      BY <1>10, <3>1, <3>3, <3>4
  <2>2. CASE ~Readable(i)
    <3>1. G = F
      BY <2>2 DEF G
    <3>2. Len(F) < x + 1
      BY <1>2, <1>3
    <3> QED
      BY <1>3, <1>11, <3>1, <3>2
  <2> QED
    BY <2>1, <2>2
<1>13. ASSUME Claimed, NEW w \in past.untouched, Scannable(w)
       PROVE  Has(G, w) \/ \E n \in (x + 1)..Len(C) : C[n] = Capture(w)
  <2>1. CASE Has(F, w)
    BY <1>12, <2>1
  <2>2. CASE \E n \in at..Len(C) : C[n] = Capture(w)
    <3>1. PICK n \in at..Len(C) : C[n] = Capture(w)
      BY <2>2
    <3>2. n > x \/ n \in at..x
      BY <1>2, <1>3
    <3>3. CASE n > x
      <4>1. n \in (x + 1)..Len(C)
        BY <1>2, <1>3, <3>3
      <4> QED
        BY <3>1, <4>1
    <3>4. CASE n \in at..x
      <4>1. C[n].address = w
        BY <3>1 DEF Capture
      <4>2. PICK j \in RegionsOf(w) : Writable(j)
        BY <1>13 DEF Scannable
      <4>3. w \in Nat /\ i \in RegionsOf(w)
        BY <1>2, <1>3, <1>6, <3>4, <4>1
      <4>4. i = j
        BY <4>2, <4>3, OneRegion
      <4>5. Readable(i)
        BY <4>2, <4>4 DEF Readable
      <4>6. Kept(C[n])
        BY <1>1, <1>9, <1>13, <3>4, <4>1 DEF Claimed, Filtering
      <4>7. Has(t, w)
        BY <1>4, <3>4, <4>1, <4>6
      <4> QED
        BY <1>10, <4>5, <4>7 DEF G
    <3> QED
      BY <3>2, <3>3, <3>4
  <2> QED
    BY <1>1, <1>13, <2>1, <2>2 DEF Filtering
<1>14. ASSUME ~past.onlyUnchanged PROVE NoneOf(G)
  <2>1. NoneOf(F) /\ (scan.filter = "unchanged" => NoneOf(C))
    BY <1>1, <1>14 DEF Filtering
  <2>2. NoneOf(t)
    <3> SUFFICES ASSUME NEW n \in DOMAIN t, t[n].address \in past.untouched PROVE FALSE
      BY DEF NoneOf
    <3>1. PICK m \in at..x : t[n].address = C[m].address /\ Kept(C[m])
      BY <1>4
    <3>2. scan.filter = "unchanged"
      BY <1>9, <3>1
    <3> QED
      BY <1>6, <2>1, <3>1, <3>2 DEF NoneOf
  <2> QED
    BY <1>10, <2>1, <2>2 DEF G
<1>15. /\ \A s : /\ UpToDate(s)' = UpToDate(s) /\ NoneOf(s)' = NoneOf(s)
                 /\ Sorted(s)' = Sorted(s) /\ InRange(s)' = InRange(s)
                 /\ \A w : Has(s, w)' = Has(s, w)
       /\ \A w : Scannable(w)' = Scannable(w) /\ Capture(w)' = Capture(w)
       /\ Claimed' = Claimed
  BY <1>7, KeepsSame
<1>16. ScanShape' /\ Ordered'
  <2>1. ScanShape'
    BY <1>1, <1>7, <1>12 DEF ScanShape, Keeps, Scans
  <2> QED
    BY <1>1, <1>7, <1>15, <2>1 DEF Ordered, Keeps, Scans
<1>17. x + 1 \in Nat \ {0} /\ x + 1 <= Len(C) + 1 /\ (x + 1) - 1 = x
  BY <1>2, <1>3
<1>18. past.onlyUnchanged => scan.filter = "unchanged"
  BY <1>1 DEF Filtering
<1>19. ~past.onlyUnchanged /\ scan.filter = "unchanged" => NoneOf(C)
  BY <1>1 DEF Filtering
<1>20. Filtering'
  <2>1. /\ scan.candidates' = C /\ past' = past
        /\ scan.pc' = "filter" /\ scan.at' = x + 1 /\ scan.filtered' = G
        /\ scan.filter' = scan.filter
    BY <1>7 DEF Keeps, Scans
  <2> HIDE DEF C
  <2> QED
    BY <1>3, <1>12, <1>13, <1>14, <1>15, <1>17, <1>18, <1>19, <2>1 DEF Filtering
<1> QED
  BY <1>7, <1>16, <1>20 DEF ScanInv

-----------------------------------------------------------------------------
(* Before the first command nothing is claimed. *)
LEMMA ScanStarts ==
  ASSUME ScanInit
  PROVE  ScanInv
<1>1. /\ <<>> \in Seq(Cand) /\ Len(<<>>) = 0 /\ DOMAIN <<>> = {}
  BY EmptySeq
<1>2. ScanShape
  BY <1>1, WordNumbers DEF ScanInit, ScanShape, IdleScan, NewPast
<1>3. Ordered
  BY <1>1, WordNumbers DEF ScanInit, Ordered, IdleScan, NewPast, UpToDate
<1>4. Resting
  BY DEF ScanInit, Resting, NewPast
<1> QED
  BY <1>2, <1>3, <1>4 DEF ScanInit, IdleScan, ScanInv

(* Every step keeps the invariant. *)
LEMMA ScanStep ==
  ASSUME ScanInv, [ScanNext]_scanVars
  PROVE  ScanInv'
<1>1. CASE GameWrites \/ GameProtects
  BY <1>1, GameStep
<1>2. CASE StartScan
  BY <1>2, StartScanStep
<1>3. CASE StartRegion
  BY <1>3, StartRegionStep
<1>4. CASE StartChunk
  BY <1>4, StartChunkStep
<1>5. CASE StartFilter
  BY <1>5, StartFilterStep
<1>6. CASE FilterRegion
  BY <1>6, FilterRegionStep
<1>7. CASE FilterChunk
  BY <1>7, FilterChunkStep
<1>8. CASE UNCHANGED scanVars
  <2>1. Runs /\ ScanShape'
    BY <1>8 DEF scanVars, Runs, ScanInv, ScanShape
  <2> QED
    BY <2>1, RunsKeeps
<1> QED
  BY <1>1, <1>2, <1>3, <1>4, <1>5, <1>6, <1>7, <1>8 DEF ScanNext

(* The scanner's inductive invariant, whatever the game does meanwhile.    *)
LEMMA ScanInvariant == ScanSpec => []ScanInv
BY ScanStarts, ScanStep, PTL DEF ScanSpec

(* The invariant says what a reader of the candidates relies on. *)
LEMMA ScanInvMeans ==
  ASSUME ScanInv
  PROVE  ScanKeepsMatches /\ ScanTypeOK
<1> DEFINE C == scan.candidates
<1>1. /\ C \in Seq(Cand) /\ DOMAIN C = 1..Len(C)
      /\ \A n \in 1..Len(C) : C[n] \in Cand
      /\ scan.filtered \in Seq(Cand) /\ DOMAIN scan.filtered = 1..Len(scan.filtered)
      /\ \A n \in 1..Len(scan.filtered) : scan.filtered[n] \in Cand
  BY CandList DEF ScanInv, ScanShape
<1>2. Cand \subseteq [address : Words, previous : Values]
  BY WordsInRegions DEF Cand
<1>3. ScanTypeOK
  <2>1. Range(C) \subseteq Cand /\ Range(scan.filtered) \subseteq Cand
    BY <1>1 DEF Range
  <2>2. scan.pc \in {"idle", "start", "chunk", "filter", "read"} /\ Len(C) <= CandidateLimit
    BY DEF ScanInv, ScanShape, Ordered
  <2> QED
    BY <1>2, <2>1, <2>2 DEF ScanTypeOK
<1>4. ASSUME scan.pc = "idle", past.valid
      PROVE  /\ Sorted(C) /\ InRange(C)
             /\ Claimed => \A w \in past.untouched : Scannable(w) => Has(C, w)
             /\ ~past.onlyUnchanged => NoneOf(C)
  BY <1>4 DEF ScanInv, Ordered, Resting
<1>5. \A w : Has(C, w) => Capture(w) \in Range(C)
  BY DEF Has, Range
<1>6. \A a \in Addresses : \E n \in DOMAIN C : a = C[n].address
  BY DEF Addresses, Range
<1>7. ASSUME scan.pc = "idle", past.valid
      PROVE  /\ \A m, n \in DOMAIN C : m < n => C[m].address < C[n].address
             /\ \A a \in Addresses : a >= scan.range.low /\ a + Word <= scan.range.high
             /\ past.onlyUnchanged /\ ~scan.truncated /\ scan.range.low % Word = 0 =>
                  \A w \in past.untouched : Scannable(w) => Capture(w) \in Range(C)
             /\ ~past.onlyUnchanged => Addresses \cap past.untouched = {}
  <2>1. \A m, n \in DOMAIN C : m < n => C[m].address < C[n].address
    BY <1>4, <1>7 DEF Sorted
  <2>2. ASSUME NEW a \in Addresses PROVE a >= scan.range.low /\ a + Word <= scan.range.high
    <3>1. PICK n \in DOMAIN C : a = C[n].address
      BY <1>6
    <3>2. scan.range.low <= a /\ a + Word <= scan.range.high
      BY <1>4, <1>7, <3>1 DEF InRange
    <3> QED
      BY <3>2
  <2>3. ASSUME ~past.onlyUnchanged PROVE Addresses \cap past.untouched = {}
    <3>1. NoneOf(C)
      BY <1>4, <1>7, <2>3
    <3> QED
      BY <1>6, <3>1 DEF NoneOf
  <2> QED
    BY <1>4, <1>5, <1>7, <2>1, <2>2, <2>3 DEF Claimed
<1>8. ScanKeepsMatches
  BY <1>7 DEF ScanKeepsMatches
<1> QED
  BY <1>3, <1>8

(* Between commands the candidates are in order within the range, and every *)
(* word the game left alone that could be scanned is one of them for as     *)
(* long as only "unchanged" was asked for, and none is after another filter *)
(* (external_tool.cpp:322-462, 464-556, 635-677).                          *)
THEOREM ScansKeepMatches == ScanSpec => []ScanKeepsMatches
BY ScanInvariant, ScanInvMeans, PTL

(* The candidates stay within their limit, each a word of the game with a   *)
(* value it had (external_tool.cpp:430-452).                               *)
THEOREM ScanTypes == ScanSpec => []ScanTypeOK
BY ScanInvariant, ScanInvMeans, PTL

-----------------------------------------------------------------------------
(* The offset dumper. *)

(* What the documentation says of a name, and what the code resolves. *)

(* The signature files, the built-in signatures and what comes of both are *)
(* lists of candidates.                                                    *)
LEMMA SignatureLists ==
  ASSUME NEW file \in Files \cup {<<>>}
  PROVE  /\ DOMAIN file = 1..Len(file) /\ Len(file) \in Nat
         /\ DOMAIN BuiltIn = 1..Len(BuiltIn) /\ Len(BuiltIn) \in Nat
         /\ \A i \in DOMAIN file : file[i].pattern \in DOMAIN Results
         /\ \A i \in DOMAIN BuiltIn : BuiltIn[i].pattern \in DOMAIN Results
         /\ DOMAIN Prepended(file) = 1..(Len(file) + Len(BuiltIn))
         /\ \A i \in 1..(Len(file) + Len(BuiltIn)) :
              Prepended(file)[i] = IF i <= Len(file) THEN file[i] ELSE BuiltIn[i - Len(file)]
<1> DEFINE C == Range(file) \cup Range(BuiltIn)
<1>1. file \in Seq(Range(file)) /\ \A i \in DOMAIN file : file[i].pattern \in DOMAIN Results
  <2>1. CASE file = <<>>
    BY <2>1
  <2>2. CASE file \in Files
    BY <2>2, DumperAssumption
  <2> QED
    BY <2>1, <2>2
<1>2. /\ BuiltIn \in Seq(Range(BuiltIn))
      /\ \A i \in DOMAIN BuiltIn : BuiltIn[i].pattern \in DOMAIN Results
  BY DumperAssumption
<1>3. file \in Seq(C) /\ BuiltIn \in Seq(C)
  <2>1. Range(file) \subseteq C /\ Range(BuiltIn) \subseteq C
    OBVIOUS
  <2> HIDE DEF C
  <2> QED
    BY <1>1, <1>2, <2>1, SeqMonotonic
<1> HIDE DEF C
<1>4. /\ file \o BuiltIn \in Seq(C) /\ Len(file \o BuiltIn) = Len(file) + Len(BuiltIn)
      /\ \A i \in 1..(Len(file) + Len(BuiltIn)) : (file \o BuiltIn)[i] =
           IF i <= Len(file) THEN file[i] ELSE BuiltIn[i - Len(file)]
  BY <1>3, ConcatProperties
<1>5. /\ DOMAIN file = 1..Len(file) /\ Len(file) \in Nat
      /\ DOMAIN BuiltIn = 1..Len(BuiltIn) /\ Len(BuiltIn) \in Nat
  BY <1>3, LenProperties
<1>6. DOMAIN (file \o BuiltIn) = 1..(Len(file) + Len(BuiltIn))
  BY <1>4, LenProperties
<1> QED
  BY <1>1, <1>2, <1>4, <1>5, <1>6 DEF Prepended

(* The first usable candidate of a list, when there is one. *)
LEMMA FirstIsLeast ==
  ASSUME NEW s, NEW n \in Nat, DOMAIN s = 1..n, NEW o
  PROVE  /\ Usable(s, o) = {} => FirstUsable(s, o) = {}
         /\ Usable(s, o) # {} => /\ FirstUsable(s, o) = {Min(Usable(s, o))}
                                 /\ Min(Usable(s, o)) \in Usable(s, o)
<1>1. Usable(s, o) = { i \in DOMAIN s : s[i].offset = o /\ Plausible(s[i]) }
  BY DEF Usable, Candidates
<1>2. CASE Usable(s, o) = {}
  BY <1>1, <1>2 DEF FirstUsable
<1>3. CASE Usable(s, o) # {}
  <2>1. Usable(s, o) \in SUBSET Nat
    BY <1>1
  <2>2. /\ Min(Usable(s, o)) \in Usable(s, o)
        /\ \A x \in Usable(s, o) : Min(Usable(s, o)) <= x
    BY <1>3, <2>1, NatMin
  <2>3. PICK m \in Usable(s, o) : m = Min(Usable(s, o)) /\ \A x \in Usable(s, o) : m <= x
    BY <2>2
  <2>4. m \in FirstUsable(s, o)
    <3>1. ASSUME NEW j \in 1..(m - 1), s[j].offset = o PROVE ~Plausible(s[j])
      <4>1. m \in 1..n
        BY <1>1, <2>3
      <4>2. j \in DOMAIN s /\ ~(m <= j)
        BY <4>1
      <4> QED
        BY <1>1, <2>3, <3>1, <4>2
    <3> QED
      BY <1>1, <2>3, <3>1 DEF FirstUsable
  <2>5. ASSUME NEW i \in FirstUsable(s, o) PROVE i = m
    <3>1. /\ i \in Usable(s, o) /\ i \in 1..n
          /\ \A j \in 1..(i - 1) : s[j].offset = o => ~Plausible(s[j])
      BY <1>1 DEF FirstUsable
    <3>2. m <= i /\ m \in 1..n /\ s[m].offset = o /\ Plausible(s[m])
      BY <1>1, <2>3, <3>1
    <3>3. ~(m \in 1..(i - 1))
      BY <3>1, <3>2
    <3> QED
      BY <3>1, <3>2, <3>3
  <2> QED
    BY <1>3, <2>2, <2>3, <2>4, <2>5
<1> QED
  BY <1>2, <1>3

(* The target has, of every pattern, a value or none. *)
FoundOK == \A p \in DOMAIN Results : target.found[p] \in Results[p] \cup {NoValue}

(* Of a list that begins with the file's candidates and goes on with the   *)
(* built-in ones, the first usable candidate is the documented one.        *)
LEMMA ResolvesDocumented ==
  ASSUME dump.file \in Files \cup {<<>>}, dump.signatures = Prepended(dump.file), FoundOK,
         NEW o
  PROVE  \/ Resolve(dump.signatures, o) = NoValue /\ Documented(o) = {}
         \/ /\ Resolve(dump.signatures, o) \in Nat /\ Resolve(dump.signatures, o) # NoValue
            /\ Documented(o) = {Resolve(dump.signatures, o)}
            /\ Candidates(dump.signatures, o) # {}
<1> DEFINE file == dump.file
           all == dump.signatures
           F == Len(file)
           B == Len(BuiltIn)
<1>1. /\ DOMAIN file = 1..F /\ F \in Nat /\ DOMAIN BuiltIn = 1..B /\ B \in Nat
      /\ \A i \in DOMAIN file : file[i].pattern \in DOMAIN Results
      /\ \A i \in DOMAIN BuiltIn : BuiltIn[i].pattern \in DOMAIN Results
      /\ DOMAIN all = 1..(F + B)
      /\ \A i \in 1..(F + B) : all[i] = IF i <= F THEN file[i] ELSE BuiltIn[i - F]
  BY SignatureLists
<1> HIDE DEF file, all, F, B
<1>2. /\ Usable(file, o) = { i \in 1..F : file[i].offset = o /\ Plausible(file[i]) }
      /\ Usable(BuiltIn, o) = { i \in 1..B : BuiltIn[i].offset = o /\ Plausible(BuiltIn[i]) }
      /\ Usable(all, o) = { i \in 1..(F + B) : all[i].offset = o /\ Plausible(all[i]) }
  BY <1>1 DEF Usable, Candidates
<1>3. ASSUME NEW s, NEW i \in DOMAIN s, s[i].pattern \in DOMAIN Results, Plausible(s[i])
      PROVE  target.found[s[i].pattern] \in Nat /\ target.found[s[i].pattern] # NoValue
  <2>1. /\ target.found[s[i].pattern] # NoValue
        /\ target.found[s[i].pattern] \in Results[s[i].pattern]
    BY <1>3 DEF Plausible, FoundOK
  <2> QED
    BY <1>3, <2>1, DumperAssumption
<1>4. ASSUME Usable(all, o) # {}
      PROVE  Min(Usable(all, o)) \in Usable(all, o) /\ FirstUsable(all, o) = {Min(Usable(all, o))}
  BY <1>1, <1>4, FirstIsLeast
<1>5. CASE Usable(file, o) # {}
  <2>1. /\ FirstUsable(file, o) = {Min(Usable(file, o))}
        /\ Min(Usable(file, o)) \in Usable(file, o)
    BY <1>1, <1>5, FirstIsLeast
  <2>2. PICK m \in Usable(file, o) : m = Min(Usable(file, o)) /\ m \in FirstUsable(file, o)
    BY <2>1
  <2>3. m \in 1..F /\ file[m].offset = o /\ Plausible(file[m])
        /\ \A j \in 1..(m - 1) : file[j].offset = o => ~Plausible(file[j])
    BY <1>2, <2>2 DEF FirstUsable
  <2>4. m \in 1..(F + B) /\ all[m] = file[m]
    BY <1>1, <2>3
  <2>5. m \in Usable(all, o)
    BY <1>2, <2>3, <2>4
  <2>6. m \in FirstUsable(all, o)
    <3>1. ASSUME NEW j \in 1..(m - 1) PROVE all[j] = file[j]
      BY <1>1, <2>3
    <3> QED
      BY <1>1, <2>3, <2>4, <3>1 DEF FirstUsable
  <2>7. m = Min(Usable(all, o))
    BY <1>4, <2>5, <2>6
  <2>8. Resolve(all, o) = target.found[file[m].pattern]
    BY <2>4, <2>5, <2>7 DEF Resolve
  <2>9. Documented(o) = {target.found[file[m].pattern]}
    BY <2>1, <2>2 DEF Documented, file
  <2>10. Candidates(all, o) # {}
    BY <2>5 DEF Usable
  <2> QED
    BY <1>1, <1>3, <2>3, <2>8, <2>9, <2>10 DEF all
<1>6. CASE Usable(file, o) = {} /\ Usable(BuiltIn, o) # {}
  <2>1. /\ FirstUsable(BuiltIn, o) = {Min(Usable(BuiltIn, o))}
        /\ Min(Usable(BuiltIn, o)) \in Usable(BuiltIn, o)
    BY <1>1, <1>6, FirstIsLeast
  <2>2. PICK m \in Usable(BuiltIn, o) :
          m = Min(Usable(BuiltIn, o)) /\ m \in FirstUsable(BuiltIn, o)
    BY <2>1
  <2>3. m \in 1..B /\ BuiltIn[m].offset = o /\ Plausible(BuiltIn[m])
        /\ \A j \in 1..(m - 1) : BuiltIn[j].offset = o => ~Plausible(BuiltIn[j])
    BY <1>2, <2>2 DEF FirstUsable
  <2>4. F + m \in 1..(F + B) /\ all[F + m] = BuiltIn[m]
    <3>1. F + m \in 1..(F + B) /\ ~(F + m <= F) /\ (F + m) - F = m
      BY <1>1, <2>3
    <3> QED
      BY <1>1, <3>1
  <2>5. F + m \in Usable(all, o)
    BY <1>2, <2>3, <2>4
  <2>6. F + m \in FirstUsable(all, o)
    <3>1. ASSUME NEW j \in 1..((F + m) - 1), all[j].offset = o PROVE ~Plausible(all[j])
      <4>1. CASE j <= F
        <5>1. j \in 1..F /\ all[j] = file[j]
          BY <1>1, <2>3, <4>1
        <5> QED
          BY <1>2, <1>6, <3>1, <5>1
      <4>2. CASE j > F
        <5>1. j - F \in 1..(m - 1) /\ j \in 1..(F + B) /\ ~(j <= F)
          BY <1>1, <2>3, <4>2
        <5>2. all[j] = BuiltIn[j - F]
          BY <1>1, <5>1
        <5> QED
          BY <2>3, <3>1, <5>1, <5>2
      <4>3. j <= F \/ j > F
        BY <1>1
      <4> QED
        BY <4>1, <4>2, <4>3
    <3> QED
      BY <1>1, <2>3, <2>4, <3>1 DEF FirstUsable
  <2>7. F + m = Min(Usable(all, o))
    BY <1>4, <2>5, <2>6
  <2>8. Resolve(all, o) = target.found[BuiltIn[m].pattern]
    BY <2>4, <2>5, <2>7 DEF Resolve
  <2>9. FirstUsable(file, o) = {}
    BY <1>1, <1>6, FirstIsLeast
  <2>10. Documented(o) = {target.found[BuiltIn[m].pattern]}
    BY <2>1, <2>2, <2>9 DEF Documented, file
  <2>11. Candidates(all, o) # {}
    BY <2>5 DEF Usable
  <2> QED
    BY <1>1, <1>3, <2>3, <2>8, <2>10, <2>11 DEF all
<1>7. CASE Usable(file, o) = {} /\ Usable(BuiltIn, o) = {}
  <2>1. FirstUsable(file, o) = {} /\ FirstUsable(BuiltIn, o) = {}
    BY <1>1, <1>7, FirstIsLeast
  <2>2. Documented(o) = {}
    BY <2>1 DEF Documented, file
  <2>3. ASSUME NEW i \in Usable(all, o) PROVE FALSE
    <3>1. i \in 1..(F + B) /\ all[i].offset = o /\ Plausible(all[i])
      BY <1>2
    <3>2. CASE i <= F
      <4>1. i \in 1..F /\ all[i] = file[i]
        BY <1>1, <3>1, <3>2
      <4> QED
        BY <1>2, <1>7, <3>1, <4>1
    <3>3. CASE i > F
      <4>1. i - F \in 1..B /\ ~(i <= F)
        BY <1>1, <3>1, <3>3
      <4>2. all[i] = BuiltIn[i - F]
        BY <1>1, <3>1, <4>1
      <4> QED
        BY <1>2, <1>7, <3>1, <4>1, <4>2
    <3>4. i <= F \/ i > F
      BY <1>1, <3>1
    <3> QED
      BY <3>2, <3>3, <3>4
  <2>4. Resolve(all, o) = NoValue
    BY <2>3 DEF Resolve
  <2> QED
    BY <2>2, <2>4 DEF all
<1> QED
  BY <1>5, <1>6, <1>7

-----------------------------------------------------------------------------
(* What the groups publish. *)

(* What the group at k publishes as o. *)
Writes(o, k) ==
  IF Derived(o, k) # {} THEN Derived(o, k)
  ELSE IF Alphabetical[k] = o THEN Own(o) ELSE {}

(* Of the groups before n, the last one that published o gave its value;   *)
(* what none published is not there.                                       *)
LastWritten(offsets, n) ==
  \A o :
    IF o \in DOMAIN offsets
    THEN \E k \in 1..(n - 1) : /\ offsets[o] \in Writes(o, k)
                               /\ \A j \in (k + 1)..(n - 1) : Writes(o, j) = {}
    ELSE \A k \in 1..(n - 1) : Writes(o, k) = {}

(* The groups are numbered. *)
LEMMA Groups ==
  /\ DOMAIN Alphabetical = 1..Len(Alphabetical) /\ Len(Alphabetical) \in Nat
  /\ \A i, j \in DOMAIN Alphabetical : Alphabetical[i] = Alphabetical[j] => i = j
<1>1. Alphabetical \in Seq(Range(Alphabetical))
  BY DumperAssumption
<1> QED
  BY <1>1, LenProperties, DumperAssumption

(* When all groups are done, the last one that published an offset is the  *)
(* last that derived it, or else its own, or else the last one before.     *)
LEMMA LastWrittenExpected ==
  ASSUME NEW offsets, NEW n \in DOMAIN Alphabetical,
         LastWritten(offsets, Len(Alphabetical) + 1)
  PROVE  LET o == Alphabetical[n]
         IN IF o \in DOMAIN offsets THEN offsets[o] \in Expected(o, n)
            ELSE Expected(o, n) = {}
<1> DEFINE o == Alphabetical[n]
           N == Len(Alphabetical)
           later == DerivedIn(o, n..N)
           earlier == DerivedIn(o, 1..(n - 1))
<1>1. /\ DOMAIN Alphabetical = 1..N /\ N \in Nat /\ n \in 1..N
      /\ \A k \in 1..N : k # n => Alphabetical[k] # o
  BY Groups
<1>2. Expected(o, n) = IF later # {} THEN later ELSE IF Own(o) # {} THEN Own(o) ELSE earlier
  BY DEF Expected
<1>3. /\ \A x : x \in later <=> \E k \in n..N : x \in Derived(o, k)
      /\ \A x : x \in earlier <=> \E k \in 1..(n - 1) : x \in Derived(o, k)
  BY DEF DerivedIn
<1>4. /\ Writes(o, n) = IF Derived(o, n) # {} THEN Derived(o, n) ELSE Own(o)
      /\ \A k \in 1..N : k # n => Writes(o, k) = Derived(o, k)
  BY <1>1 DEF Writes
<1>5. IF o \in DOMAIN offsets
      THEN \E k \in 1..((N + 1) - 1) : /\ offsets[o] \in Writes(o, k)
                                       /\ \A j \in (k + 1)..((N + 1) - 1) : Writes(o, j) = {}
      ELSE \A k \in 1..((N + 1) - 1) : Writes(o, k) = {}
  BY DEF LastWritten
<1>6. (N + 1) - 1 = N
  BY <1>1
<1> SUFFICES IF o \in DOMAIN offsets THEN offsets[o] \in Expected(o, n) ELSE Expected(o, n) = {}
  OBVIOUS
<1> HIDE DEF o, N, later, earlier
<1>7. CASE o \in DOMAIN offsets
  <2>1. PICK k \in 1..N : offsets[o] \in Writes(o, k) /\ \A j \in (k + 1)..N : Writes(o, j) = {}
    BY <1>5, <1>6, <1>7
  <2>2. CASE k > n
    <3>1. offsets[o] \in Derived(o, k) /\ k \in n..N
      BY <1>1, <1>4, <2>1, <2>2
    <3> QED
      BY <1>2, <1>3, <1>7, <3>1
  <2>3. CASE k = n
    <3>1. CASE Derived(o, n) # {}
      <4>1. offsets[o] \in Derived(o, n) /\ n \in n..N
        BY <1>1, <1>4, <2>1, <2>3, <3>1
      <4> QED
        BY <1>2, <1>3, <1>7, <4>1
    <3>2. CASE Derived(o, n) = {}
      <4>1. offsets[o] \in Own(o)
        BY <1>4, <2>1, <2>3, <3>2
      <4>2. ASSUME NEW j \in n..N PROVE Derived(o, j) = {}
        <5>1. CASE j = n
          BY <3>2, <5>1
        <5>2. CASE j # n
          <6>1. j \in (k + 1)..N /\ j \in 1..N
            BY <1>1, <2>3, <5>2
          <6> QED
            BY <1>4, <2>1, <5>2, <6>1
        <5> QED
          BY <5>1, <5>2
      <4>3. later = {}
        BY <1>3, <4>2
      <4> QED
        BY <1>2, <1>7, <4>1, <4>3
    <3> QED
      BY <3>1, <3>2
  <2>4. CASE k < n
    <3>1. ASSUME NEW j \in n..N PROVE Writes(o, j) = {} /\ j \in 1..N
      <4>1. j \in (k + 1)..N /\ j \in 1..N
        BY <1>1, <2>1, <2>4
      <4> QED
        BY <2>1, <4>1
    <3>2. Derived(o, n) = {} /\ Own(o) = {}
      BY <1>1, <1>4, <3>1
    <3>3. ASSUME NEW j \in n..N PROVE Derived(o, j) = {}
      BY <1>4, <3>1, <3>2
    <3>4. later = {}
      BY <1>3, <3>3
    <3>5. offsets[o] \in Derived(o, k) /\ k \in 1..(n - 1)
      BY <1>1, <1>4, <2>1, <2>4
    <3> QED
      BY <1>2, <1>3, <1>7, <3>2, <3>4, <3>5
  <2>5. k > n \/ k = n \/ k < n
    BY <1>1, <2>1
  <2> QED
    BY <2>2, <2>3, <2>4, <2>5
<1>8. CASE o \notin DOMAIN offsets
  <2>1. \A k \in 1..N : Writes(o, k) = {}
    BY <1>5, <1>6, <1>8
  <2>2. Derived(o, n) = {} /\ Own(o) = {}
    BY <1>1, <1>4, <2>1
  <2>3. \A k \in 1..N : Derived(o, k) = {}
    BY <1>4, <2>1, <2>2
  <2>4. later = {} /\ earlier = {}
    <3>1. \A k \in n..N : k \in 1..N
      BY <1>1
    <3>2. \A k \in 1..(n - 1) : k \in 1..N
      BY <1>1
    <3> QED
      BY <1>3, <2>3, <3>1, <3>2
  <2> QED
    BY <1>2, <1>8, <2>2, <2>4
<1> QED
  BY <1>7, <1>8

(* Every name that can be skipped has a group that is done. *)
SkippedBefore(skipped, n) ==
  \A o \in skipped : \E k \in 1..(n - 1) : k \in DOMAIN Alphabetical /\ o = Alphabetical[k]

(* The dumper's state: signatures of the file and built in, images of the  *)
(* modules of the offsets, offsets that are numbers.                       *)
Listed ==
  /\ dump.file \in Files \cup {<<>>}
  /\ dump.pc # "configure" /\ dump.pc # "failed" => dump.signatures = Prepended(dump.file)
DumpShape ==
  /\ dump = [ pc |-> dump.pc, file |-> dump.file, signatures |-> dump.signatures,
              images |-> dump.images, at |-> dump.at, seen |-> dump.seen,
              module |-> dump.module, next |-> dump.next, buttons |-> dump.buttons,
              interfaces |-> dump.interfaces, offsets |-> dump.offsets,
              schemas |-> dump.schemas, skipped |-> dump.skipped,
              rejected |-> dump.rejected, info |-> dump.info ]
  /\ target = [runs |-> target.runs, found |-> target.found, list |-> target.list]
  /\ dump.pc \in Stages
  /\ dump.next \in 1..(Len(Alphabetical) + 1)
  /\ dump.offsets = [o \in DOMAIN dump.offsets |-> dump.offsets[o]]
Early == {"configure", "open", "buttons", "button", "interfaces", "interface"}
Late == {"schemas", "scope", "output", "done"}

(* The walk of the buttons leads out of what it saw only to where it is.   *)
Walked ==
  /\ dump.pc \in {"configure", "open", "buttons"} => dump.seen = {}
  /\ dump.pc = "button" => \A n \in dump.seen : target.list[n] \in dump.seen \cup {dump.at}
  /\ \A n \in dump.buttons : target.list[n] \in dump.buttons \cup {0}

(* Before the offsets nothing is published, at each group the last groups  *)
(* that published count, and after all of them what was not rejected stays. *)
Grouped ==
  /\ SkippedBefore(dump.skipped, dump.next)
  /\ dump.pc \in Early => dump.next = 1 /\ dump.offsets = <<>> /\ dump.skipped = {}
  /\ dump.pc = "offsets" => LastWritten(dump.offsets, dump.next)
  /\ dump.pc \in Late =>
       \A n \in DOMAIN Alphabetical :
         LET o == Alphabetical[n]
         IN IF o \in DOMAIN dump.offsets THEN dump.offsets[o] \in Expected(o, n)
            ELSE Expected(o, n) = {} \/ o \in dump.rejected
DumpInv == DumpShape /\ FoundOK /\ Listed /\ Walked /\ Grouped /\ DumpTypeOK

(* What is resolved, documented and published depends on the signatures    *)
(* and on what the patterns found, and on what was skipped.                *)
Settled ==
  /\ dump.file' = dump.file /\ dump.signatures' = dump.signatures
  /\ target.found' = target.found

(* What the game holds decides what the documents say of an offset. *)
LEMMA SettledDocumented ==
  ASSUME Settled
  PROVE  \A o : Documented(o)' = Documented(o)
BY DEF Settled, Documented, FirstUsable, Plausible

(* And what another offset derives, while that one keeps its own value. *)
LEMMA SettledDerived ==
  ASSUME Settled, NEW k, Own(Alphabetical[k])' = Own(Alphabetical[k])
  PROVE  \A o : Derived(o, k)' = Derived(o, k) /\ Writes(o, k)' = Writes(o, k)
<1> SUFFICES ASSUME NEW o
             PROVE  Derived(o, k)' = Derived(o, k) /\ Writes(o, k)' = Writes(o, k)
  OBVIOUS
<1> DEFINE g == Alphabetical[k]
           callback == Callback(dump.signatures, g)
<1>1. /\ callback' = callback
      /\ (Candidates(dump.signatures, g) # {})' = (Candidates(dump.signatures, g) # {})
  BY DEF Settled, Callback, Candidates
<1>2. Documented(ExtraOf(g, callback))' = Documented(ExtraOf(g, callback))
  BY <1>1, SettledDocumented DEF ExtraOf
<1>3. Derived(o, k)' = Derived(o, k)
  BY <1>1, <1>2 DEF Derived, DerivedOf, ConfiguredOf
<1> QED
  BY <1>3 DEF Writes

(* And, of the same offsets skipped, what is expected of every offset. *)
LEMMA SettledExpected ==
  ASSUME Settled, dump.skipped' = dump.skipped
  PROVE  /\ \A o, k : Derived(o, k)' = Derived(o, k) /\ Writes(o, k)' = Writes(o, k)
         /\ \A o, n : Expected(o, n)' = Expected(o, n)
<1>1. \A o : Own(o)' = Own(o)
  BY SettledDocumented DEF Own
<1>2. \A o, k : Derived(o, k)' = Derived(o, k) /\ Writes(o, k)' = Writes(o, k)
  BY <1>1, SettledDerived
<1>3. \A o, n : DerivedIn(o, n)' = DerivedIn(o, n)
  BY <1>2 DEF DerivedIn
<1> QED
  BY <1>1, <1>2, <1>3 DEF Expected

(* A step that leaves the published offsets alone. *)
Quiet ==
  /\ Settled /\ dump.skipped' = dump.skipped /\ dump.next' = dump.next
  /\ dump.offsets' = dump.offsets /\ dump.images' = dump.images
  /\ dump.rejected' = dump.rejected
  /\ \/ dump.pc' = dump.pc
     \/ dump.pc \in Early \ {"configure"} /\ dump.pc' \in Early \cup {"offsets", "failed"}
     \/ dump.pc \in Late /\ dump.pc' \in Late \cup {"failed"}

(* Such a step keeps what holds of the lists and the groups. *)
LEMMA QuietStep ==
  ASSUME DumpInv, Quiet
  PROVE  FoundOK' /\ Listed' /\ Grouped' /\ DumpTypeOK'
<1>1. FoundOK'
  BY DEF DumpInv, FoundOK, Quiet, Settled
<1>2. Listed'
  BY DEF DumpInv, Listed, Quiet, Settled, Early, Late
<1>3. DumpTypeOK'
  <2>1. dump.pc' \in Stages
    BY DEF DumpInv, DumpTypeOK, Quiet, Early, Late, Stages
  <2> QED
    BY <2>1 DEF DumpInv, DumpTypeOK, Quiet
<1>4. \A o, k : Writes(o, k)' = Writes(o, k)
  BY SettledExpected DEF Quiet
<1>5. \A o, n : Expected(o, n)' = Expected(o, n)
  BY SettledExpected DEF Quiet
<1>6. SkippedBefore(dump.skipped, dump.next)'
  BY DEF DumpInv, Grouped, SkippedBefore, Quiet
<1>7. ASSUME dump.pc' \in Early PROVE (dump.next = 1 /\ dump.offsets = <<>> /\ dump.skipped = {})'
  BY <1>7 DEF DumpInv, Grouped, Quiet, Early, Late
<1>8. ASSUME dump.pc' = "offsets" PROVE LastWritten(dump.offsets, dump.next)'
  <2>1. LastWritten(dump.offsets, dump.next)
    <3>1. CASE dump.pc = "offsets"
      BY <3>1 DEF DumpInv, Grouped
    <3>2. CASE dump.pc \in Early
      <4>1. dump.next = 1 /\ dump.offsets = <<>>
        BY <3>2 DEF DumpInv, Grouped
      <4> QED
        BY <4>1 DEF LastWritten
    <3> QED
      BY <1>8, <3>1, <3>2 DEF Quiet, Late
  <2> QED
    BY <1>4, <2>1 DEF LastWritten, Quiet
<1>9. ASSUME dump.pc' \in Late
      PROVE  (\A n \in DOMAIN Alphabetical :
                LET o == Alphabetical[n]
                IN IF o \in DOMAIN dump.offsets THEN dump.offsets[o] \in Expected(o, n)
                   ELSE Expected(o, n) = {} \/ o \in dump.rejected)'
  <2>1. dump.pc \in Late
    BY <1>9 DEF Quiet, Early, Late
  <2> QED
    BY <1>5, <2>1 DEF DumpInv, Grouped, Quiet
<1> QED
  BY <1>1, <1>2, <1>3, <1>6, <1>7, <1>8, <1>9 DEF Grouped

(* A name published over others has its value; the others keep theirs.     *)
Updated(g, f, o, v) ==
  /\ g = [x \in DOMAIN g |-> g[x]]
  /\ DOMAIN g = DOMAIN f \cup {o}
  /\ g[o] = v
  /\ \A x \in DOMAIN f : x # o => g[x] = f[x]

(* That is what With makes. *)
LEMMA WithIs ==
  ASSUME NEW f, NEW o, NEW v
  PROVE  Updated(With(f, o, v), f, o, v)
BY DEF With, Updated

(* The offsets f of a group over the ones before: what the group writes is *)
(* there and the others are as before.                                     *)
Follows(f, before, n) ==
  /\ f = [x \in DOMAIN f |-> f[x]]
  /\ \A x : x \in DOMAIN f <=> x \in DOMAIN before \/ Writes(x, n) # {}
  /\ \A x \in DOMAIN f : IF Writes(x, n) # {} THEN f[x] \in Writes(x, n) ELSE f[x] = before[x]

(* The offsets of a group whose image is loaded follow those before; what  *)
(* it publishes are numbers.                                               *)
LEMMA GroupPublishes ==
  ASSUME dump.file \in Files \cup {<<>>}, dump.signatures = Prepended(dump.file), FoundOK,
         NEW n \in DOMAIN Alphabetical, Alphabetical[n] \notin dump.skipped,
         dump.offsets = [x \in DOMAIN dump.offsets |-> dump.offsets[x]]
  PROVE  /\ Follows(Published(Alphabetical[n]), dump.offsets, n)
         /\ \A x : Writes(x, n) \subseteq Nat
<1> DEFINE o == Alphabetical[n]
           all == dump.signatures
           v == Resolve(all, o)
           callback == Callback(all, o)
           extra == Resolve(all, ExtraOf(o, callback))
           calls == callback # "none" /\ extra # NoValue
           sensed == o[2] = "dwSensitivity"
           sums == { a + b : a \in Own(o), b \in Documented(ExtraOf(o, callback)) }
           f0 == dump.offsets
           f1 == With(f0, o, v)
           f2 == IF calls THEN With(f1, DerivedOf(o, callback), v + extra) ELSE f1
           f3 == IF sensed THEN With(f2, ConfiguredOf(o), Sensitivity) ELSE f2
<1>1. \/ v = NoValue /\ Documented(o) = {}
      \/ v \in Nat /\ v # NoValue /\ Documented(o) = {v} /\ Candidates(all, o) # {}
  BY ResolvesDocumented
<1>2. \/ extra = NoValue /\ Documented(ExtraOf(o, callback)) = {}
      \/ extra \in Nat /\ extra # NoValue /\ Documented(ExtraOf(o, callback)) = {extra}
  BY ResolvesDocumented
<1>3. Own(o) = Documented(o)
  BY DEF Own
<1>4. ASSUME NEW x
      PROVE  Derived(x, n) =
               IF sensed /\ x = ConfiguredOf(o) /\ Own(o) # {} THEN {Sensitivity}
               ELSE IF /\ Candidates(all, o) # {}
                       /\ callback # "none" /\ x = DerivedOf(o, callback)
                    THEN sums ELSE {}
  BY DEF Derived
<1>5. Published(o) = IF v = NoValue THEN f0 ELSE f3
  BY DEF Published, Called, Configured
<1>6. DerivedOf(o, callback) # ConfiguredOf(o)
  BY DEF DerivedOf, ConfiguredOf
<1>7. Sensitivity \in Nat
  BY DumperAssumption
<1> SUFFICES Follows(Published(o), f0, n) /\ \A x : Writes(x, n) \subseteq Nat
  OBVIOUS
<1>8. \A x : Writes(x, n) = IF Derived(x, n) # {} THEN Derived(x, n)
                            ELSE IF o = x THEN Own(o) ELSE {}
  BY DEF Writes
<1>f. f0 = [x \in DOMAIN f0 |-> f0[x]]
  OBVIOUS
<1> HIDE DEF o, all, v, callback, extra, f0
<1>9. CASE v = NoValue
  <2>1. Own(o) = {}
    BY <1>1, <1>3, <1>9
  <2>2. \A x : Derived(x, n) = {}
    BY <1>4, <2>1
  <2>3. \A x : Writes(x, n) = {}
    BY <1>8, <2>1, <2>2
  <2> QED
    BY <1>5, <1>9, <1>f, <2>3 DEF Follows
<1>10. CASE v # NoValue
  <2>1. v \in Nat /\ Own(o) = {v} /\ Candidates(all, o) # {}
    BY <1>1, <1>3, <1>10
  <2> DEFINE d == DerivedOf(o, callback)
             c == ConfiguredOf(o)
  <2>2. ASSUME calls PROVE extra \in Nat /\ v + extra \in Nat /\ sums = {v + extra}
    BY <1>2, <2>1, <2>2
  <2>3. ASSUME ~calls, callback # "none" PROVE sums = {}
    BY <1>2, <2>3
  <2> HIDE DEF sums
  <2>4. ASSUME NEW x
        PROVE  Derived(x, n) = IF sensed /\ x = c THEN {Sensitivity}
                               ELSE IF calls /\ x = d THEN {v + extra} ELSE {}
    <3>1. CASE sensed /\ x = c
      BY <1>4, <2>1, <3>1
    <3>2. CASE ~(sensed /\ x = c) /\ calls
      BY <1>4, <2>1, <2>2, <3>2
    <3>3. CASE ~(sensed /\ x = c) /\ ~calls
      BY <1>4, <2>1, <2>3, <3>3
    <3> QED
      BY <3>1, <3>2, <3>3
  <2>5. ASSUME NEW x
        PROVE  Writes(x, n) = IF sensed /\ x = c THEN {Sensitivity}
                              ELSE IF calls /\ x = d THEN {v + extra}
                              ELSE IF x = o THEN {v} ELSE {}
    <3>1. CASE sensed /\ x = c
      BY <1>8, <2>4, <3>1
    <3>2. CASE ~(sensed /\ x = c) /\ calls /\ x = d
      BY <1>8, <2>4, <3>2
    <3>3. CASE ~(sensed /\ x = c) /\ ~(calls /\ x = d)
      BY <1>8, <2>1, <2>4, <3>3
    <3> QED
      BY <3>1, <3>2, <3>3
  <2>6. \A x : Writes(x, n) \subseteq Nat
    BY <1>7, <2>1, <2>2, <2>5
  <2>7. /\ f1 = [x \in DOMAIN f1 |-> f1[x]] /\ DOMAIN f1 = DOMAIN f0 \cup {o} /\ f1[o] = v
        /\ \A x \in DOMAIN f0 : x # o => f1[x] = f0[x]
    <3>1. Updated(f1, f0, o, v)
      BY WithIs
    <3> HIDE DEF f1
    <3> QED
      BY <3>1 DEF Updated
  <2> HIDE DEF f1
  <2>8. /\ f2 = [x \in DOMAIN f2 |-> f2[x]]
        /\ DOMAIN f2 = DOMAIN f1 \cup (IF calls THEN {d} ELSE {})
        /\ calls => f2[d] = v + extra
        /\ \A x \in DOMAIN f1 : ~(calls /\ x = d) => f2[x] = f1[x]
    <3>1. CASE calls
      <4>1. f2 = With(f1, d, v + extra)
        BY <3>1
      <4>2. Updated(f2, f1, d, v + extra)
        BY <4>1, WithIs
      <4> HIDE DEF f2, calls
      <4> QED
        BY <3>1, <4>2 DEF Updated
    <3>2. CASE ~calls
      BY <2>7, <3>2
    <3> QED
      BY <3>1, <3>2
  <2> HIDE DEF f2, calls
  <2>9. /\ f3 = [x \in DOMAIN f3 |-> f3[x]]
        /\ DOMAIN f3 = DOMAIN f2 \cup (IF sensed THEN {c} ELSE {})
        /\ sensed => f3[c] = Sensitivity
        /\ \A x \in DOMAIN f2 : ~(sensed /\ x = c) => f3[x] = f2[x]
    <3>1. CASE sensed
      <4>1. f3 = With(f2, c, Sensitivity)
        BY <3>1
      <4>2. Updated(f3, f2, c, Sensitivity)
        BY <4>1, WithIs
      <4> HIDE DEF f3, sensed
      <4> QED
        BY <3>1, <4>2 DEF Updated
    <3>2. CASE ~sensed
      BY <2>8, <3>2
    <3> QED
      BY <3>1, <3>2
  <2>10. Published(o) = f3
    BY <1>5, <1>10
  <2> HIDE DEF f3, sensed, c, d
  <2>11. \A x : x \in DOMAIN f3 <=> x \in DOMAIN f0 \/ Writes(x, n) # {}
    BY <2>5, <2>7, <2>8, <2>9
  <2>12. ASSUME NEW x \in DOMAIN f3
         PROVE  IF Writes(x, n) # {} THEN f3[x] \in Writes(x, n) ELSE f3[x] = f0[x]
    <3>1. CASE sensed /\ x = c
      BY <2>5, <2>9, <3>1
    <3>2. CASE ~(sensed /\ x = c) /\ calls /\ x = d
      BY <2>5, <2>8, <2>9, <3>2
    <3>3. CASE ~(sensed /\ x = c) /\ ~(calls /\ x = d) /\ x = o
      BY <2>5, <2>7, <2>8, <2>9, <3>3
    <3>4. CASE ~(sensed /\ x = c) /\ ~(calls /\ x = d) /\ x # o
      <4>1. x \in DOMAIN f0 /\ f3[x] = f0[x] /\ Writes(x, n) = {}
        BY <2>5, <2>7, <2>8, <2>9, <3>4
      <4> QED
        BY <4>1
    <3> QED
      BY <3>1, <3>2, <3>3, <3>4
  <2> QED
    BY <2>6, <2>9, <2>10, <2>11, <2>12 DEF Follows
<1> QED
  BY <1>9, <1>10

(* A group that is left out for want of candidates or of an image          *)
(* publishes nothing; one that is not publishes what follows.              *)
LEMMA GroupStep ==
  ASSUME DumpInv, OffsetGroup
  PROVE  DumpInv'
<1>0. PICK n : n = dump.next
  OBVIOUS
<1> DEFINE o == Alphabetical[n]
<1>1. /\ dump.pc = "offsets" /\ n \in DOMAIN Alphabetical /\ n \in Nat
      /\ dump.file \in Files \cup {<<>>} /\ dump.signatures = Prepended(dump.file) /\ FoundOK
  BY <1>0, Groups DEF DumpInv, DumpShape, Listed, OffsetGroup
<1>2. /\ dump.pc' = dump.pc /\ dump.next' = n + 1 /\ dump.buttons' = dump.buttons
      /\ dump.seen' = dump.seen /\ dump.at' = dump.at /\ UNCHANGED target
      /\ Settled
  BY <1>0 DEF OffsetGroup, DumpInv, DumpShape, Settled
<1>3. \/ /\ Candidates(dump.signatures, o) = {} /\ UNCHANGED <<dump.skipped, dump.offsets, dump.images>>
      \/ dump.skipped' = dump.skipped \cup {o} /\ UNCHANGED <<dump.offsets, dump.images>>
      \/ /\ dump.skipped' = dump.skipped /\ dump.images' = dump.images \cup {o[1]}
         /\ dump.offsets' = Published(o)
  BY <1>0 DEF OffsetGroup, DumpInv, DumpShape
<1>4. /\ dump' = [ pc |-> dump.pc', file |-> dump.file', signatures |-> dump.signatures',
              images |-> dump.images', at |-> dump.at', seen |-> dump.seen',
              module |-> dump.module', next |-> dump.next', buttons |-> dump.buttons',
              interfaces |-> dump.interfaces', offsets |-> dump.offsets',
              schemas |-> dump.schemas', skipped |-> dump.skipped',
              rejected |-> dump.rejected', info |-> dump.info' ]
  BY DEF OffsetGroup, DumpInv, DumpShape
<1>5. o \notin dump.skipped /\ \A k \in 1..(n - 1) : k \in DOMAIN Alphabetical /\ Alphabetical[k] # o
  BY <1>0, <1>1, Groups DEF DumpInv, Grouped, SkippedBefore
<1>6. \A k \in 1..(n - 1) : \A x : Writes(x, k)' = Writes(x, k)
  <2> SUFFICES ASSUME NEW k \in 1..(n - 1) PROVE \A x : Writes(x, k)' = Writes(x, k)
    OBVIOUS
  <2>1. (Alphabetical[k] \in dump.skipped)' = (Alphabetical[k] \in dump.skipped)
    BY <1>3, <1>5
  <2>2. Own(Alphabetical[k])' = Own(Alphabetical[k])
    BY <1>2, <2>1, SettledDocumented DEF Own
  <2> QED
    BY <1>2, <2>2, SettledDerived
<1>7. \/ (\A x : Writes(x, n)' = {}) /\ dump.offsets' = dump.offsets
      \/ /\ \A x : Writes(x, n)' = Writes(x, n)
         /\ Follows(Published(o), dump.offsets, n) /\ dump.offsets' = Published(o)
         /\ \A x : Writes(x, n) \subseteq Nat
  <2>1. ASSUME Own(o)' = {} PROVE \A x : Writes(x, n)' = {}
    <3>1. \A x : Derived(x, n)' = {}
      BY <1>2, <2>1 DEF Derived
    <3> QED
      BY <1>2, <2>1, <3>1 DEF Writes
  <2>2. Documented(o)' = Documented(o)
    BY <1>2, SettledDocumented
  <2>3. ASSUME Candidates(dump.signatures, o) = {} PROVE Own(o)' = {}
    <3>1. Documented(o) = {}
      BY <1>1, <2>3, ResolvesDocumented
    <3> QED
      BY <2>2, <3>1 DEF Own
  <2>4. ASSUME dump.skipped' = dump.skipped \cup {o} PROVE Own(o)' = {}
    BY <2>4 DEF Own
  <2>5. ASSUME dump.skipped' = dump.skipped
        PROVE  \A x : Writes(x, n)' = Writes(x, n)
    <3>1. Own(o)' = Own(o)
      BY <2>2, <2>5 DEF Own
    <3> QED
      BY <1>2, <3>1, SettledDerived
  <2>6. /\ Follows(Published(o), dump.offsets, n)
        /\ \A x : Writes(x, n) \subseteq Nat
    BY <1>1, <1>5, GroupPublishes DEF DumpInv, DumpShape
  <2> QED
    BY <1>3, <2>1, <2>3, <2>4, <2>5, <2>6
<1>8. LastWritten(dump.offsets, n)
  BY <1>0, <1>1 DEF DumpInv, Grouped
<1> DEFINE after == dump.offsets'
<1>9. /\ after = [x \in DOMAIN after |-> after[x]]
      /\ \A x : x \in DOMAIN after <=> x \in DOMAIN dump.offsets \/ Writes(x, n)' # {}
      /\ \A x \in DOMAIN after :
           IF Writes(x, n)' # {} THEN after[x] \in Writes(x, n)' ELSE after[x] = dump.offsets[x]
      /\ \A x \in DOMAIN after : after[x] \in Nat
  <2>1. /\ dump.offsets = [x \in DOMAIN dump.offsets |-> dump.offsets[x]]
        /\ \A x \in DOMAIN dump.offsets : dump.offsets[x] \in Nat
    BY DEF DumpInv, DumpShape, DumpTypeOK
  <2>2. CASE (\A x : Writes(x, n)' = {}) /\ dump.offsets' = dump.offsets
    BY <2>1, <2>2
  <2>3. CASE /\ \A x : Writes(x, n)' = Writes(x, n)
             /\ Follows(Published(o), dump.offsets, n) /\ dump.offsets' = Published(o)
             /\ \A x : Writes(x, n) \subseteq Nat
    <3>1. Follows(after, dump.offsets, n)
      BY <2>3
    <3> HIDE DEF after
    <3> QED
      BY <2>1, <2>3, <3>1 DEF Follows
  <2> QED
    BY <1>7, <2>2, <2>3
<1>10. LastWritten(dump.offsets, dump.next)'
  <2> SUFFICES ASSUME NEW x
               PROVE  IF x \in DOMAIN after
                      THEN \E k \in 1..((n + 1) - 1) :
                             /\ after[x] \in Writes(x, k)'
                             /\ \A j \in (k + 1)..((n + 1) - 1) : Writes(x, j)' = {}
                      ELSE \A k \in 1..((n + 1) - 1) : Writes(x, k)' = {}
    BY <1>2 DEF LastWritten
  <2>1. \A k \in 1..(n - 1) : Writes(x, k)' = Writes(x, k)
    BY <1>6
  <2>2. IF x \in DOMAIN dump.offsets
        THEN \E k \in 1..(n - 1) : /\ dump.offsets[x] \in Writes(x, k)
                                   /\ \A j \in (k + 1)..(n - 1) : Writes(x, j) = {}
        ELSE \A k \in 1..(n - 1) : Writes(x, k) = {}
    BY <1>8 DEF LastWritten
  <2>3. (n + 1) - 1 = n /\ n \in 1..n /\ n \in Nat
    BY <1>1, Groups
  <2>4. /\ x \in DOMAIN after <=> x \in DOMAIN dump.offsets \/ Writes(x, n)' # {}
        /\ x \in DOMAIN after =>
             IF Writes(x, n)' # {} THEN after[x] \in Writes(x, n)' ELSE after[x] = dump.offsets[x]
    BY <1>9
  <2> HIDE DEF after
  <2>5. CASE Writes(x, n)' # {}
    <3>1. \A j \in (n + 1)..n : Writes(x, j)' = {}
      BY <2>3
    <3> QED
      BY <2>3, <2>4, <2>5, <3>1
  <2>6. CASE Writes(x, n)' = {} /\ x \in DOMAIN dump.offsets
    <3>1. PICK k \in 1..(n - 1) : /\ dump.offsets[x] \in Writes(x, k)
                                  /\ \A j \in (k + 1)..(n - 1) : Writes(x, j) = {}
      BY <2>2, <2>6
    <3>2. after[x] \in Writes(x, k)' /\ k \in 1..n
      BY <2>1, <2>3, <2>4, <2>6, <3>1
    <3>3. ASSUME NEW j \in (k + 1)..n PROVE Writes(x, j)' = {}
      <4>1. CASE j = n
        BY <2>6, <4>1
      <4>2. CASE j # n
        <5>1. j \in (k + 1)..(n - 1) /\ j \in 1..(n - 1)
          BY <1>1, <2>3, <3>1, <4>2
        <5> QED
          BY <2>1, <3>1, <5>1
      <4> QED
        BY <4>1, <4>2
    <3> QED
      BY <2>3, <2>4, <2>6, <3>2, <3>3
  <2>7. CASE Writes(x, n)' = {} /\ x \notin DOMAIN dump.offsets
    <3>1. ASSUME NEW k \in 1..n PROVE Writes(x, k)' = {}
      <4>1. CASE k = n
        BY <2>7, <4>1
      <4>2. CASE k # n
        <5>1. k \in 1..(n - 1)
          BY <2>3, <4>2
        <5> QED
          BY <2>1, <2>2, <2>7, <5>1
      <4> QED
        BY <4>1, <4>2
    <3> QED
      BY <2>3, <2>4, <2>7, <3>1
  <2> QED
    BY <2>5, <2>6, <2>7
<1>11. SkippedBefore(dump.skipped, dump.next)'
  <2> SUFFICES ASSUME NEW x \in dump.skipped'
               PROVE  \E k \in 1..((n + 1) - 1) : k \in DOMAIN Alphabetical /\ x = Alphabetical[k]
    BY <1>0, <1>2 DEF SkippedBefore
  <2>1. x \in dump.skipped \/ x = o
    BY <1>3
  <2>2. n \in 1..((n + 1) - 1) /\ \A k \in 1..(n - 1) : k \in 1..((n + 1) - 1)
    BY <1>1, Groups
  <2>3. x \in dump.skipped => \E k \in 1..(n - 1) : k \in DOMAIN Alphabetical /\ x = Alphabetical[k]
    BY <1>0 DEF DumpInv, Grouped, SkippedBefore
  <2> QED
    BY <1>1, <2>1, <2>2, <2>3
<1>12. Grouped'
  BY <1>1, <1>2, <1>10, <1>11 DEF Grouped, Early, Late
<1>13. Listed' /\ FoundOK' /\ Walked'
  BY <1>1, <1>2 DEF Listed, FoundOK, Walked, DumpInv, Settled
<1>14. DumpShape'
  <2>1. dump.next' \in 1..(Len(Alphabetical) + 1)
    BY <1>1, <1>2, Groups
  <2> QED
    BY <1>2, <1>4, <1>9, <2>1 DEF DumpInv, DumpShape
<1>15. DumpTypeOK'
  <2>1. dump.images' \subseteq { x[1] : x \in Offsets }
    <3>1. o \in Offsets
      BY <1>1 DEF Offsets
    <3> QED
      BY <1>3, <3>1 DEF DumpInv, DumpTypeOK
  <2> QED
    BY <1>2, <1>9, <2>1 DEF DumpInv, DumpTypeOK
<1> QED
  BY <1>12, <1>13, <1>14, <1>15 DEF DumpInv

(* What the running game refuted leaves the others as they were. *)
LEMMA ValidateStep ==
  ASSUME DumpInv, Validate
  PROVE  DumpInv'
<1>1. PICK bad : /\ dump' = [dump EXCEPT !.pc = "schemas", !.rejected = bad,
                                         !.offsets = Without(@, bad)]
  BY DEF Validate
<1>2. /\ dump.pc = "offsets" /\ dump.pc' = "schemas" /\ dump.rejected' = bad
      /\ dump.offsets' = Without(dump.offsets, bad) /\ dump.next' = dump.next
      /\ dump.skipped' = dump.skipped /\ dump.images' = dump.images
      /\ dump.buttons' = dump.buttons /\ UNCHANGED target /\ Settled
  BY <1>1 DEF Validate, DumpInv, DumpShape, Settled
<1>3. dump.next = Len(Alphabetical) + 1
  BY Groups DEF Validate, DumpInv, DumpShape
<1>4. ASSUME NEW n \in DOMAIN Alphabetical
      PROVE  LET o == Alphabetical[n]
             IN IF o \in DOMAIN dump.offsets' THEN dump.offsets'[o] \in Expected(o, n)'
                ELSE Expected(o, n)' = {} \/ o \in dump.rejected'
  <2>1. LET o == Alphabetical[n]
        IN IF o \in DOMAIN dump.offsets THEN dump.offsets[o] \in Expected(o, n)
           ELSE Expected(o, n) = {}
    BY <1>2, <1>3, LastWrittenExpected DEF DumpInv, Grouped
  <2>2. \A x, k : Expected(x, k)' = Expected(x, k)
    BY <1>2, SettledExpected
  <2> QED
    BY <1>2, <2>1, <2>2 DEF Without
<1>5. Grouped'
  BY <1>2, <1>4 DEF DumpInv, Grouped, SkippedBefore, Early, Late
<1>6. DumpShape'
  <2>1. dump' = [ pc |-> dump.pc', file |-> dump.file', signatures |-> dump.signatures',
              images |-> dump.images', at |-> dump.at', seen |-> dump.seen',
              module |-> dump.module', next |-> dump.next', buttons |-> dump.buttons',
              interfaces |-> dump.interfaces', offsets |-> dump.offsets',
              schemas |-> dump.schemas', skipped |-> dump.skipped',
              rejected |-> dump.rejected', info |-> dump.info' ]
    BY <1>1 DEF DumpInv, DumpShape
  <2> QED
    BY <1>2, <2>1 DEF DumpInv, DumpShape, Stages, Without
<1>7. Listed' /\ FoundOK' /\ Walked'
  BY <1>2 DEF Listed, FoundOK, Walked, DumpInv, Settled
<1>8. DumpTypeOK'
  BY <1>2 DEF DumpInv, DumpTypeOK, Stages, Without
<1> QED
  BY <1>5, <1>6, <1>7, <1>8 DEF DumpInv

(* The file read decides the signatures. *)
LEMMA ConfigureStep ==
  ASSUME DumpInv, Configure
  PROVE  DumpInv'
<1>1. /\ dump.pc = "configure" /\ UNCHANGED target
      /\ dump.next' = dump.next /\ dump.offsets' = dump.offsets /\ dump.skipped' = dump.skipped
      /\ dump.images' = dump.images /\ dump.seen' = dump.seen /\ dump.buttons' = dump.buttons
      /\ \/ /\ dump.pc' = "open" /\ dump.file' \in Files \cup {<<>>}
            /\ dump.signatures' = Prepended(dump.file')
         \/ dump.pc' = "failed" /\ dump.file' = dump.file
  BY ZenonT(60) DEF DumpInv, DumpShape, Configure
<1>2. dump' = [ pc |-> dump.pc', file |-> dump.file', signatures |-> dump.signatures',
              images |-> dump.images', at |-> dump.at', seen |-> dump.seen',
              module |-> dump.module', next |-> dump.next', buttons |-> dump.buttons',
              interfaces |-> dump.interfaces', offsets |-> dump.offsets',
              schemas |-> dump.schemas', skipped |-> dump.skipped',
              rejected |-> dump.rejected', info |-> dump.info' ]
  BY DEF DumpInv, DumpShape, Configure
<1>3. Listed' /\ FoundOK' /\ Walked'
  BY <1>1 DEF Listed, FoundOK, Walked, DumpInv
<1>4. Grouped'
  BY <1>1 DEF DumpInv, Grouped, SkippedBefore, Early, Late
<1>5. DumpShape' /\ DumpTypeOK'
  BY <1>1, <1>2 DEF DumpInv, DumpShape, DumpTypeOK, Stages
<1> QED
  BY <1>3, <1>4, <1>5 DEF DumpInv

(* The other stages leave the offsets alone; the walk of the buttons sees  *)
(* a node, or ends where nothing leads out of what it saw.                 *)
LEMMA StageStep ==
  ASSUME DumpInv,
         \/ Open \/ GameExits \/ FindButtons \/ ButtonNode \/ InterfaceModule \/ InterfaceNode
         \/ FindSchemas \/ ReadScope \/ DumpAll \/ UNCHANGED dumpVars
  PROVE  DumpInv'
<1> DEFINE Shaped == dump' = [ pc |-> dump.pc', file |-> dump.file',
              signatures |-> dump.signatures',
              images |-> dump.images', at |-> dump.at', seen |-> dump.seen',
              module |-> dump.module', next |-> dump.next', buttons |-> dump.buttons',
              interfaces |-> dump.interfaces', offsets |-> dump.offsets',
              schemas |-> dump.schemas', skipped |-> dump.skipped',
              rejected |-> dump.rejected', info |-> dump.info' ]
           Unmoved == /\ target' = [runs |-> target'.runs, found |-> target'.found,
                                 list |-> target'.list]
                   /\ target'.list = target.list
           Good == Quiet /\ Walked' /\ Shaped /\ Unmoved
<1>1. Good
  <2>1. CASE Open
    BY <2>1 DEF Open, DumpInv, DumpShape, Quiet, Settled, Walked, Early, Late
  <2>2. CASE GameExits
    BY <2>2 DEF GameExits, DumpInv, DumpShape, Quiet, Settled, Walked, Early, Late
  <2>3. CASE FindButtons
    <3>1. \/ dump.pc = "buttons" /\ dump' = [dump EXCEPT !.pc = "interfaces"]
          \/ dump.pc = "buttons" /\ dump' = [dump EXCEPT !.pc = "button", !.at = HeadOf(target.list)]
      BY <2>3 DEF FindButtons
    <3>2. UNCHANGED target
      BY <2>3 DEF FindButtons
    <3>3. CASE dump.pc = "buttons" /\ dump' = [dump EXCEPT !.pc = "interfaces"]
      BY <3>2, <3>3 DEF DumpInv, DumpShape, Quiet, Settled, Walked, Early, Late
    <3>4. CASE /\ dump.pc = "buttons"
               /\ dump' = [dump EXCEPT !.pc = "button", !.at = HeadOf(target.list)]
      BY <3>2, <3>4 DEF DumpInv, DumpShape, Quiet, Settled, Walked, Early, Late
    <3> QED
      BY <3>1, <3>3, <3>4
  <2>4. CASE ButtonNode
    <3>1. UNCHANGED target /\ dump.pc = "button"
      BY <2>4 DEF ButtonNode
    <3>2. CASE /\ Ended
               /\ dump' = [dump EXCEPT !.pc = "interfaces", !.buttons = dump.seen, !.seen = {}]
      BY <3>1, <3>2 DEF DumpInv, DumpShape, Quiet, Settled, Walked, Early, Late, Ended
    <3>3. CASE dump' = [dump EXCEPT !.seen = @ \cup {dump.at}, !.at = target.list[@]]
      BY <3>1, <3>3 DEF DumpInv, DumpShape, Quiet, Settled, Walked, Early, Late
    <3>4. CASE dump' = [dump EXCEPT !.pc = "interfaces", !.seen = {}]
      BY <3>1, <3>4 DEF DumpInv, DumpShape, Quiet, Settled, Walked, Early, Late
    <3> QED
      BY <2>4, <3>2, <3>3, <3>4 DEF ButtonNode
  <2>5. CASE InterfaceModule
    BY ZenonT(60), <2>5 DEF InterfaceModule, DumpInv, DumpShape, Quiet, Settled, Walked, Early, Late
  <2>6. CASE InterfaceNode
    BY ZenonT(60), <2>6 DEF InterfaceNode, DumpInv, DumpShape, Quiet, Settled, Walked, Early, Late
  <2>7. CASE FindSchemas
    <3>1. \/ dump.pc = "schemas" /\ dump' = [dump EXCEPT !.pc = "scope", !.at = 1]
          \/ dump.pc = "schemas" /\ dump' = [dump EXCEPT !.pc = "output"]
      BY <2>7 DEF FindSchemas
    <3>2. UNCHANGED target
      BY <2>7 DEF FindSchemas
    <3>3. CASE dump.pc = "schemas" /\ dump' = [dump EXCEPT !.pc = "scope", !.at = 1]
      BY <3>2, <3>3 DEF DumpInv, DumpShape, Quiet, Settled, Walked, Early, Late
    <3>4. CASE dump.pc = "schemas" /\ dump' = [dump EXCEPT !.pc = "output"]
      BY <3>2, <3>4 DEF DumpInv, DumpShape, Quiet, Settled, Walked, Early, Late
    <3> QED
      BY <3>1, <3>3, <3>4
  <2>8. CASE ReadScope
    BY <2>8 DEF ReadScope, DumpInv, DumpShape, Quiet, Settled, Walked, Early, Late
  <2>9. CASE DumpAll
    BY <2>9 DEF DumpAll, DumpInv, DumpShape, Quiet, Settled, Walked, Early, Late
  <2>10. CASE UNCHANGED dumpVars
    BY <2>10 DEF dumpVars, DumpInv, DumpShape, Quiet, Settled, Walked, Early, Late
  <2> QED
    BY <2>1, <2>2, <2>3, <2>4, <2>5, <2>6, <2>7, <2>8, <2>9, <2>10
<1>2. FoundOK' /\ Listed' /\ Grouped' /\ DumpTypeOK'
  BY <1>1, QuietStep
<1>3. DumpShape'
  BY <1>1, <1>2 DEF DumpInv, DumpShape, Quiet, DumpTypeOK
<1> QED
  BY <1>1, <1>2, <1>3 DEF DumpInv

(* The state before the run, with a game that runs or one that does not.   *)
LEMMA DumpStarts ==
  ASSUME dump = NewDump, NEW found \in [DOMAIN Results -> AnyResult], NEW list, NEW runs,
         \A p \in DOMAIN Results : found[p] \in Results[p] \cup {NoValue},
         target = [runs |-> runs, found |-> found, list |-> list]
  PROVE  DumpInv
<1>1. /\ dump.pc = "configure" /\ dump.file = <<>> /\ dump.seen = {} /\ dump.buttons = {}
      /\ dump.next = 1 /\ dump.offsets = <<>> /\ dump.skipped = {} /\ dump.images = {}
      /\ dump = [ pc |-> dump.pc, file |-> dump.file, signatures |-> dump.signatures,
              images |-> dump.images, at |-> dump.at, seen |-> dump.seen,
              module |-> dump.module, next |-> dump.next, buttons |-> dump.buttons,
              interfaces |-> dump.interfaces, offsets |-> dump.offsets,
              schemas |-> dump.schemas, skipped |-> dump.skipped,
              rejected |-> dump.rejected, info |-> dump.info ]
  BY DEF NewDump
<1>2. FoundOK /\ target = [runs |-> target.runs, found |-> target.found, list |-> target.list]
  BY DEF FoundOK
<1>3. DumpShape
  <2>1. 1 \in 1..(Len(Alphabetical) + 1)
    BY Groups
  <2>2. dump.offsets = [o \in DOMAIN dump.offsets |-> dump.offsets[o]]
    BY <1>1
  <2> QED
    BY <1>1, <1>2, <2>1, <2>2 DEF DumpShape, Stages
<1>4. Listed /\ Walked /\ Grouped
  BY <1>1 DEF Listed, Walked, Grouped, SkippedBefore, Late
<1>5. DumpTypeOK
  BY <1>1 DEF DumpTypeOK, Stages
<1> QED
  BY <1>2, <1>3, <1>4, <1>5 DEF DumpInv

(* Every step keeps the dumper's invariant. *)
LEMMA DumpStep ==
  ASSUME DumpInv, [DumpNext]_dumpVars
  PROVE  DumpInv'
BY ConfigureStep, GroupStep, ValidateStep, StageStep DEF DumpNext

(* The dumper's inductive invariant, for every game, signatures and map.   *)
LEMMA DumpInvariant == DumpSpec => []DumpInv
<1>1. DumpInit => DumpInv
  BY DumpStarts DEF DumpInit
<1> QED
  BY <1>1, DumpStep, PTL DEF DumpSpec

(* What is published follows the documented order whatever matched and     *)
(* whenever the game ended (runtime_config.cpp:151-172,                    *)
(* analysis.cpp:168-187, 429-453, 473-512).                                *)
THEOREM DumpsFollowOrder == DumpSpec => []DumpFollowsOrder
<1>1. DumpInv => DumpFollowsOrder
  BY DEF DumpInv, DumpFollowsOrder, Walked, Grouped, Late
<1> QED
  BY <1>1, DumpInvariant, PTL

(* The images are of modules with offsets, and offsets are numbers, which   *)
(* need no bound (analysis.cpp:473-512).                                   *)
THEOREM DumpTypes == DumpSpec => []DumpTypeOK
<1>1. DumpInv => DumpTypeOK
  BY DEF DumpInv
<1> QED
  BY <1>1, DumpInvariant, PTL

-----------------------------------------------------------------------------
(* The three programs together. *)

(* A program that rests is in one of its first states. *)
LEMMA RestsFirst ==
  /\ ScanRests => ScanInit
  /\ DumpRests => DumpInv
<1>1. ASSUME ScanRests PROVE ScanInit
  <2>1. (CHOOSE v \in Values : TRUE) \in Values
    BY ScannerAssumption
  <2>2. [w \in InRegions |-> CHOOSE v \in Values : TRUE] \in [InRegions -> Values]
    BY <2>1
  <2> QED
    BY <1>1, <2>2 DEF ScanRests, ScanInit
<1>2. ASSUME DumpRests PROVE DumpInv
  <2>1. [p \in DOMAIN Results |-> NoValue] \in [DOMAIN Results -> AnyResult]
    <3>1. NoValue \in AnyResult
      BY DEF AnyResult
    <3> QED
      BY <3>1
  <2>2. /\ dump = NewDump
        /\ target = [runs |-> FALSE, found |-> [p \in DOMAIN Results |-> NoValue], list |-> <<>>]
    BY <1>2 DEF DumpRests
  <2> QED
    BY <2>1, <2>2, DumpStarts
<1> QED
  BY <1>1, <1>2

(* Every program's state keeps its type and its limits, whichever of them   *)
(* runs (local_fixed_radar.cpp:325-340, external_tool.cpp:430-452,         *)
(* analysis.cpp:473-485).                                                  *)
THEOREM ToolsTypes == Spec => []ToolsTypeOK
<1> DEFINE Inv == RadarInv /\ FloorOK(floor) /\ ScanInv /\ DumpInv
<1>1. Init => Inv
  <2>1. Init => RadarInit /\ ScanInit /\ DumpInv
    BY RestsFirst, DumpStarts DEF Init, DumpInit
  <2> QED
    BY <2>1, RadarStarts, ScanStarts
<1>2. Inv /\ [Next]_vars => Inv'
  <2>1. [Next]_vars => /\ [RadarNext]_radarVars /\ [ScanNext]_scanVars /\ [DumpNext]_dumpVars
    BY DEF Next, vars
  <2>2. RadarInv /\ FloorOK(floor) /\ [RadarNext]_radarVars => RadarInv' /\ FloorOK(floor)'
    BY RadarStep
  <2>3. ScanInv /\ [ScanNext]_scanVars => ScanInv'
    BY ScanStep
  <2>4. DumpInv /\ [DumpNext]_dumpVars => DumpInv'
    BY DumpStep
  <2> QED
    BY <2>1, <2>2, <2>3, <2>4
<1>3. Inv => ToolsTypeOK
  <2>1. RadarInv /\ FloorOK(floor) => RadarTypeOK
    BY DEF RadarInv, CacheOK, FloorOK, RadarTypeOK
  <2> QED
    BY <2>1, ScanInvMeans DEF ToolsTypeOK, DumpInv
<1> QED
  BY <1>1, <1>2, <1>3, PTL DEF Spec
=============================================================================

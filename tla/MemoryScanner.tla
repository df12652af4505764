--------------------------- MODULE MemoryScanner ---------------------------
(***************************************************************************)
(* UnknownScanner32 of the island tool (external_tool.cpp): a first pass   *)
(* captures every aligned word of the private writable memory of a range,  *)
(* and each filter keeps the words that changed, or did not, as asked.     *)
(* The game runs on while the tool reads: it writes words, and protects    *)
(* and releases regions, between any two reads.                            *)
(*                                                                         *)
(* Addresses count bytes, with a small word and a small chunk.  Regions    *)
(* lie side by side from 0 up; where VirtualQueryEx finds none the pass    *)
(* goes on after the gap, as it would page by page.  A word holds its raw  *)
(* value, and as a float a value of NotFinite is not finite.               *)
(***************************************************************************)
EXTENDS Integers, SequencesExt

CONSTANTS
  Word,            \* sizeof(std::uint32_t)
  Chunk,           \* kChunkSize (1 MiB), a multiple of Word
  Regions,         \* sequence of [base, end, private], a word apart at least
  DefaultLowest,   \* kDefaultLowestAddress
  DefaultHighest,  \* kDefaultHighestAddress
  CandidateLimit,  \* kCandidateLimit (8 000 000)
  Values,          \* raw values of words
  NotFinite,       \* those that are no finite float
  Ranges,          \* [low, high] of the commands scan-start, player-scan-start
  MaxEvents        \* bound: what the game does while the tool is attached

(* There is some memory, and a value for its words; regions lie in order   *)
(* and begin and end with a page, so at a word.                            *)
ASSUME ScannerAssumption ==
  /\ Word \in Nat \ {0} /\ Chunk \in Nat \ {0} /\ Chunk % Word = 0
  /\ CandidateLimit \in Nat \ {0}
  /\ Values \subseteq Int /\ Values # {} /\ NotFinite \subseteq Values
  /\ DefaultLowest \in Nat /\ DefaultHighest \in Nat
  /\ \A range \in Ranges : range.low \in Nat /\ range.high \in Nat
  /\ Regions \in Seq([base : Nat, end : Nat, private : BOOLEAN]) /\ Regions # <<>>
  /\ \A i \in DOMAIN Regions : /\ Regions[i].base % Word = 0 /\ Regions[i].end % Word = 0
                               /\ Regions[i].base < Regions[i].end
  /\ \A i, j \in DOMAIN Regions : i < j => Regions[i].end <= Regions[j].base

VARIABLES
  game,   \* words of the process and the protection of its regions
  scan,   \* the scanner's members and the pass it is in
  past    \* history: words untouched since the last scan-start, filters since

scanVars == <<game, scan, past>>

-----------------------------------------------------------------------------
(* The game's memory. *)
Words == { w \in 0..Regions[Len(Regions)].end : w % Word = 0 }
Within(w, r) == w >= r.base /\ w < r.end
RegionsOf(a) == { i \in DOMAIN Regions : Within(a, Regions[i]) }
InRegions == { w \in Words : RegionsOf(w) # {} }
Accesses == {"writable", "guarded", "free"}

GameWrites ==
  /\ game.events < MaxEvents
  /\ \E w \in InRegions, v \in Values :
       /\ v # game.value[w]
       /\ game' = [game EXCEPT !.value[w] = v, !.events = @ + 1]
       /\ past' = [past EXCEPT !.untouched = @ \ {w}]
  /\ UNCHANGED scan
GameProtects ==
  /\ game.events < MaxEvents
  /\ \E i \in DOMAIN Regions, a \in Accesses :
       /\ a # game.access[i]
       /\ game' = [game EXCEPT !.access[i] = a, !.events = @ + 1]
       /\ past' = [past EXCEPT !.untouched = { w \in @ : ~Within(w, Regions[i]) }]
  /\ UNCHANGED scan

-----------------------------------------------------------------------------
(* VirtualQueryEx and IsReadableWritableProtection, ReadProcessMemory of   *)
(* a chunk within one region, words of which the filter or the pass keeps. *)
Writable(i) == game.access[i] = "writable"
Readable(i) == Writable(i)
Finite(kind, v) == kind = "int" \/ v \notin NotFinite

(* The offsets of a chunk at which a whole word lies, from the first that  *)
(* is aligned on.                                                          *)
WordsIn(from, to) == { w \in Words : w >= from /\ w + Word <= to }
InOrder(S) ==
  CHOOSE s \in [1..Cardinality(S) -> S] : \A m, n \in DOMAIN s : m < n => s[m] < s[n]
Capture(w) == [address |-> w, previous |-> game.value[w]]

(* Matches. *)
Matches(kind, filter, old, new) ==
  \/ filter = "changed" /\ old # new
  \/ filter = "unchanged" /\ old = new
  \/ /\ Finite(kind, old) /\ Finite(kind, new)
     /\ \/ filter = "increased" /\ new > old
        \/ filter = "decreased" /\ new < old
Filters == {"changed", "unchanged", "increased", "decreased"}
Kinds == {"int", "float"}

-----------------------------------------------------------------------------
(* Start clamps the range, and refuses an empty one once the candidates    *)
(* are gone; the members that name the range keep the last valid one.      *)
Clamped(range) ==
  [ low |-> IF range.low > DefaultLowest THEN range.low ELSE DefaultLowest,
    high |-> IF range.high < DefaultHighest THEN range.high ELSE DefaultHighest ]
NewPast(valid) == [untouched |-> InRegions, onlyUnchanged |-> TRUE, valid |-> valid]

StartScan ==
  /\ scan.pc = "idle"
  /\ \E kind \in Kinds, range \in Ranges :
       LET c == Clamped(range)
           cleared == [scan EXCEPT !.candidates = <<>>, !.kind = kind, !.truncated = FALSE]
       IN \/ c.low >= c.high /\ scan' = cleared /\ past' = NewPast(FALSE)
          \/ /\ c.low < c.high
             /\ scan' = [cleared EXCEPT !.pc = "start", !.range = c, !.at = c.low]
             /\ past' = NewPast(TRUE)
  /\ UNCHANGED game

(* The next region, or the end of the range.  Its protection is looked at  *)
(* once, before its chunks are read.                                       *)
NextAddress(i, a) == IF Regions[i].end > a THEN Regions[i].end ELSE a + 1
StartRegion ==
  /\ scan.pc = "start"
  /\ IF scan.at >= scan.range.high THEN scan' = [scan EXCEPT !.pc = "idle"]
     ELSE IF RegionsOf(scan.at) = {} THEN scan' = [scan EXCEPT !.at = @ + 1]
     ELSE \E i \in RegionsOf(scan.at) :
            scan' = IF Writable(i) /\ Regions[i].private
                    THEN [scan EXCEPT !.pc = "chunk", !.region = i]
                    ELSE [scan EXCEPT !.at = NextAddress(i, @)]
  /\ UNCHANGED <<game, past>>

(* One chunk: a read that fails skips it; the limit ends the pass. *)
RegionEnd(i) ==
  IF Regions[i].end < scan.range.high THEN Regions[i].end ELSE scan.range.high
ChunkEnd(i) == IF scan.at + Chunk < RegionEnd(i) THEN scan.at + Chunk ELSE RegionEnd(i)

(* Mutant: the word that ends with the chunk is left out, < in place of <=  *)
(* in the loop over its offsets.                                           *)
CapturedUpTo(i) ==
  { w \in WordsIn(scan.at, ChunkEnd(i)) :
      w + Word < ChunkEnd(i) /\ Readable(i) /\ Finite(scan.kind, game.value[w]) }

Captured(i) ==
  { w \in WordsIn(scan.at, ChunkEnd(i)) : Readable(i) /\ Finite(scan.kind, game.value[w]) }

StartChunk ==
  /\ scan.pc = "chunk"
  /\ LET i == scan.region
         found == InOrder(Captured(i))
         room == CandidateLimit - Len(scan.candidates)
         kept == [n \in 1..(IF Len(found) < room THEN Len(found) ELSE room) |-> Capture(found[n])]
         next == [scan EXCEPT !.candidates = @ \o kept, !.at = ChunkEnd(i)]
     IN scan' = IF Len(found) >= room
                THEN [next EXCEPT !.pc = "idle", !.truncated = TRUE]
                ELSE [next EXCEPT !.pc = IF ChunkEnd(i) < RegionEnd(i) THEN "chunk" ELSE "start"]
  /\ UNCHANGED <<game, past>>

-----------------------------------------------------------------------------
(* Filter walks the candidates.  The region of the next one is looked at;  *)
(* then the chunk around it is read once, for all candidates in it.        *)
StartFilter ==
  /\ scan.pc = "idle"
  /\ \E filter \in Filters :
       /\ scan' = IF scan.candidates = <<>> THEN scan
                  ELSE [scan EXCEPT !.pc = "filter", !.filter = filter,
                                    !.at = 1, !.filtered = <<>>]
       /\ past' = IF filter = "unchanged" THEN past ELSE [past EXCEPT !.onlyUnchanged = FALSE]
  /\ UNCHANGED game

FilterRegion ==
  /\ scan.pc = "filter"
  /\ IF scan.at > Len(scan.candidates)
     THEN scan' = [scan EXCEPT !.pc = "idle", !.candidates = scan.filtered, !.filtered = <<>>]
     ELSE LET regions == { i \in RegionsOf(scan.candidates[scan.at].address) : Writable(i) }
          IN IF regions = {} THEN scan' = [scan EXCEPT !.at = @ + 1]
             ELSE \E i \in regions : scan' = [scan EXCEPT !.pc = "read", !.region = i]
  /\ UNCHANGED <<game, past>>

ChunkBase(i, a) == IF a - (a % Chunk) > Regions[i].base THEN a - (a % Chunk) ELSE Regions[i].base
Batch(i) ==
  LET base == ChunkBase(i, scan.candidates[scan.at].address)
      end == IF base + Chunk < Regions[i].end THEN base + Chunk ELSE Regions[i].end
  IN { n \in scan.at..Len(scan.candidates) :
         scan.candidates[n].address >= base /\ scan.candidates[n].address < end }
Kept(c) == Matches(scan.kind, scan.filter, c.previous, game.value[c.address])

FilterChunk ==
  /\ scan.pc = "read"
  /\ LET batch == Batch(scan.region)
         kept == InOrder({ n \in batch : Kept(scan.candidates[n]) })
         found == [n \in 1..Len(kept) |-> Capture(scan.candidates[kept[n]].address)]
     IN scan' = [scan EXCEPT !.pc = "filter", !.at = Max(batch) + 1,
                             !.filtered = IF Readable(scan.region) THEN @ \o found ELSE @]
  /\ UNCHANGED <<game, past>>

-----------------------------------------------------------------------------
IdleScan ==
  [ pc |-> "idle", kind |-> "int", filter |-> "changed", at |-> 0, region |-> 1,
    range |-> [low |-> DefaultLowest, high |-> DefaultHighest],
    candidates |-> <<>>, filtered |-> <<>>, truncated |-> FALSE ]
ScanInit ==
  /\ \E v \in [InRegions -> Values] :
       game = [value |-> v, access |-> [i \in DOMAIN Regions |-> "writable"], events |-> 0]
  /\ scan = IdleScan
  /\ past = NewPast(FALSE)
ScanNext ==
  \/ GameWrites \/ GameProtects \/ StartScan \/ StartRegion \/ StartChunk
  \/ StartFilter \/ FilterRegion \/ FilterChunk
ScanSpec == ScanInit /\ [][ScanNext]_scanVars

-----------------------------------------------------------------------------
ScanTypeOK ==
  /\ scan.pc \in {"idle", "start", "chunk", "filter", "read"}
  /\ Len(scan.candidates) <= CandidateLimit
  /\ Range(scan.candidates) \cup Range(scan.filtered) \subseteq [address : Words, previous : Values]

(* Between commands the candidates lie in order in the range scanned, none *)
(* twice; and whatever the game did to other words and regions, a word it  *)
(* left alone in memory that could be scanned is a candidate with its      *)
(* value for as long as only "unchanged" was asked for, and none after     *)
(* another filter.  Of a range that is not aligned, and of a capture that  *)
(* met the limit, only the order and the second half are claimed           *)
(* (external_tool.cpp:322-462, 464-556, 635-677).                          *)
Scannable(w) ==
  /\ w >= scan.range.low /\ w + Word <= scan.range.high
  /\ \E i \in RegionsOf(w) : Regions[i].private /\ Writable(i)
  /\ Finite(scan.kind, game.value[w])
Addresses == { c.address : c \in Range(scan.candidates) }
ScanKeepsMatches ==
  scan.pc = "idle" /\ past.valid =>
    /\ \A m, n \in DOMAIN scan.candidates :
         m < n => scan.candidates[m].address < scan.candidates[n].address
    /\ \A a \in Addresses : a >= scan.range.low /\ a + Word <= scan.range.high
    /\ past.onlyUnchanged /\ ~scan.truncated /\ scan.range.low % Word = 0 =>
         \A w \in past.untouched : Scannable(w) => Capture(w) \in Range(scan.candidates)
    /\ ~past.onlyUnchanged => Addresses \cap past.untouched = {}
=============================================================================

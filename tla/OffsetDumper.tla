---------------------------- MODULE OffsetDumper ----------------------------
(***************************************************************************)
(* The offset dumper (cs2-dumper-cpp-standalone): a run of main reads a    *)
(* signature file, whose candidates go before the built-in ones, opens the *)
(* game, and publishes what four stages found: buttons, interfaces,        *)
(* offsets and schemas.  The game may end between any two steps, after     *)
(* which nothing more is read of it; a stage that fails publishes nothing  *)
(* and the others go on.                                                   *)
(*                                                                         *)
(* An offset is a pair <<module, name>>.  What a pattern finds in a module *)
(* (PatternScanner) is a value, or NoValue when it does not parse or does  *)
(* not match exactly once.                                                 *)
(***************************************************************************)
EXTENDS Integers, SequencesExt

CONSTANTS
  BuiltIn,        \* SignatureDatabase::defaults: sequence of candidates
                  \* [offset, kind, callback, pattern]
  Files,          \* signature files: sequences of candidates
  Alphabetical,   \* offsets in the order of std::map, without special names
  Results,        \* the patterns, each to the values it may find
  Lists,          \* linked lists of the game: a node to the next one, or 0
  Modules,        \* modules of the game, in the order of its list
  Scopes,         \* modules of the scopes of the schema system, in order
  Bindings,       \* classes and enumerations bound in a scope
  ModuleSize,     \* size of an image
  ImmediateLimit, \* 0x10000000
  Sensitivity,    \* offset.dwSensitivity_sensitivity of the layout
  NoValue         \* no value

(* Signatures are lists, whose patterns are those of Results; the keys of a *)
(* std::map are in an order without repetition.                            *)
ASSUME DumperAssumption ==
  /\ ModuleSize \in Nat /\ ImmediateLimit \in Nat /\ Sensitivity \in Nat
  /\ \A p \in DOMAIN Results : Results[p] \subseteq Nat
  /\ NoValue \notin Nat
  /\ \A l \in Lists : \A n \in DOMAIN l : l[n] \in DOMAIN l \cup {0}
  /\ \A s \in Files \cup {BuiltIn} :
       s \in Seq(Range(s)) /\ \A i \in DOMAIN s : s[i].pattern \in DOMAIN Results
  /\ Alphabetical \in Seq(Range(Alphabetical))
  /\ \A i, j \in DOMAIN Alphabetical : Alphabetical[i] = Alphabetical[j] => i = j

VARIABLES
  target,  \* the game: whether it runs, what patterns find, a linked list
  dump     \* the dumper: signatures, stage, images and results

dumpVars == <<target, dump>>

-----------------------------------------------------------------------------
(* SignatureDatabase. *)

(* Mutant: the entries of the file come after the built-in ones. *)
Appended(file) == BuiltIn \o file

Prepended(file) == file \o BuiltIn
Offsets == { Alphabetical[i] : i \in DOMAIN Alphabetical }
Candidates(s, o) == { i \in DOMAIN s : s[i].offset = o }

(* resolve_signature: the first candidate that matches and is plausible. *)
Plausible(c) ==
  LET v == target.found[c.pattern]
  IN v # NoValue /\ IF c.kind = "rva" THEN v < ModuleSize ELSE v <= ImmediateLimit
Usable(s, o) == { i \in Candidates(s, o) : Plausible(s[i]) }
Resolve(s, o) ==
  IF Usable(s, o) = {} THEN NoValue ELSE target.found[s[Min(Usable(s, o))].pattern]

Button == <<"client", "__ButtonList">>
System == <<"schemasystem", "__SchemaSystem">>
Build == <<"engine2", "dwBuildNumber">>
Window == {<<"engine2", "dwWindowWidth">>, <<"engine2", "dwWindowHeight">>}

-----------------------------------------------------------------------------
(* main: configuration and process.  A malformed file ends the run. *)
Configure ==
  /\ dump.pc = "configure"
  /\ \/ \E file \in Files \cup {<<>>} :
          dump' = [dump EXCEPT !.pc = "open", !.file = file, !.signatures = Prepended(file)]
     \/ dump' = [dump EXCEPT !.pc = "failed"]
  /\ UNCHANGED target
Open ==
  /\ dump.pc = "open"
  /\ dump' = [dump EXCEPT !.pc = IF target.runs THEN "buttons" ELSE "failed"]
  /\ UNCHANGED target
GameExits ==
  /\ target.runs /\ dump.pc \notin {"configure", "failed", "done"}
  /\ target' = [target EXCEPT !.runs = FALSE]
  /\ UNCHANGED dump

-----------------------------------------------------------------------------
(* analyze_buttons walks a list from its head to its end or back into     *)
(* itself, unless the image, the signature or a read fails: an exception,  *)
(* after which the nodes found are gone.                                   *)
HeadOf(list) == IF list = <<>> THEN 0 ELSE 1
Ended == dump.at = 0 \/ dump.at \in dump.seen
FindButtons ==
  /\ dump.pc = "buttons"
  /\ \E fails \in BOOLEAN :
       /\ ~fails => target.runs /\ Resolve(dump.signatures, Button) # NoValue
       /\ dump' = IF fails THEN [dump EXCEPT !.pc = "interfaces"]
                  ELSE [dump EXCEPT !.pc = "button", !.at = HeadOf(target.list)]
  /\ UNCHANGED target
ButtonNode ==
  /\ dump.pc = "button"
  /\ \/ /\ Ended
        /\ dump' = [dump EXCEPT !.pc = "interfaces", !.buttons = dump.seen, !.seen = {}]
     \/ /\ ~Ended /\ target.runs
        /\ dump' = [dump EXCEPT !.seen = @ \cup {dump.at}, !.at = target.list[@]]
     \/ /\ ~Ended
        /\ dump' = [dump EXCEPT !.pc = "interfaces", !.seen = {}]
  /\ UNCHANGED target

(* analyze_interfaces walks the list of every module it can read; a read   *)
(* that fails ends the walk and keeps what it found.  An interface counts  *)
(* when its factory can be decoded to an instance in the module.           *)
InterfaceModule ==
  /\ dump.pc = "interfaces"
  /\ \/ /\ dump.module > Len(Modules)
        /\ dump' = [dump EXCEPT !.pc = "offsets"]
     \/ /\ dump.module <= Len(Modules) /\ target.runs
        /\ dump' = [dump EXCEPT !.pc = "interface", !.at = HeadOf(target.list)]
     \/ /\ dump.module <= Len(Modules)
        /\ dump' = [dump EXCEPT !.module = @ + 1]
  /\ UNCHANGED target
InterfaceNode ==
  /\ dump.pc = "interface"
  /\ LET next == [dump EXCEPT !.pc = "interfaces", !.module = @ + 1, !.seen = {}]
     IN \/ Ended /\ dump' = next
        \/ /\ ~Ended /\ target.runs
           /\ \E inside \in BOOLEAN :
                dump' = [dump EXCEPT !.seen = @ \cup {dump.at}, !.at = target.list[@],
                           !.interfaces = IF inside THEN @ \cup {<<Modules[dump.module], dump.at>>}
                                          ELSE @]
        \/ ~Ended /\ dump' = next
  /\ UNCHANGED target

(* analyze_offsets: one group of candidates.  An image is loaded for the   *)
(* first group of its module and kept; a group whose image cannot be       *)
(* loaded is left out.                                                     *)
Callback(s, o) == s[Min(Candidates(s, o))].callback
ExtraOf(o, callback) ==
  <<o[1], IF callback = "view_angles" THEN "__ViewAngles" ELSE "__LocalPlayerPawn">>
DerivedOf(o, callback) ==
  <<o[1], IF callback = "view_angles" THEN "dwViewAngles" ELSE "dwLocalPlayerPawn">>

With(f, o, v) == [p \in DOMAIN f \cup {o} |-> IF p = o THEN v ELSE f[p]]
Called(f, o, v) ==
  LET callback == Callback(dump.signatures, o)
      extra == Resolve(dump.signatures, ExtraOf(o, callback))
  IN IF callback # "none" /\ extra # NoValue
     THEN With(f, DerivedOf(o, callback), v + extra) ELSE f
ConfiguredOf(o) == <<o[1], "dwSensitivity_sensitivity">>
Configured(f, o) ==
  IF o[2] = "dwSensitivity" THEN With(f, ConfiguredOf(o), Sensitivity) ELSE f
Published(o) ==
  LET v == Resolve(dump.signatures, o)
  IN IF v = NoValue THEN dump.offsets
     ELSE Configured(Called(With(dump.offsets, o, v), o, v), o)

OffsetGroup ==
  /\ dump.pc = "offsets" /\ dump.next <= Len(Alphabetical)
  /\ \E loads \in BOOLEAN :
       LET o == Alphabetical[dump.next]
           loaded == o[1] \in dump.images \/ loads
           step == [dump EXCEPT !.next = @ + 1]
       IN /\ loads => target.runs
          /\ dump' = IF Candidates(dump.signatures, o) = {} THEN step
                     ELSE IF ~loaded THEN [step EXCEPT !.skipped = @ \cup {o}]
                     ELSE [step EXCEPT !.images = @ \cup {o[1]}, !.offsets = Published(o)]
  /\ UNCHANGED target

(* validate_runtime_offsets: an implausible or unreadable build number and *)
(* an implausible window size are rejected, as long as the game runs.      *)
Without(f, S) == [o \in DOMAIN f \ S |-> f[o]]
Validate ==
  /\ dump.pc = "offsets" /\ dump.next > Len(Alphabetical)
  /\ \E bad \in SUBSET (({Build} \cup Window) \cap DOMAIN dump.offsets) :
       /\ bad # {} => target.runs
       /\ bad \cap Window \in {{}, Window}
       /\ dump' = [dump EXCEPT !.pc = "schemas", !.rejected = bad,
                               !.offsets = Without(@, bad)]
  /\ UNCHANGED target

(* analyze_schemas finds the schema system by its interface or by its     *)
(* signature, and probes it.  Of each scope it reads the bindings it can,  *)
(* and a scope without any is left out; none at all is an exception.       *)
SystemFound(interface, probed) ==
  probed /\ (interface \/ Resolve(dump.signatures, System) # NoValue)
FindSchemas ==
  /\ dump.pc = "schemas"
  /\ \E interface, probed \in BOOLEAN :
       /\ interface \/ probed => target.runs
       /\ dump' = IF SystemFound(interface, probed) THEN [dump EXCEPT !.pc = "scope", !.at = 1]
                  ELSE [dump EXCEPT !.pc = "output"]
  /\ UNCHANGED target

Elements == IF target.runs THEN SUBSET Bindings ELSE {{}}
ReadScope ==
  /\ dump.pc = "scope"
  /\ \/ /\ dump.at > Len(Scopes)
        /\ dump' = [dump EXCEPT !.pc = "output"]
     \/ /\ dump.at <= Len(Scopes)
        /\ \E read \in Elements :
             dump' = [dump EXCEPT !.at = @ + 1, !.schemas =
                        IF read = {} THEN @ ELSE With(@, Scopes[dump.at], read)]
  /\ UNCHANGED target

(* dump_all: each file is written over the one before; a write that fails  *)
(* ends the run.  The build number is read once more for info.json.        *)
DumpAll ==
  /\ dump.pc = "output"
  /\ \/ \E build \in BOOLEAN :
          /\ build => target.runs /\ \E o \in DOMAIN dump.offsets : o[2] = "dwBuildNumber"
          /\ dump' = [dump EXCEPT !.pc = "done", !.info = build]
     \/ dump' = [dump EXCEPT !.pc = "failed"]
  /\ UNCHANGED target

-----------------------------------------------------------------------------
NewDump ==
  [ pc |-> "configure", file |-> <<>>, signatures |-> BuiltIn, images |-> {},
    at |-> 0, seen |-> {}, module |-> 1, next |-> 1,
    buttons |-> {}, interfaces |-> {}, offsets |-> <<>>, schemas |-> <<>>,
    skipped |-> {}, rejected |-> {}, info |-> FALSE ]
AnyResult == {NoValue} \cup UNION { Results[p] : p \in DOMAIN Results }
DumpInit ==
  /\ \E f \in [DOMAIN Results -> AnyResult], l \in Lists :
       /\ \A p \in DOMAIN Results : f[p] \in Results[p] \cup {NoValue}
       /\ target = [runs |-> TRUE, found |-> f, list |-> l]
  /\ dump = NewDump
DumpNext ==
  \/ Configure \/ Open \/ GameExits \/ FindButtons \/ ButtonNode
  \/ InterfaceModule \/ InterfaceNode \/ OffsetGroup \/ Validate
  \/ FindSchemas \/ ReadScope \/ DumpAll
DumpSpec == DumpInit /\ [][DumpNext]_dumpVars

-----------------------------------------------------------------------------
Stages == {"configure", "open", "buttons", "button", "interfaces", "interface",
           "offsets", "schemas", "scope", "output", "done", "failed"}
DumpTypeOK ==
  /\ dump.pc \in Stages /\ dump.images \subseteq { o[1] : o \in Offsets }
  /\ \A o \in DOMAIN dump.offsets : dump.offsets[o] \in Nat

(* Whatever matched and whenever the game ended, an offset whose image was *)
(* loaded has the value of the first usable candidate of the file, or else *)
(* of the first usable built-in one, and is left out only when there is    *)
(* none or the running game refuted it.  An offset that a later one's      *)
(* callback derives is their sum when both parts are found, and so is one  *)
(* derived before that has no usable candidate itself; a configured offset *)
(* is published with the one it belongs to.  Buttons are published to the  *)
(* end of their list or not at all (runtime_config.cpp:151-172,            *)
(* analysis.cpp:168-187, 429-453, 473-512).                                *)
FirstUsable(s, o) ==
  { i \in DOMAIN s : /\ s[i].offset = o /\ Plausible(s[i])
                     /\ \A j \in 1..(i - 1) : s[j].offset = o => ~Plausible(s[j]) }
Documented(o) ==
  LET s == IF FirstUsable(dump.file, o) # {} THEN dump.file ELSE BuiltIn
  IN { target.found[s[i].pattern] : i \in FirstUsable(s, o) }

Own(o) == IF o \in dump.skipped THEN {} ELSE Documented(o)

(* What the group at k publishes as o besides its own value: the sum of its *)
(* callback, or the configured sensitivity.                                *)
Derived(o, k) ==
  LET g == Alphabetical[k]
      callback == Callback(dump.signatures, g)
      sums == IF /\ Candidates(dump.signatures, g) # {}
                 /\ callback # "none" /\ o = DerivedOf(g, callback)
              THEN { a + b : a \in Own(g), b \in Documented(ExtraOf(g, callback)) } ELSE {}
  IN IF g[2] = "dwSensitivity" /\ o = ConfiguredOf(g) /\ Own(g) # {}
     THEN {Sensitivity} ELSE sums
DerivedIn(o, n) == UNION { Derived(o, k) : k \in n }
Expected(o, n) ==
  LET later == DerivedIn(o, n..Len(Alphabetical))
  IN IF later # {} THEN later
     ELSE IF Own(o) # {} THEN Own(o) ELSE DerivedIn(o, 1..(n - 1))
DumpFollowsOrder ==
  dump.pc \in {"schemas", "scope", "output", "done"} =>
    /\ dump.buttons # {} => \A n \in dump.buttons : target.list[n] \in dump.buttons \cup {0}
    /\ \A n \in DOMAIN Alphabetical :
         LET o == Alphabetical[n]
         IN IF o \in DOMAIN dump.offsets THEN dump.offsets[o] \in Expected(o, n)
            ELSE Expected(o, n) = {} \/ o \in dump.rejected
=============================================================================

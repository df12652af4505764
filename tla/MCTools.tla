------------------------------ MODULE MCTools -------------------------------
(* One of three programs that share nothing: the overlay's radar, the      *)
(* island tool's scanner or the dumper.  The others rest in their first    *)
(* state.                                                                  *)
EXTENDS LocalRadar, MemoryScanner, OffsetDumper

VARIABLE subject
vars == <<subject, radarVars, scanVars, dumpVars>>

(* The radar: a map with two floors, one without extent, and an image of   *)
(* its own; one with a single floor; and a map that is not in the catalog. *)
MCDefinitions ==
  [ nuke |-> [ image |-> "nuke", levels |-> <<
                 [image |-> "nuke_upper", min |-> 0, max |-> 100],
                 [image |-> "nuke_void", min |-> 50, max |-> 50],
                 [image |-> "nuke_lower", min |-> -100, max |-> 0] >> ],
    dust2 |-> [ image |-> "dust2", levels |-> <<[image |-> "dust2", min |-> -50, max |-> 50]>> ] ]
MCMapNames == {"nuke", "dust2", "unknown"}
MCPlayerIds == <<1, 2>>
MCPlaces == {-60, -20, 20, 200}

(* The scanner: a private region of two chunks, one that is not private, a *)
(* gap, and a private region of half a chunk, in ranges whole, unaligned   *)
(* and empty.  The words of the last two begin with fixed values.          *)
MCRegions == <<
  [base |-> 2, end |-> 8, private |-> TRUE], [base |-> 8, end |-> 10, private |-> FALSE],
  [base |-> 12, end |-> 14, private |-> TRUE] >>
MCRanges == { [low |-> 0, high |-> 14], [low |-> 3, high |-> 13], [low |-> 8, high |-> 8] }

(* The dumper: an offset with two candidates, two that derive another, one *)
(* that comes with a configured one, a file that replaces a candidate and  *)
(* takes its callback away, and one that gives derived offsets candidates  *)
(* of their own.  Lists that are not empty come with patterns that all     *)
(* match.                                                                  *)
Candidate(o, kind, callback, pattern) ==
  [offset |-> o, kind |-> kind, callback |-> callback, pattern |-> pattern]
Prediction == <<"client", "dwPrediction">>
Pawn == <<"client", "dwLocalPlayerPawn">>
Input == <<"client", "dwCSGOInput">>
Angles == <<"client", "dwViewAngles">>
Sensed == <<"client", "dwSensitivity">>
MCAlphabetical == <<Input, Pawn, Prediction, Sensed, ConfiguredOf(Sensed), Angles, Build>>
MCBuiltIn == <<
  Candidate(Button, "rva", "none", "a"),
  Candidate(<<"client", "__ViewAngles">>, "imm", "none", "b"),
  Candidate(<<"client", "__LocalPlayerPawn">>, "imm", "none", "b"),
  Candidate(Input, "rva", "view_angles", "a"),
  Candidate(Prediction, "rva", "local_player_pawn", "a"),
  Candidate(Sensed, "rva", "none", "a"),
  Candidate(Build, "rva", "none", "b"), Candidate(Build, "rva", "none", "c") >>
MCFiles == {
  <<Candidate(Build, "rva", "none", "d"), Candidate(Prediction, "rva", "none", "c")>>,
  <<Candidate(Pawn, "imm", "none", "d"), Candidate(Angles, "imm", "none", "d")>> }
MCResults == [a |-> {1, 12}, b |-> {2}, c |-> {3, 12}, d |-> {4, 12}]
MCLists == {<<>>, <<2, 0>>, <<2, 1>>}
MCModules == <<"client", "engine2">>
MCScopes == <<"client", "client">>

ScanRests ==
  /\ game = [value |-> [w \in InRegions |-> CHOOSE v \in Values : TRUE],
             access |-> [i \in DOMAIN Regions |-> "writable"], events |-> 0]
  /\ scan = IdleScan /\ past = NewPast(FALSE)
DumpRests ==
  /\ target = [runs |-> FALSE, found |-> [p \in DOMAIN Results |-> NoValue], list |-> <<>>]
  /\ dump = NewDump

Init ==
  /\ RadarInit
  /\ \/ subject = "radar" /\ ScanRests /\ DumpRests
     \/ subject = "scanner" /\ ScanInit /\ DumpRests
        /\ game.value[8] = 1 /\ game.value[12] = 2
     \/ subject = "dumper" /\ ScanRests /\ DumpInit
        /\ (target.list = <<>> \/ target.found = [a |-> 1, b |-> 2, c |-> 3, d |-> 4])
Next ==
  \/ subject = "radar" /\ RadarNext /\ UNCHANGED <<subject, scanVars, dumpVars>>
  \/ subject = "scanner" /\ ScanNext /\ UNCHANGED <<subject, radarVars, dumpVars>>
  \/ subject = "dumper" /\ DumpNext /\ UNCHANGED <<subject, radarVars, scanVars>>
Spec == Init /\ [][Next]_vars

(* Every program's state has its type and keeps within its limits: cached  *)
(* textures (local_fixed_radar.cpp:325-340), candidates and the values of  *)
(* their words (external_tool.cpp:430-452), images (analysis.cpp:473-485). *)
ToolsTypeOK == RadarTypeOK /\ ScanTypeOK /\ DumpTypeOK
=============================================================================

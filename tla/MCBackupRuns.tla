---------------------------- MODULE MCBackupRuns ----------------------------
(***************************************************************************)
(* Instances of BackupRuns: one or two destinations that come first, the   *)
(* others parallel, and two that share a name or, unnamed and on two       *)
(* servers, a path.                                                        *)
(***************************************************************************)
EXTENDS BackupRuns, TLC

\* Two destinations of the same name.
TwoPlaces == "d1" :> 1 @@ "d2" :> 2
SameName  == [d \in Dests |-> "home"]
OwnPath   == [d \in Dests |-> d]

\* Three destinations, each with a name of its own.
ThreePlaces == "d1" :> 1 @@ "d2" :> 2 @@ "d3" :> 3
OwnName     == [d \in Dests |-> "home " \o d]

\* Four destinations: d3 and d4 have one path and no name.
FourPlaces == "d2" :> 1 @@ "d1" :> 2 @@ "d3" :> 3 @@ "d4" :> 4
TwoNamed   == [d \in Dests |-> IF d \in {"d3", "d4"} THEN "" ELSE "home " \o d]
SharedPath == [d \in Dests |-> IF d \in {"d3", "d4"} THEN "/backup" ELSE d]
=============================================================================

---------------------------- MODULE MCIncremental ----------------------------
(***************************************************************************)
(* Instances of Incremental: a plain file, or a plain file and a database  *)
(* dump, in two versions of equal size that differ in content and mtime.   *)
(***************************************************************************)
EXTENDS Incremental, TLC

MCContentOf == "v1" :> "c1" @@ "v2" :> "c2"
MCSizeOf    == "v1" :> 1    @@ "v2" :> 1
MCMtimeOf   == "v1" :> 1    @@ "v2" :> 2
=============================================================================

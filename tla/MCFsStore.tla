------------------------------ MODULE MCFsStore ------------------------------
(***************************************************************************)
(* An instance of FsStore.tla for TLC: two clients, and two maps, one with *)
(* two keys for one file and a key that leaves the directory.              *)
(***************************************************************************)
EXTENDS FsStoreProperties, TLC

CONSTANTS c1, c2, app, lib, appToo, up, x, y

MCPath == app :> app @@ lib :> lib @@ appToo :> app @@ up :> NoPath

MCMaps == { app :> x @@ lib :> x, app :> y @@ appToo :> x @@ up :> y }

\* The properties promise nothing once threads overlap: TLC goes no further.
UntilOverlap == ~overlapped
=============================================================================

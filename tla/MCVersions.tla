----------------------------- MODULE MCVersions -----------------------------
(***************************************************************************)
(* Versions for TLC.  Once files and conversation may have come apart, two *)
(* turns and rollbacks in all are followed: only what the explorer shows   *)
(* is asked of those states.                                               *)
(***************************************************************************)
EXTENDS VersionsProperties

Followed == torn => turns + asked <= 2
=============================================================================

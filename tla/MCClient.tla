------------------------------ MODULE MCClient ------------------------------
(* An instance of Client: two projects. *)
EXTENDS ClientProperties

CONSTANTS p1, p2

MCProject == {p1, p2}
=============================================================================

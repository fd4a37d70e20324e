------------------------------ MODULE MCViews -------------------------------
(* An instance of Views: files of two different lines. *)
EXTENDS Views

CONSTANTS x, y

MCText == {x, y}
=============================================================================

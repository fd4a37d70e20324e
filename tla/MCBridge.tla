------------------------------ MODULE MCBridge ------------------------------
(* An instance of Bridge: two calls the host takes and one it does not. *)
EXTENDS BridgeProperties

CONSTANTS c1, c2, c3, i1, i2, i3

MCCall    == {c1, c2, c3}
MCForeign == {c3}
MCId      == {i1, i2, i3}
=============================================================================

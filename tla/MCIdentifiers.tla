---------------------------- MODULE MCIdentifiers ----------------------------
(***************************************************************************)
(* An instance of Identifiers for TLC: the extremes of a signed byte, both *)
(* sides of zero, and the codes.                                           *)
(***************************************************************************)
EXTENDS Identifiers

Boundary == {-128, -1, 0, 1, ModuleIdentifierCode, ServiceIdentifierCode, 127}
=============================================================================

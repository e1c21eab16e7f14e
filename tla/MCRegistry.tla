----------------------------- MODULE MCRegistry -----------------------------
(***************************************************************************)
(* Registry.tla for TLC.  Connections and Charge Point IDs are model       *)
(* values nothing tells apart.                                             *)
(***************************************************************************)
EXTENDS Registry, TLC

Symmetry == Permutations(Conns) \cup Permutations(Chargers)
=============================================================================

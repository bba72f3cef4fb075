------------------------------- MODULE MC_MSI -------------------------------
(* Small instances of the MSI protocol for TLC. *)
EXTENDS MSI, TLC

Symmetry == Permutations(Caches)
=============================================================================

--------------------------- MODULE MC_SimpleCache ---------------------------
(* Small instances of the simple cache for TLC. *)
EXTENDS SimpleCache, TLC

Symmetry == Permutations(Ports) \cup Permutations(Addrs) \cup Permutations(Words)
=============================================================================

--------------------------- MODULE MCLocalStorage ---------------------------
(***************************************************************************)
(* LocalStorage for TLC: calls and descriptors are interchangeable.        *)
(***************************************************************************)
EXTENDS LocalStorage, TLC

Symmetry == Permutations(Calls) \cup Permutations(Fds)
=============================================================================

-------------------------- MODULE MCCustomization --------------------------
(* Small instances of Customization for TLC. *)
EXTENDS Customization, TLC

\* Edits, handlers and looks are only compared.
Symmetry == Permutations(Edits) \cup Permutations(Handlers) \cup Permutations(Looks)
=============================================================================

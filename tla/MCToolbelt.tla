----------------------------- MODULE MCToolbelt -----------------------------
(* Instance of Toolbelt for TLC: devices and runs are interchangeable,      *)
(* certificates are numbered.                                               *)
EXTENDS Toolbelt, TLC

Symmetry == Permutations(Devices)

=============================================================================

-------------------------------- MODULE MCAcme --------------------------------
(***************************************************************************)
(* Instances of AcmeRenewal for TLC.                                       *)
(***************************************************************************)
EXTENDS AcmeRenewal, TLC

\* Threads and orders are interchangeable; not used where liveness is checked.
Symmetry == Permutations(Workers) \cup Permutations(Orders)

=============================================================================

-------------------------------- MODULE MCStore --------------------------------
(***************************************************************************)
(* Instances of CertificateStore for TLC.                                  *)
(***************************************************************************)
EXTENDS CertificateStore, TLC

\* Threads, certificates and devices are interchangeable; not used where
\* liveness is checked.
Symmetry == Permutations(Workers) \cup Permutations(Certificates)

=============================================================================

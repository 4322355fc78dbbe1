------------------------------ MODULE MCDirect ------------------------------
(* The model values of the direct-delivery runs may be exchanged: no action *)
(* and no property of DirectDelivery names one of them.                    *)
EXTENDS DirectDelivery, TLC

Symmetry == Permutations(Targets) \cup Permutations(Names)
=============================================================================

---------------------------- MODULE RenewalStates ----------------------------
(***************************************************************************)
(* The states of a renewal job and the table of the transitions a job may  *)
(* make between them (certmon/models.py).  Every workflow that changes a   *)
(* job goes through this table.                                            *)
(***************************************************************************)

\* class RenewalState.
States ==
  {"draft", "awaiting_dns", "validating", "issuing", "awaiting_external_ca",
   "issued", "deployment_pending", "deployed", "cleanup_required",
   "cancelled", "failed"}

\* ALLOWED_TRANSITIONS: for each state, the states a job in it may move to.
AllowedTransitions ==
  [s \in States |->
     CASE s = "draft" -> {"awaiting_dns", "awaiting_external_ca", "issuing",
                          "issued", "cancelled", "failed"}
       [] s = "awaiting_dns" -> {"validating", "cancelled",
                                 "cleanup_required", "failed"}
       [] s = "validating" -> {"issuing", "cleanup_required", "failed"}
       [] s = "issuing" -> {"issued", "cleanup_required", "failed"}
       [] s = "awaiting_external_ca" -> {"issued", "cancelled", "failed"}
       [] s = "issued" -> {"deployment_pending", "failed"}
       [] s = "deployment_pending" -> {"deployed", "failed"}
       [] s = "cleanup_required" -> {"issued", "cancelled", "failed"}
       [] OTHER -> {}]

\* validate_transition: raises InvalidTransition exactly when this is FALSE.
ValidTransition(from, to) == from \in States /\ to \in AllowedTransitions[from]

\* A row of renewal_jobs that does not exist: not inserted yet, or deleted.
NoRow == {"absent", "deleted"}

\* The states delete_terminal_job accepts for an ordinary job.
Deletable == {"cancelled", "deployed", "deployment_pending", "failed", "issued"}

=============================================================================

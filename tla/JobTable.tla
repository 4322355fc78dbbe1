------------------------------- MODULE JobTable -------------------------------
(***************************************************************************)
(* What the renewal_jobs table promises to everyone who reads it, whatever *)
(* the workflows running on it do: a job is inserted once as a draft, every *)
(* change moves it along AllowedTransitions and raises its version by one,  *)
(* and it is deleted only from a state delete_terminal_job accepts.         *)
(* The workflow modules implement this specification.                       *)
(***************************************************************************)
EXTENDS Naturals, RenewalStates

CONSTANTS Jobs,          \* job identifiers (uuid4, never reused)
          Certificates,  \* certificate identifiers
          NoCertificate, \* the NULL of renewal_jobs.certificate_id
          ExistingJobs   \* external_ca jobs of the workflow "existing"

VARIABLE row             \* renewal_jobs, as a function of the job identifier

Row == [state : States \cup NoRow, version : Nat,
        cert : Certificates \cup {NoCertificate}]

\* The columns of a row that is not there.
Missing(s) == [state |-> s, version |-> 0, cert |-> NoCertificate]

TableTypeOK == row \in [Jobs -> Row]

Init == row = [j \in Jobs |-> Missing("absent")]

\* Database.create_job, called by RenewalService.create_job with state draft.
Insert(j) ==
  /\ row[j].state = "absent"
  /\ row' = [row EXCEPT ![j] = Missing("draft")]

\* The UPDATE of Database.transition_job: the new state and the next version.
\* A certificate is attached at most once and never exchanged for another.
Move(j, s, c) ==
  /\ ValidTransition(row[j].state, s)
  /\ row[j].cert \in {NoCertificate, c}
  /\ row' = [row EXCEPT ![j] = [state |-> s, version |-> row[j].version + 1,
                                cert |-> c]]

\* The UPDATE of compare_and_set_job as _update_job uses it: a job that waits for
\* deployment gets another error and the next version.
Touch(j) ==
  /\ row[j].state = "deployment_pending"
  /\ row' = [row EXCEPT ![j].version = @ + 1]

\* Database.delete_job, called by RenewalService.delete_terminal_job.  The state
\* is looked at before, and not again: a draft of the existing workflow may have
\* gone on to awaiting_external_ca when it is deleted.
Remove(j) ==
  /\ \/ row[j].state \in Deletable
     \/ j \in ExistingJobs /\ row[j].state \in {"draft", "awaiting_external_ca"}
  /\ row' = [row EXCEPT ![j] = Missing("deleted")]

Next ==
  \E j \in Jobs :
    \/ Insert(j)
    \/ \E s \in States, c \in Certificates \cup {NoCertificate} : Move(j, s, c)
    \/ Touch(j)
    \/ Remove(j)

Spec == Init /\ [][Next]_row

=============================================================================

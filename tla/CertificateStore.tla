--------------------------- MODULE CertificateStore ---------------------------
(***************************************************************************)
(* How certificates that do not come from ACME get into the store, onto     *)
(* devices and out of the store again (certmon/external_ca.py,              *)
(* certmon/local_ca.py, certmon/deployment.py, certmon/artifacts.py and the *)
(* routes of app.py that call them).                                        *)
(*                                                                         *)
(* A certificate is two things that no transaction holds together: a        *)
(* directory with its files, made by one rename, and a row of the table     *)
(* certificates, which a renewal job may refer to.  An action is one step   *)
(* of one request thread; between two of them other threads run, or the     *)
(* process stops.                                                          *)
(***************************************************************************)
EXTENDS Naturals, RenewalStates

CONSTANTS
  Jobs,           \* renewal jobs of the issuers external_ca and local_ca
  LocalJobs,      \* those of local_ca
  ExistingJobs,   \* external_ca jobs of the workflow "existing"
  Certificates,   \* certificate identifiers; new_certificate_id never repeats one
  Devices,        \* upload devices
  Workers,        \* threads of the web server
  NoCertificate,
  MaxVersion,     \* bound: deployments of a job stop at this version of its row
  Faults          \* which of FaultKinds may happen

FaultKinds ==
  {"crash",         \* the process stops and is started again
   "io_error",      \* a file or a row cannot be written
   "unread",        \* a row is written, and reading it back for the answer raises
   "locked_files",  \* files cannot be removed, or not all of them
   "device_fails"}  \* a device refuses, or its answer is lost

ASSUME CertificateAssumption == NoCertificate \notin Certificates
ASSUME KindAssumption ==
  /\ LocalJobs \subseteq Jobs
  /\ ExistingJobs \subseteq Jobs \ LocalJobs
ASSUME FaultAssumption == Faults \subseteq FaultKinds

VARIABLES
  row,       \* renewal_jobs: state, version and certificate_id of each job
  pending,   \* jobs whose key set external-<job> is there
  minted,    \* certificate identifiers given out so far
  files,     \* certificates whose artifact set is there
  entries,   \* rows of the table certificates
  serves,    \* what each device presents to a TLS client
  verified,  \* certificates a verifier has seen on a device (history)
  dropped,   \* certificates whose storing a stop cut short, or whose files could
             \* not be taken back (history)
  unread,    \* jobs that came to wait for their external CA although the request
             \* that moved them failed, at reading the row back (history)
  pc,        \* where each thread is
  ctx        \* the locals of each thread

store == <<pending, minted, files, entries>>
devices == <<serves, verified>>
history == <<dropped, unread>>
vars == <<row, store, devices, history, pc, ctx>>

\* No job and no device: NULL.
None == "none"

ASSUME NoneAssumption == None \notin Jobs

Labels ==
  {"idle", "csr_store", "csr_await", "csr_undo", "store", "record", "undo",
   "drop_csr", "finish", "remove_files", "remove_entry", "delete_job",
   "push", "verify", "mark", "mark_deployed", "note"}

\* The locals of a request: the job it read, the certificate it makes,
\* removes or deploys, and the device.
Context == [job : Jobs \cup {None}, state : States \cup {None}, version : Nat,
            cert : Certificates \cup {NoCertificate}, device : Devices \cup {None}]

NoContext == [job |-> None, state |-> None, version |-> 0,
              cert |-> NoCertificate, device |-> None]

Row == [state : States \cup NoRow, version : Nat,
        cert : Certificates \cup {NoCertificate}]

Missing(s) == [state |-> s, version |-> 0, cert |-> NoCertificate]

\* What the locals of a thread are at each label.
ThreadOK(label, c) ==
  /\ label \in Labels
  /\ c \in Context
  /\ label \in {"csr_store", "csr_await", "csr_undo", "drop_csr", "finish",
                "delete_job", "mark_deployed"} => c.job \in Jobs
  /\ label \in {"record", "undo", "finish", "remove_files", "remove_entry", "push",
                "verify", "mark", "mark_deployed", "note"} => c.cert \in Certificates
  /\ label \in {"push", "verify"} => c.device \in Devices

TypeOK ==
  /\ row \in [Jobs -> Row]
  /\ pending \in SUBSET Jobs
  /\ minted \in SUBSET Certificates
  /\ files \in SUBSET Certificates
  /\ entries \in SUBSET Certificates
  /\ serves \in [Devices -> Certificates \cup {NoCertificate}]
  /\ verified \in SUBSET Certificates
  /\ dropped \in SUBSET Certificates
  /\ unread \in SUBSET Jobs
  /\ pc \in [Workers -> Labels]
  /\ ctx \in [Workers -> Context]
  /\ \A w \in Workers : ThreadOK(pc[w], ctx[w])

Init ==
  /\ row = [j \in Jobs |-> Missing("absent")]
  /\ pending = {} /\ minted = {} /\ files = {} /\ entries = {}
  /\ serves = [d \in Devices |-> NoCertificate]
  /\ verified = {} /\ dropped = {} /\ unread = {}
  /\ pc = [w \in Workers |-> "idle"]
  /\ ctx = [w \in Workers |-> NoContext]

(***************************************************************************)
(* What every request is made of                                           *)
(***************************************************************************)

Goto(w, label) == pc' = [pc EXCEPT ![w] = label]

\* The request ends, with a result or with an exception.
Return(w) == Goto(w, "idle") /\ ctx' = [ctx EXCEPT ![w] = NoContext]

\* A request comes in on a free thread, and has read what c holds.
Enter(w, c, label) ==
  /\ pc[w] = "idle"
  /\ Goto(w, label)
  /\ ctx' = [ctx EXCEPT ![w] = c]

\* The row of a job as a request reads it.
Read(j) == [NoContext EXCEPT !.job = j, !.state = row[j].state,
                             !.version = row[j].version]

\* Mutant: the UPDATE looks for the job by its identifier only.
CurrentById(c) == row[c.job].state \in States

\* The WHERE clause of the UPDATE in transition_job and its relatives.
Current(c) == row[c.job].state = c.state /\ row[c.job].version = c.version

\* The UPDATE: the new state, the next version and the certificate.
SetRow(j, to, cert) ==
  row' = [row EXCEPT ![j] = [state |-> to, version |-> row[j].version + 1,
                             cert |-> cert]]

(***************************************************************************)
(* Jobs                                                                    *)
(***************************************************************************)

\* RenewalService.create_job.
CreateJob(j) ==
  /\ row[j].state = "absent"
  /\ row' = [row EXCEPT ![j] = Missing("draft")]
  /\ UNCHANGED <<store, devices, history, pc, ctx>>

\* RenewalService.cancel: reads the job and updates it if no one else did.
CancelJob(j) ==
  /\ ValidTransition(row[j].state, "cancelled")
  /\ SetRow(j, "cancelled", row[j].cert)
  /\ UNCHANGED <<store, devices, history, pc, ctx>>

\* delete_terminal_job looks at the state; a draft of the existing workflow may
\* go as well ...
DeleteTerminalJob(w, j) ==
  /\ row[j].state \in Deletable \/ (row[j].state = "draft" /\ j \in ExistingJobs)
  /\ Enter(w, Read(j), "delete_job")
  /\ UNCHANGED <<row, store, devices, history>>

\* ... and Database.delete_job deletes the row without a condition on it.
DeleteRow(w) ==
  /\ pc[w] = "delete_job"
  /\ \/ row' = [row EXCEPT ![ctx[w].job] = Missing("deleted")]
     \/ "io_error" \in Faults /\ UNCHANGED row
  /\ Return(w)
  /\ UNCHANGED <<store, devices, history>>

(***************************************************************************)
(* External CA: a key and a CSR, and later the certificate                  *)
(***************************************************************************)

\* create_csr_job reads the draft and makes a key.
CreateCsr(w, j) ==
  /\ j \notin LocalJobs
  /\ row[j].state = "draft"
  /\ Enter(w, Read(j), "csr_store")
  /\ UNCHANGED <<row, store, devices, history>>

\* Mutant: the creation of the key set is inside the try that removes it.
StoreCsrInTry(w) ==
  LET j == ctx[w].job IN
  /\ pc[w] = "csr_store"
  /\ IF j \in pending THEN UNCHANGED pending /\ Goto(w, "csr_undo")
                      ELSE pending' = pending \cup {j} /\ Goto(w, "csr_await")
  /\ UNCHANGED <<row, minted, files, entries, devices, history, ctx>>

\* The key set external-<job>: FileExistsError when there is one already.
StoreCsr(w) ==
  LET j == ctx[w].job IN
  /\ pc[w] = "csr_store"
  /\ \/ /\ j \notin pending
        /\ pending' = pending \cup {j}
        /\ Goto(w, "csr_await") /\ UNCHANGED ctx
     \/ /\ j \in pending \/ "io_error" \in Faults
        /\ Return(w) /\ UNCHANGED pending
  /\ UNCHANGED <<row, minted, files, entries, devices, history>>

\* The transition, or the removal of the key set when it fails: before the commit,
\* or after it, when transition_job reads the row back for its result.
AwaitExternalCa(w) ==
  LET c == ctx[w] IN
  /\ pc[w] = "csr_await"
  /\ \/ /\ Current(c)
        /\ SetRow(c.job, "awaiting_external_ca", row[c.job].cert)
        /\ \/ Return(w) /\ UNCHANGED unread
           \/ /\ "unread" \in Faults
              /\ unread' = unread \cup {c.job}
              /\ Goto(w, "csr_undo") /\ UNCHANGED ctx
     \/ /\ ~Current(c) \/ "io_error" \in Faults
        /\ Goto(w, "csr_undo") /\ UNCHANGED <<row, ctx, unread>>
  /\ UNCHANGED <<store, devices, dropped>>

\* The key set of a job is removed, or a locked file of it is in the way.  What
\* is left of a set of which some files went is of no use, and counts as gone.
TakeKey(j) ==
  \/ pending' = pending \ {j}
  \/ "locked_files" \in Faults /\ UNCHANGED pending

UndoCsr(w) ==
  /\ pc[w] = "csr_undo"
  /\ TakeKey(ctx[w].job)
  /\ Return(w)
  /\ UNCHANGED <<row, minted, files, entries, devices, history>>

\* Mutant: the state of the job is not looked at.
CompleteAnyCsr(w, j) ==
  /\ j \in pending
  /\ Enter(w, Read(j), "store")
  /\ UNCHANGED <<row, store, devices, history>>

\* complete_csr_job: the certificate belongs to the key in the key set.
CompleteCsr(w, j) ==
  /\ row[j].state = "awaiting_external_ca"
  /\ j \in pending
  /\ Enter(w, Read(j), "store")
  /\ UNCHANGED <<row, store, devices, history>>

\* import_existing: the user brings the key; any external_ca draft will do.
ImportExisting(w, j) ==
  /\ j \notin LocalJobs
  /\ row[j].state = "draft"
  /\ Enter(w, Read(j), "store")
  /\ UNCHANGED <<row, store, devices, history>>

\* complete_job_with_certificate: the row of certificates and the update of the
\* job are one transaction.
RecordImported(w) ==
  LET c == ctx[w] IN
  /\ pc[w] = "record"
  /\ c.job \in Jobs \ LocalJobs
  /\ \/ /\ Current(c)
        /\ entries' = entries \cup {c.cert}
        /\ SetRow(c.job, "issued", c.cert)
        /\ IF c.state = "awaiting_external_ca" THEN Goto(w, "drop_csr") /\ UNCHANGED ctx
                                               ELSE Return(w)
     \/ /\ ~Current(c) \/ "io_error" \in Faults
        /\ Goto(w, "undo") /\ UNCHANGED <<row, entries, ctx>>
  /\ UNCHANGED <<pending, minted, files, devices, history>>

DropCsr(w) ==
  /\ pc[w] = "drop_csr"
  /\ TakeKey(ctx[w].job)
  /\ Return(w)
  /\ UNCHANGED <<row, minted, files, entries, devices, history>>

(***************************************************************************)
(* Local CA: by a job, or directly from the CA page                         *)
(***************************************************************************)

\* start_renewal of a local_ca job: the transition, before the issuing; the
\* request ends there when the row cannot be read back.
StartLocal(w, j) ==
  /\ j \in LocalJobs
  /\ row[j].state = "draft"
  /\ SetRow(j, "issuing", row[j].cert)
  /\ \/ Enter(w, [Read(j) EXCEPT !.state = "issuing", !.version = @ + 1], "store")
     \/ "unread" \in Faults /\ pc[w] = "idle" /\ UNCHANGED <<pc, ctx>>
  /\ UNCHANGED <<store, devices, history>>

\* ca_issue and ca_issue_bulk.
IssueDirectly(w) ==
  /\ Enter(w, NoContext, "store")
  /\ UNCHANGED <<row, store, devices, history>>

\* create_certificate_set, for an issued or an imported certificate; before it,
\* issuing or validating may have failed.
StoreSet(w) ==
  /\ pc[w] = "store"
  /\ \/ \E c \in Certificates \ minted :
          /\ minted' = minted \cup {c}
          /\ files' = files \cup {c}
          /\ ctx' = [ctx EXCEPT ![w].cert = c]
          /\ Goto(w, "record")
     \/ /\ "io_error" \in Faults
        /\ Return(w) /\ UNCHANGED <<minted, files>>
  /\ UNCHANGED <<row, pending, entries, devices, history>>

\* LocalCAService._store_certificate: put_certificate.
RecordLocal(w) ==
  LET c == ctx[w] IN
  /\ pc[w] = "record"
  /\ c.job \in LocalJobs \cup {None}
  /\ \/ /\ entries' = entries \cup {c.cert}
        /\ IF c.job = None THEN Return(w) ELSE Goto(w, "finish") /\ UNCHANGED ctx
     \/ /\ "io_error" \in Faults
        /\ Goto(w, "undo") /\ UNCHANGED <<entries, ctx>>
  /\ UNCHANGED <<row, pending, minted, files, devices, history>>

\* Mutant: the files are left behind.
UndoNothing(w) ==
  /\ pc[w] = "undo"
  /\ Return(w)
  /\ UNCHANGED <<row, store, devices, history>>

\* The row could not be written: the files go again, unless some of them cannot
\* be removed.
UndoSet(w) ==
  LET c == ctx[w].cert IN
  /\ pc[w] = "undo"
  /\ \/ files' = files \ {c} /\ UNCHANGED dropped
     \/ /\ "locked_files" \in Faults
        /\ files' \in {files, files \ {c}}
        /\ dropped' = dropped \cup {c}
  /\ Return(w)
  /\ UNCHANGED <<row, pending, minted, entries, devices, unread>>

\* start_renewal, the last transition: the foreign key wants the certificate to
\* be there still; any failure leaves the job where it is.
FinishLocal(w) ==
  LET c == ctx[w] IN
  /\ pc[w] = "finish"
  /\ \/ Current(c) /\ c.cert \in entries /\ SetRow(c.job, "issued", c.cert)
     \/ /\ ~Current(c) \/ c.cert \notin entries \/ "io_error" \in Faults
        /\ UNCHANGED row
  /\ Return(w)
  /\ UNCHANGED <<store, devices, history>>

(***************************************************************************)
(* Deleting a stored certificate                                           *)
(***************************************************************************)

\* delete_stored_certificate and ca_delete_issued.
DeleteStored(w, c) ==
  /\ c \in entries
  /\ Enter(w, [NoContext EXCEPT !.cert = c], "remove_files")
  /\ UNCHANGED <<row, store, devices, history>>

\* The files first; when they cannot be removed the row is kept.
RemoveFiles(w) ==
  LET c == ctx[w].cert IN
  /\ pc[w] = "remove_files"
  /\ \/ files' = files \ {c} /\ Goto(w, "remove_entry") /\ UNCHANGED ctx
     \/ "locked_files" \in Faults /\ files' \in {files, files \ {c}} /\ Return(w)
  /\ UNCHANGED <<row, pending, minted, entries, devices, history>>

\* Mutant: a connection without PRAGMA foreign_keys.
RemoveEntryUnchecked(w) ==
  /\ pc[w] = "remove_entry"
  /\ entries' = entries \ {ctx[w].cert}
  /\ Return(w)
  /\ UNCHANGED <<row, pending, minted, files, devices, history>>

\* Whether the row of c may go: the foreign key of renewal_jobs.
Unreferenced(c) == \A j \in Jobs : row[j].cert # c

\* delete_certificate: IntegrityError while a job refers to the row.
RemoveEntry(w) ==
  LET c == ctx[w].cert IN
  /\ pc[w] = "remove_entry"
  /\ \/ Unreferenced(c) /\ entries' = entries \ {c}
     \/ /\ ~Unreferenced(c) \/ "io_error" \in Faults
        /\ UNCHANGED entries
  /\ Return(w)
  /\ UNCHANGED <<row, pending, minted, files, devices, history>>

(***************************************************************************)
(* Deployment                                                              *)
(***************************************************************************)

\* _find_deployable_job and _job_for_certificate: the jobs they accept.
Deployable(c) ==
  {j \in Jobs : row[j].cert = c /\ row[j].state \in {"issued", "deployment_pending"}}

\* deploy_certificate: the certificate is stored; the job, if there is one that
\* can be deployed, is found by it.
Deploy(w, d, c) ==
  /\ c \in entries \cap files
  /\ \E j \in Jobs \cup {None} :
       /\ IF Deployable(c) = {} THEN j = None
          ELSE j \in Deployable(c) /\ row[j].version < MaxVersion
       /\ Enter(w, [NoContext EXCEPT !.job = j, !.cert = c, !.device = d], "push")
  /\ UNCHANGED <<row, store, devices, history>>

\* The adapter reads the private key and tries one upload path of the device after
\* another: an answer 2xx may mean that nothing was installed, and a failure may
\* have reached the device all the same.
Push(w) ==
  LET c == ctx[w]
      installed == [serves EXCEPT ![c.device] = c.cert]
  IN /\ pc[w] = "push"
     /\ \/ /\ c.cert \in files
           /\ serves' = installed
           /\ Goto(w, "verify")
        \/ /\ c.cert \notin files
           /\ Goto(w, "note") /\ UNCHANGED serves
        \/ /\ "device_fails" \in Faults
           /\ c.cert \in files
           /\ \/ serves' \in {serves, installed} /\ Goto(w, "note")
              \/ Goto(w, "verify") /\ UNCHANGED serves
     /\ UNCHANGED <<row, store, verified, history, ctx>>

\* Mutant: a push that reports success is believed.
VerifyNothing(w) ==
  /\ pc[w] = "verify"
  /\ Goto(w, "mark")
  /\ UNCHANGED <<row, store, devices, history, ctx>>

\* verify_device_certificate: the fingerprint the device presents.
Verify(w) ==
  LET c == ctx[w] IN
  /\ pc[w] = "verify"
  /\ \/ /\ serves[c.device] = c.cert
        /\ verified' = verified \cup {c.cert}
        /\ Goto(w, "mark")
     \/ /\ serves[c.device] # c.cert \/ "device_fails" \in Faults
        /\ Goto(w, "note") /\ UNCHANGED verified
  /\ UNCHANGED <<row, store, serves, history, ctx>>

\* _mark_verified reads the job; an issued one becomes deployment_pending first.
\* A job that is not deployable, that another thread changes between the reading
\* and the UPDATE, or that cannot be read back after it, ends the request with an
\* exception.
MarkVerified(w) ==
  LET c == ctx[w]
      version == row[c.job].version
  IN /\ pc[w] = "mark"
     /\ \/ /\ c.job \in Deployable(c.cert)
           /\ IF row[c.job].state = "issued"
                THEN /\ SetRow(c.job, "deployment_pending", c.cert)
                     /\ ctx' = [ctx EXCEPT ![w].state = "deployment_pending",
                                           ![w].version = version + 1]
                ELSE /\ UNCHANGED row
                     /\ ctx' = [ctx EXCEPT ![w].state = "deployment_pending",
                                           ![w].version = version]
           /\ Goto(w, "mark_deployed")
        \/ /\ "unread" \in Faults
           /\ c.job \in Deployable(c.cert)
           /\ row[c.job].state = "issued"
           /\ SetRow(c.job, "deployment_pending", c.cert)
           /\ Return(w)
        \/ Return(w) /\ UNCHANGED row
     /\ UNCHANGED <<store, devices, history>>

MarkDeployed(w) ==
  LET c == ctx[w] IN
  /\ pc[w] = "mark_deployed"
  /\ \/ Current(c) /\ SetRow(c.job, "deployed", c.cert)
     \/ (~Current(c) \/ "io_error" \in Faults) /\ UNCHANGED row
  /\ Return(w)
  /\ UNCHANGED <<store, devices, history>>

\* _update_job: the job waits for deployment, or still does and gets a new
\* error and version; overtaken or not deployable any more, it raises.
NoteFailure(w) ==
  LET c == ctx[w] IN
  /\ pc[w] = "note"
  /\ \/ c.job \in Deployable(c.cert) /\ SetRow(c.job, "deployment_pending", c.cert)
     \/ UNCHANGED row
  /\ Return(w)
  /\ UNCHANGED <<store, devices, history>>

(***************************************************************************)

\* A request has made the files of c, and has not yet written its row.
Storing(c) == \E w \in Workers : pc[w] \in {"record", "undo"} /\ ctx[w].cert = c

\* The recovery at startup passes over jobs that are not ACME's.
Crash ==
  /\ "crash" \in Faults
  /\ dropped' = dropped \cup {c \in Certificates : Storing(c)}
  /\ pc' = [w \in Workers |-> "idle"]
  /\ ctx' = [w \in Workers |-> NoContext]
  /\ UNCHANGED <<row, store, devices, unread>>

Request(w) ==
  \/ \E j \in Jobs :
       \/ CreateCsr(w, j) \/ CompleteCsr(w, j) \/ ImportExisting(w, j)
       \/ StartLocal(w, j) \/ DeleteTerminalJob(w, j)
  \/ IssueDirectly(w)
  \/ \E c \in Certificates : DeleteStored(w, c) \/ \E d \in Devices : Deploy(w, d, c)

Step(w) ==
  \/ StoreCsr(w) \/ AwaitExternalCa(w) \/ UndoCsr(w)
  \/ StoreSet(w) \/ RecordImported(w) \/ RecordLocal(w) \/ UndoSet(w) \/ DropCsr(w)
  \/ FinishLocal(w) \/ RemoveFiles(w) \/ RemoveEntry(w) \/ DeleteRow(w)
  \/ Push(w) \/ Verify(w) \/ MarkVerified(w) \/ MarkDeployed(w) \/ NoteFailure(w)

Next ==
  \/ \E j \in Jobs : CreateJob(j) \/ CancelJob(j)
  \/ \E w \in Workers : Request(w) \/ Step(w)
  \/ Crash

Spec == Init /\ [][Next]_vars

(***************************************************************************)
(* Properties                                                              *)
(***************************************************************************)

Table == INSTANCE JobTable

\* Imports, issuing, deployments and deletions, however they overtake each
\* other, change the table of jobs only as JobTable promises.
ImplementsTable == Table!Spec

\* A job that waits for its external CA has the private key of its CSR: neither
\* a second request for a CSR nor a failed transition takes it away
\* (create_csr_job, complete_csr_job).  The one exception is a transition that was
\* made and then reported as failed, because the row could not be read back:
\* create_csr_job takes the key away from a job that waits.
AwaitingHasKey ==
  \A j \in Jobs : row[j].state = "awaiting_external_ca" => j \in pending \cup unread

\* A job names a certificate from issued on, and the certificate's row stays as
\* long as the job does, whoever deletes certificates meanwhile.
IssuedRecorded ==
  \A j \in Jobs :
    row[j].state \in {"issued", "deployment_pending", "deployed"} =>
      row[j].cert \in entries

\* A job is deployed only after a device was seen with the job's certificate
\* (deploy_certificate).
DeployedWasServed ==
  \A j \in Jobs : row[j].state = "deployed" => row[j].cert \in verified

\* A set of files without a row is one a request is still working on: every
\* failure after create_certificate_set takes the files back.  Two exceptions, both
\* of the code: the process stopped meanwhile, and the files could not be removed
\* when they were to be taken back.
NoOrphanFiles == \A c \in files \ entries : Storing(c) \/ c \in dropped

\* A listed certificate has its files, but for the one just being deleted.
EntryHasFiles ==
  \A c \in entries \ files : \E w \in Workers : pc[w] = "remove_entry" /\ ctx[w].cert = c

=============================================================================

# CertMon in TLA+

CertMon is a Flask application, served by a threaded web server in one process.
It watches the TLS certificates of network endpoints, issues new ones (ACME, a
local CA, an external CA), stores them with their private keys encrypted at
rest, and installs them on devices. This directory specifies the parts of it
whose correctness depends on order: request threads over one SQLite database,
files that are not part of any transaction, servers and devices outside, and a
process that may stop between any two steps.

## 1. The system

| component | source | state it keeps | operations |
|---|---|---|---|
| renewal state table | `certmon/models.py` | none | `validate_transition` |
| database | `certmon/db.py` | SQLite tables: jobs, certificates, settings, secrets, users, sessions, audit, events | one short transaction per call; compare-and-set on jobs |
| ACME renewal workflow | `certmon/renewals.py`, `acme_service.py`, `dns/` | job row, settings `acme-order:`, `acme-dns:`, `acme-cleanup-target:`, `acme-staging-proof:`, the pending key set `acme-<job>` | start, continue, cancel, retry cleanup, delete, recover at startup |
| certificate store and other issuers | `certmon/artifacts.py`, `external_ca.py`, `local_ca.py`, `app.py` | artifact sets (directories), rows of `certificates` | create set, insert row, import, issue, delete |
| deployment | `certmon/deployment.py` | job row, the device | push, verify, mark deployed |
| direct Extron batches | `certmon/direct_extron.py` | batches, staged files, host keys, an operation lock | start, stop, activate, remove, clean up |
| upload queue | `certmon/upload_queue.py` | `upload-completed` | finish a device, remove it |
| Toolbelt batches | `certmon/toolbelt.py`, `toolbelt_uploader.py` | run, child process, status setting | start, stop, record device events |
| users and sessions | `certmon/auth.py`, `permissions.py`, `app.py` | users, sessions | create, change, disable, log in, authorize |
| vault | `certmon/vault.py` | master key file, pending key file, encrypted blobs | encrypt, decrypt, rotate the key |
| backup and restore | `certmon/backup.py`, `server_backup.py`, `local_ca_backup.py`, `launcher.py` | archives, staged restore | create, stage, apply at start |
| scanning and inventory | `app.py` | legacy state document, scan state | add, remove, scan, refresh hosts |

How they interact: every request runs in a thread of its own and calls the
services directly; the services share the database and the artifact directory.
Nothing but the `WHERE state = ? AND version = ?` of a job update, a few process
locks and the order of the steps keeps two requests apart. The ACME server, the
DNS provider and the devices are called between transactions, never inside one.
At startup `initialize_application` applies a staged restore and recovers
interrupted jobs before the server serves.

What is hard in it: two requests on one job; a request that fails half way, with
something left at a DNS provider, on disk or on a device; a crash between two
steps and what recovery makes of it; a lost reply; documents that are read,
changed and written back as a whole by several threads.

What makes each part correct:

* *renewal workflow*: one certificate per job, no certificate without its private
  key, staging before production, no TXT record left by a settled job, every job
  in validation or issuance comes to rest, recovery lets the server start.
* *certificate store*: a job that waits for a certificate has its key, a job that
  names a certificate finds it, no files without a row, no row without files,
  nothing is called deployed that no device was seen to serve.
* *direct delivery*: no PEM is transferred before every device of the batch was
  tested, what was begun is never reported as untouched, what is on a device is
  listed, results are in Audit before rows are hidden, the lock is given back.
* *Toolbelt*: a certificate is uploaded only after its own dry run succeeded, a
  stop is obeyed, results are not lost.
* *users*: an enabled administrator remains; names are distinct; a disabling, a change
  of roles and a reset of the password end the sessions of the user.
* *vault and backups*: what was encrypted can be decrypted after any crash; a
  backup has a key for each secret it holds.
* *inventory*: a save undoes nothing but what it overlapped with; a device in the
  document has its password.

## 2. Plan

Order of the modules, the most important behaviour first.

| | modules | abstract specification | runs | theorems |
|---|---|---|---|---|
| done | `RenewalStates`, `JobTable`, `AcmeRenewal` | `JobTable`: what the table of jobs promises | `AcmeSafety`, `AcmeGate`, `AcmeHygiene`, `AcmeIssued`, `AcmeRecovery` | `AcmeRenewalProofs`, `AcmeRecordsProofs` |
| done | `CertificateStore` | `JobTable` again | `StoreSafety`, `StoreEntry` | `CertificateStoreProofs` |
| done | `DirectDelivery` | -- (the lock is a conjunct of the invariant) | `DirectSafety`, `DirectTracked` | `DirectDeliveryProofs` |
| done | `Toolbelt` | -- | `ToolbeltSafety` | `ToolbeltProofs`, `ToolbeltRunProofs` |
| done | `Accounts` | -- | `AccountsSafety` | `AccountsProofs` |
| done | `ServerData`: the state document, passwords, key files, rotation, backup | -- | `ServerDataSafety` | `ServerDataProofs` |
| open | the replacement of the Local CA | -- | -- | -- |

A module that interacts with another does so through an abstract state it shares
with it: the job table (`JobTable`) is what the workflows on jobs have in common,
the set of listed certificates is what the store hands to the deliveries. Users and
the server's own data share no state with them.

## 3. The modules

An action is one step of one thread: from one point where another thread, or a
crash, can come in to the next. Such points are the boundaries of a database
call, of an operation on a set of files and of a call to the outside. What a
thread has read stays in its locals (`ctx`, `loc`), as stale as in the code.

### `RenewalStates`, `JobTable`

The states, `ALLOWED_TRANSITIONS`, and the table of jobs as others see it: a job
is inserted as a draft, moves only along the table, with one version more, gets at most
one certificate, and is deleted only from a terminal state (or, in the existing
workflow, from a draft that may just have moved on: the check comes before the
delete and is not repeated).

### `AcmeRenewal`

| code | state and actions |
|---|---|
| `renewal_jobs` | `row` |
| settings `acme-order:`, `acme-dns:`, `acme-cleanup-target:`, `acme-staging-proof:` | `order`, `presented`, `target`, `proof` |
| artifact set `acme-<job>`; sets and rows of certificates | `pendingKey`; `certs` |
| DNS zone, ACME server | `zone`; `placed`, `status` |
| `ACMERenewalCoordinator.start_acme`, `continue_manual_dns`, `cancel`, `retry_cleanup` | `StartAcme`, `ContinueManualDns`, `CancelAcme`, `RetryCleanup` and the steps that follow them |
| `_complete_dns`, `_store_certificate` and the except clauses | `BeginValidating` to `ProveStaging`, `HandleFailure`, `Reread`, `FailJob` |
| `RenewalService.cancel`, `delete_terminal_job`, `recover_interrupted_jobs` | `ServiceCancel`, `DeleteTerminalJob`, `RecoverJob`, `RecoveryRaises`, `Serve` |
| exceptions: inside the try; outside it; from `get_job` after a commit (`db.py`, 518); from `rmtree` | `CompletionFails`; `Abort`; `Unread`; `DropKeyRaises` |

What is merged: `transition_job` commits and then reads the row again, which is
one step unless the second read raises (`Unread`); the creation of an order at the server and
the setting that names it are one step, and so are the three calls of
`finalize`; an order has one TXT record and yields one certificate; the set and
the row of a certificate are one. `continue_manual_dns` reads three things and
is one step, because the compare-and-set that follows checks the row. All jobs
ask for the same identifiers, the case in which they meet. Identifiers are uuid4
and never used again. Recovery takes the interrupted jobs in any order, and a
manual challenge may expire at any time.

An exception that no except clause takes ends the request and takes nothing back
(`Abort`). Where it costs something it is a fault kind of its own, so that the properties
can say which faults they bear: `unrecorded`, a write that fails between presenting the
records and the transition to `awaiting_dns` (`renewals.py`, 216), and
`request_error`, a failing database or disk from there on, the except clauses (324, 333,
388) and the removal of the pending key (372) among them.

### `CertificateStore`

Jobs of the external CA and the local CA, with the keys of their CSRs
(`pending`), sets of files (`files`), rows (`entries`), and devices that serve a
certificate. `minted` bounds the identifiers ever made. `create_csr_job`,
`complete_csr_job` and `import_existing` are `CreateCsr`, `CompleteCsr`,
`ImportExisting` with `RecordImported` (one transaction), the compensation
(`UndoCsr`, `UndoSet`) and `DropCsr`; local issuing is `StartLocal` or
`IssueDirectly`, `StoreSet`, `RecordLocal`, `FinishLocal`; the two delete routes
share `DeleteStored`, `RemoveFiles`, `RemoveEntry`; `deploy_certificate` is
`Deploy`, `Push`, `Verify`, `MarkVerified`, `MarkDeployed`, `NoteFailure`.
Cancelling is one step (its read is confirmed by the compare-and-set). A
transition may be committed and then raise at reading the row back (`unread`), and
every removal of files may leave some of them (`locked_files`), the compensations
included; `unread` and `dropped` are the histories of what comes of the two. `MaxVersion` stops the one cycle in which a job's
version grows for ever, failing deployments.

### `DirectDelivery`

One thread for each batch, individual upload or removal, and clean-up of a staged
PEM. `_certificate_operation_lock` is `lock`; `_batches` is `batch` and the
setting that persists them `saved`; the staged-PEM document is `staged`, and
reading it and writing it back are two steps (`Edit` puts the document read into
the thread, `SaveRecords` writes it). A target is a prepared row: a device, its
interface and its newest certificate. The device is what it holds
(`onDevice`) and what it serves (`serves`); a connection may fail before or after
the effect. Between taking the lock and its `try` a start reads a setting; when that
raises the lock stays taken (`StartLosesLock`, the holder `Lost`). Uploads of the Toolbelt
reach the same devices and take no lock (`ToolbeltUploads`).
`UploadQueueService.finish` is `AuditResults`, `HideSuccessful`,
`RecordRun`; `recover` at the next start is part of `Crash`.
All failed tests are `not_ready`, all upload results besides `verified` and
`upload_unconfirmed` are `unresolved`. A PEM whose upload is unconfirmed may be
cleaned up at any time (`CleanupOne`): the code waits 300 s, but opening the transport
and the shell has no timeout, so an upload may outlive the grace. Only CertMon changes
the devices; `touched` and `astray` are history variables, the latter of the PEMs
whose record was lost to a stale write-back or that were cleaned up before they were
transferred.

### `Toolbelt`

A run is a thread of the server (`loc`) and a child process (`child`).

| code | state and actions |
|---|---|
| `_runs`, `ToolbeltRun` | `run`; its mode is fixed by `UploadRuns`, and each run is started once |
| setting `toolbelt_latest_status` | `results`, read (`ReadStatuses`, `Hear`, `MarkFailed`) and written back (`ClearStatuses`, `SaveResult`) in separate steps |
| the folder of a run, the stop file in it | `folder`, `stopFile` |
| the standard output of the uploader | `pipe`, a queue |
| `list_devices` | `Listed`: the newest certificate owns the row of its device, and a hidden one hides the device |
| `start`, `stop` | `Start`, `ReadStatuses`, `ClearStatuses`, `RefuseRun` or `Register`; `Stop` |
| `_execute_run`, `_run_subprocess`, `_handle_event`, the except and finally clauses | `MakeFolder`, `SpawnUploader`, `Hear`, `SaveResult`, `ChildEnded`; `Failing`, `MarkFailed`, `AllMarked`, `ThreadDies`; `RemoveFolder` |
| `_finish`, `UploadQueueService.finish` | `AuditResults`, `HideSuccessful`, `RecordRun`, `FinishFails`, `Close` |
| `main` and `upload_to_device` of the uploader | `BeginDevice`, `EndDevice` with `Work`, `CancelDevice`, `ChildDone`, `ChildDies`, `ChildUnheard` |

Certificates are numbered in the order of issuing, and `start` decides on the rows
it read first, whatever is issued since. The uploader takes the devices in any
order (the code sorts them); its attempts at one device are one step with one outcome, and
a failed upload may have had its effect. A report to a closed pipe ends the
uploader, so after a crash it finishes the device it is at. `RemoveFolder` is `rmtree` with
`ignore_errors`: a file in use stays, and the folder with it (`locked_files`; it is then
`kept`, as a folder is whose server stopped). A run that is over is
dropped, with its lines in Audit: it is only shown from then on. Whether hiding is
switched on is chosen where it is used. `proven` and `delivered` are history: what was
dry-run and what a device may have got. `early` is too: the runs that were
stopped before they had a folder, which `Stop` cannot write a stop file into.
What two runs do to one another in the window of Toolbelt is not modelled.

### `Accounts`

| code | state and actions |
|---|---|
| tables `users`, `sessions` | `user`, `session` |
| `create_first_admin` | `FindNoUsers`, `CreateFirstAdmin` |
| `authenticate`, `start_session` | `Authenticate`, `StartSession` |
| `user_for_token`, before every request | `FindSession`, `FindUser` |
| `auth_logout`, `create_user`, `reset_user_password` | `Logout`, `CreateUser`, `ResetPassword` |
| `api_users_update` | `BeginPatch` with its look at the final administrator, then `ReadTarget` and `WriteIdentity` for name and roles, and `SetDisabled` |
| a 403, a taken name, the final administrator, an exception, a crash | `Refuse` |

Each transaction and each read outside of one is a step; every refusal is
`Refuse`, at any time. A request is let in for the roles read in `FindUser`
and goes on with them, whatever happens to its user, as the code does. In
standalone mode a request needs no session and has the local permissions (`Local`,
`app.py`, 293; `permissions.py`, 76), those on users among them. The mode is read from the
configuration at every request, so `Modes` says which of the two a request may find. Names are
compared without case, so names that differ in case only are one. Tokens may
expire at any time. The roles and the password in a session, `raced`, `admins` and
`applied` are history. Of the permissions only the one to manage users matters
here; the CSRF token, looked at before a request does anything, is left out.

### `ServerData`

| code | state and actions |
|---|---|
| setting `legacy_state` | `doc`: hosts, their certificates as last seen, ranges, upload devices |
| `device-password:<id>` in table `secrets` | `secret`: the password and the key it was encrypted with |
| `master-key.json`, `pending-master-key.json`; the vault's fields | `keyFile`; `vault` |
| import of `app.py`, `bootstrap_services` | `OpenDatabase`, `MakeKeys` or `LoadKeys`, `MigrateSecrets` |
| the routes for hosts, ranges and upload devices, each `load_data` ... `save_data` | `AddHost` to `UpdateUploadDevice` (`LoadAndChange`), `EncryptPassword`, `PutSecret`, `SaveDocument` |
| `refresh_host`, `update_monitored_certificate` | `RefreshHost`, `UpdateMonitored` |
| `start_scan` and its thread | `StartScan`, `BeginScan`, `VisitRange`, `EndScan` |
| `rotate_secrets`, `begin_rotation`, `activate_pending_key` | `BeginRotation` to `ForgetPending`, `AbortRotation` |
| `export_package`, `create_backup` | `StartBackup`, `CopyDatabase`, `CopyKeys`, `DropBackup`; `stage_restore` is `Restored` |
| an exception in a request, a crash | `Abort`, `Crash` |

A request loads and changes the document in one step and saves it whenever it
comes to it: the connection to a host lies between, and what it finds is chosen
when it begins, which nothing else depends on. `load_data` fails where a password
cannot be decrypted (`CanLoad`). A host stands for its host and port, so it has
one certificate. Devices get new identifiers. A thread's `own` and `stale`
are history: what its request is about, and what others have changed since it read.
A start may find nothing to protect a master key with; the server then serves without a
vault, and takes no passwords (`Protectors`). An old data file may hold devices without
a password, which the migration passes over (`legacy.bare`; `db.py`, 867).

`exposed` and `memoryOnly` are history too, the two kinds of passwords the code loses:
those stored past a rotation, encrypted with a key that is retired, and those stored or
converted under a pending key whose file `begin_rotation` failed to write. The
key stays in memory, the next rotation finds it there and writes nothing
(`vault.py`, 160-168), so that a crash takes with it every password converted so far,
however old. Nothing in the program calls `rotate_secrets`, only its test does.

## 4. The runs

| run | question | answer |
|---|---|---|
| `AcmeSafety` | one Cloudflare job, two threads, two orders, every fault, crashes at any step | `OneCertificatePerJob`, `IssuedKeyNotLost`, `RowCertificateStored` hold, and the workflow implements `JobTable` |
| `AcmeGate` | a production and a staging job, replies lost, records presented and not recorded | `ProductionAfterStaging` holds; a job in validation or issuance comes to rest (`InFlightSettles`) whatever raises inside the try of `_complete_dns` |
| `AcmeHygiene` | requests one after another over two jobs, deletions that are refused or break off, exceptions outside that try | `SettledLeavesNoRecord` holds |
| `AcmeIssued` | is a job shown as issued one with a certificate? | no: a failed completion whose cleanup fails too is `issued` after `retry_cleanup` |
| `AcmeRecovery` | does recovery let the server start? | no: a crash in `validating` makes it ask for a transition the table forbids |
| `StoreSafety` | an external and a local CA job, two threads, crashes, failing writes, locked files | `IssuedRecorded`, `DeployedWasServed`, `AwaitingHasKey` and `NoOrphanFiles` hold, the last two with the exceptions below, and the flows implement `JobTable` |
| `StoreEntry` | does a listed certificate have its files? | no: the files of a job's certificate go first and the foreign key keeps its row |
| `DirectSafety` | a batch beside an upload or removal and a clean-up, a failing access to the database or a Toolbelt upload, crashes | all nine properties hold, with the exceptions below |
| `DirectTracked` | is every staged PEM on a device listed? | no: the document a clean-up read before an upload added its record is written back |
| `ToolbeltSafety` | a dry run and an upload that overlap, two devices, a reissue, every fault | all seven properties hold; `StopObeyed` with its exception for a stop that comes too early for the stop file |
| `AccountsSafety` | two requests at a time on two users, in server or in standalone mode, with every route of accounts | all five properties hold; `SessionsCurrent` with two races named |
| `ServerDataSafety` | two threads on the document and its passwords, scans, a rotation, a backup, starts with and without a vault, every fault | all five properties hold, `SecretsReadable` and `BackupRestorable` but for the two kinds of passwords the code loses |

The four runs that find a violation each belong to a finding in `PROJECT.json`,
with the sentence of the documents that says otherwise.

**Exceptions.** Some properties hold but for an order or a fault in which the code does
less than one would want, and in some cases less than its documents say. Each exception is
part of the property or of the faults of its run, and is explored by the model:

| property | excepted | where |
|---|---|---|
| `SettledLeavesNoRecord` | a crash, a `present` that leaves its record, a write that fails after `present`: a draft with a live record that the next start forgets | `renewals.py` 216, `cloudflare.py` 90 |
| `InFlightSettles` | a crash, a DELETE that breaks off, an exception outside the try of `_complete_dns`: the job stays in flight until the next start of the server | `renewals.py` 296, 324, 333, 372-394; `db.py` 518 |
| `AwaitingHasKey` | the transition is committed, reading the row back raises, and `create_csr_job` deletes the key of the job that now waits | `external_ca.py` 51-53 |
| `NoOrphanFiles` | the process stops while a set is recorded, or the files cannot be removed when they are to be taken back | `external_ca.py` 191, `local_ca.py` 167 |
| `VerifiedStaysServed` | an upload of the Toolbelt to a device of the running batch | `toolbelt.py` 171-210 |
| `StagedIsListed`, `NoSecondPem` | a stale write-back of the staged-PEM document; a clean-up, after the grace, of a PEM still to be transferred | `direct_extron.py` 741, 734 |
| `HolderNotStuck` | a start that fails between taking the lock and its try: no upload, batch or removal until the server is restarted | `direct_extron.py` 281 |
| `PemsRemoved` | a file in use, which `rmtree` passes over; a crash. The repository's `README.md` promises the removal without either (line 228) | `toolbelt.py` 309 |
| `StopObeyed` | a stop before the run has its folder is accepted and every device is begun all the same, against `README.md`, lines 198 and 227 | `toolbelt.py` 217 |
| `SessionsCurrent` | a login authenticated before the change that inserts its session after it, and a PATCH that puts back the roles it read before another PATCH; `README.md`, line 93: changing a user's roles or password "revokes all active sessions for that user" | `auth.py` 130 |
| `AdminRemains`, `HalfPatchNeedsRace` | while there is no administrator at all: in standalone mode the first user created may be a viewer, against `README.md`, line 86 | `app.py` 293, 627-648 |
| `PasswordKept` | devices without a password in the old data file; a server without a vault | `db.py` 867, `app.py` 149 |
| `SecretsReadable`, `BackupRestorable` | passwords stored past a rotation, and those under a pending key that is in memory only | `vault.py` 160-168, `db.py` 763 |

**Bounds.** `AcmeSafety` needs two threads and two orders for one request to
overtake another and overwrite its order; a second job adds nothing to what two
threads can do to one. `AcmeGate` has the two jobs the gate relates.
`AcmeHygiene` has one thread, since requests that overlap do leave records
behind (two starts of a draft), and three orders, so that a challenge can be
replaced and the other job be started still. `StoreSafety` has two certificates,
one to be undone while another is recorded, and versions up to 2. `DirectSafety`
has one batch of two targets, the least in which one fails and another is done;
one individual request, one clean-up, and two PEM names, the least in which
one record is lost to the write of another; one disturbance, that is one failing access
to the database or one upload of the Toolbelt, since two add nothing but another place to
fail (3,668,759 distinct states). `ToolbeltSafety` has one run of each mode, since
the gate relates the two, and two devices, the least in which a stop, a death or a
failure comes between them; two certificates are one for each device, or
one and its reissue. The first has failed a dry run before (`Earlier`), so that there is
a result to clear. The two runs share nothing but the results and the hidden
rows. `AccountsSafety` has two requests, two users and one token: a request keeps
the user it was let in for when the session is gone, so the users can act
on each other in turn, and with two administrators a second count decides. Two
names and two sets of roles are what a rename and a demotion need; the mode may be
another at every request.
`ServerDataSafety` has one host, range, device and certificate: the losses the
properties speak of are between two threads and one item, or between the document
and a secret. Two passwords tell an old one from a new one; two keys are the first
and one rotation, which can be broken off, repeated and completed after a crash. Its
constraint `Focus` cuts where two questions would multiply: scans and overlapping
requests are explored in full on a server that has a vault and no old file, before the
first rotation or backup; beside these one request at a time goes on. Backups are followed
where there is no old file, and a finished one is checked and followed no further
(1,340,703 distinct states). Crashes are not bounded anywhere.
`CHECK_DEADLOCK` is off because the systems do stop: all jobs may be deleted, all
orders used, all requests made and all runs over.

**Symmetry** is used in the runs without liveness, over the interchangeable
constants (threads, requests, orders, certificates, targets, users, names, passwords,
tokens).

**Fairness.** `FairSpec` has weak fairness of `Step(w)` for each request thread:
a thread that has begun a request goes on. The code justifies it: polling ends by
attempts and by a deadline, the HTTP clients have timeouts, the server
starts a thread per request and the database waits a bounded time. Nothing is
assumed of users, of the DNS or of the ACME server's validation. In
`DirectSafety` there is no fairness; `HolderNotStuck` says in every state that
the thread with the lock, if a thread has it, can take a step.

**Mutants.** Every property of a passing run has a definition of the model in
`PROJECT.json`, changed as a plausible bug of the code would change it (for
instance a transition without its compare-and-set, or a clean-up that gives the lock
back), under which TLC finds the property violated.

## 5. The proofs

Every safety invariant and every action property that a passing run checks is a
theorem too, but for one, and so is the liveness property, from a hypothesis in
place of fairness (see the end of this section). A proof rests on an inductive
invariant, which TLC checked on the instances of the runs before it was proved, and
on the named assumptions on constants of its module, which TLC evaluates in every run
of that module.

Progress is proved in three places (a job in flight, the operation lock, a Toolbelt run)
in one way: a number of steps still to go, which nothing that happens raises and each
step of the actor lowers. That is a statement about single steps, and it leaves two
links to others. That the actor takes steps is a hypothesis of the form
`[]<>(over) \/ []<><<Step>>_vars`; it is what weak fairness of `Step` comes to when a
step can always be taken, and that is about `ENABLED`. And where the number has no
bound that is known beforehand, the theorem gives the descent from each `n + 1` to
`n`; that it reaches the end is an induction over a temporal formula, which the
provers cannot do.

### `AcmeRenewalProofs`

It proves about `AcmeRenewal`, for every value of its constants,
with only the three assumptions on constants in that module (`NoOrder` is no
order, `CloudflareJobs` and `StagingJobs` are jobs, `Faults` are fault kinds):

| theorem | states |
|---|---|
| `TypeCorrect` | `Spec => []TypeOK` |
| `InvariantHolds` | `Spec => []Invariant` |
| `OneCertificate` | `Spec => []OneCertificatePerJob` |
| `KeyNotLost` | `Spec => []IssuedKeyNotLost` |
| `CertificateStored` | `Spec => []RowCertificateStored` |
| `StagingFirst` | `Spec => []ProductionAfterStaging` |
| `TableImplemented` | `Spec => ImplementsTable` |
| `VersionsNeverRecur` | for a job `j` and a row `x` that is there: `Spec => [](row[j] = x => []Follows(j, x))` |

None of the properties is inductive: that a second certificate is never stored
depends on who can still be on the way to store one. `Invariant` adds what a thread
relies on:

* `Exclusive`: at most one thread is in `_complete_dns` for a job, and its job is
  past `awaiting_dns`. This is the work of the one compare-and-set from
  `awaiting_dns` to `validating`: `awaiting_dns` is entered from `draft`, never from a
  later state.
* `OwnOrders`: orders are not shared, wherever they are named. The setting
  `acme-order:` may be overwritten by another request at any time, but only by an
  order of the same job.
* `IssuedOnce`: before the thread finalizes nothing is issued, afterwards exactly
  the order it holds. It needs `Exclusive`.
* `KeyHeld`: the pending key is there from before the order on. It gives
  `IssuedKeyNotLost` at the step in which the server issues.
* `CertificateLast`, `BlankRows`: a row names a certificate only after issuance,
  and an absent row names none; needed for `RowCertificateStored` and for the
  refinement.
* `GatePassed`: the proof setting means a staging certificate, and whoever
  is on the way to a production order has seen it.

The proof has one lemma for types (`TypeStep`), one for each of the conjuncts,
with a step for each action that can disturb it, and one for the refinement: every step
of `Next` is a step of `JobTable` on `row`, or leaves `row` as it is.

`VersionsNeverRecur` says why comparing a version is enough: from any
state in which the row of `j` was `x`, it is deleted, or it is `x` still, or its version is
higher (`Follows`). A thread that finds the version it has read has the row it has read,
its certificate included, and one that comes late finds another version however often
the row has moved. The certificate, once attached, is never exchanged. The theorem is
about `JobTable` and comes to the workflow through the refinement.

### `AcmeRecordsProofs`

| theorem | states |
|---|---|
| `NoRecordLeft` | `NoLeaks` gives `Spec /\ []Apart => []SettledLeavesNoRecord` |
| `NoRecordLeftByOneThread` | `OneThread` and `NoLeaks` give `Spec => []SettledLeavesNoRecord` |
| `NoJobAbandoned` | `NoAbandonment` gives `Spec => []NoneAbandoned` |
| `InFlightComesToRest` | `NoAbandonment` gives `Spec /\ []EveryThreadGoesOn => InFlightSettles` |

`Apart`: two requests on one job do not overlap, step by step; two starts of one draft
leave the record of the first behind. It says nothing of requests on different
jobs, and is true of every behaviour when there is one thread (`OneThread`), as in
the run `AcmeHygiene`. `NoLeaks` is about the constant `Faults` and that run's too: no
crash, no `present` that fails and leaves its record, and no write that fails between
presenting the records and the state `awaiting_dns`. Each of the three leaves
a draft with a record that the next start forgets, and recovery takes a crashed job to
`failed` without removing anything. What
remains is for any number of jobs, orders and threads: a provider may refuse or the
connection to it break off as often as it likes, answers may be lost, and the database
and the disk may fail everywhere else (`request_error`). The invariant
`RecordsInvariant` adds to `Invariant` that a record belongs to the job of its order
(`OwnRecords`), and for every thread and every job with a provider (`Records`): the only
record of a job that can be live is the one `acme-dns:` names, or its thread has just
presented (`Recorded`); at the labels of `Removed` there is none, and between two
requests there is none but in `cleanup_required` and in the states a request leaves a
job in when it ends early, `awaiting_dns`, `validating` and `issuing`; no request takes the
job to its end from there with the record still live (`Resting`).
`Following` says that a thread that has its job to itself has the
row as it is, so that none of its transitions is refused: a refused one after the
clean-up failed would end the request with the record still there. A step on one job
leaves the rows and records of the others alone (`About`), which is how overlapping
requests on different jobs come in.

The other two theorems are about a job in `validating` or `issuing`, and there
requests on one job may overlap as they like. `NoAbandonment`: no crash, no connection
that breaks off during a DELETE and no exception outside the try of `_complete_dns`
(`request_error`); each of them does leave a job in flight with nobody to go on with it. `NoJobAbandoned` is safety: a job in flight is in the hands of a thread
in `_complete_dns`. Its invariant `InHand` says more: that thread has read the row as it is
now, so its next transition is not refused (`Attends`). Whoever else changes the row of a
job in flight would break that, and the proof shows that nobody can.
`InFlightComesToRest` counts the steps left at each label (`Remaining`); they are twelve
at most. `EveryThreadGoesOn` stands for the fairness of `FairSpec`.

### `CertificateStoreProofs`

For every set of jobs, certificates, devices and threads, null values that are none of
them (`CertificateAssumption`, `NoneAssumption`), and kinds of jobs as the code has
them (`KindAssumption`):

| theorem | states |
|---|---|
| `StoreTypeCorrect` | `Spec => []TypeOK` |
| `AwaitingKeepsKey` | `Spec => []AwaitingHasKey` |
| `IssuedStaysRecorded` | `Spec => []IssuedRecorded` |
| `DeployedWasSeen` | `Spec => []DeployedWasServed` |
| `FilesAreOwned` | `Spec => []NoOrphanFiles` |
| `StoreImplementsTable` | `Spec => ImplementsTable` |
| `VersionsAreFinal` | for a job `j` and a row `x` that is there: `Spec => [](row[j] = x => []Follows(j, x))` |

* `KeyHeld` is what `AwaitingHasKey` needs, but for the jobs in `unread`: a request that
  has stored the key set of a job and may still take it back is the only one, and its job
  does not wait for the CA.
  Storing over an existing set fails, and so does the compare-and-set of whoever
  comes second.
* `Marking`: the thread that marks a job deployed has seen its certificate served, read
  the row at a version the row still has or has passed, and, while the versions agree,
  the certificate of the row is the one it pushed. That is how the compare-and-set
  covers a certificate read earlier.
* `Deleting`: between the check of `delete_terminal_job` and the delete the job only moves
  to states in which a deletion is allowed, or is a draft of the existing workflow: this
  is the exception `JobTable` names.
* `Minting`: identifiers are used once, so files that are removed do not come back
  under a request that still holds their name.

`VersionsAreFinal` is `VersionsNeverRecur` for these jobs. Here the state alone would not
do: `_update_job` writes a row in `deployment_pending` again, with the next version, each
time a deployment fails.

### `DirectDeliveryProofs`

For every set of batches, targets, requests, clean-ups and PEM names, with threads that
are distinct (`ThreadAssumption`), null values that are no targets and names
(`NullAssumption`) and any bound on disturbances (`DisturbanceBound`):

| theorem | states |
|---|---|
| `InvariantHolds` | `Spec => []Invariant` |
| `DeliveryTypeCorrect` | `Spec => []TypeOK` |
| `UploadsAreRemembered` | `Spec => []UploadNotForgotten` |
| `CompleteIsComplete` | `Spec => []CompleteMeansAll` |
| `VerifiedIsServed` | `Spec => VerifiedStaysServed` |
| `StagedPemsAreListed` | `Spec => []StagedIsListed` |
| `OnePemAtATime` | `Spec => []NoSecondPem` |
| `PreflightIsFirst` | `Spec => PreflightFirst` |
| `HidingFollowsAudit` | `Spec => HiddenAfterAudit` |
| `OneOperationAtATime` | `Spec => []OneUnderWay` |
| `LostUntilRestart` | `Spec => [][lock = Lost => lock' = Lost \/ Crash]_vars` |
| `HolderAdvances` | for finitely many targets: `Spec => [][...]_vars`, the steps left (`Work`) of the holder of the lock never rise, and fall with each of its steps |
| `HolderComesNearer` | for a batch or request `t`, finitely many targets and every `n`: `Spec /\ []GoesOn(t) => (lock = t /\ Work(t) <= n + 1 ~> lock # t \/ Work(t) <= n)`, and `Work(t)` is a positive number while `t` has the lock |
| `RequestGivesLockBack` | for a request `t`: `Spec /\ []GoesOn(t) => (lock = t ~> lock # t)` |

* `HolderOK`: a batch or a request is under way exactly when it has the lock. What a
  batch knows of its staged PEMs rests on it.
* `PemsOK`: for a PEM on a device no document that a thread is about to write calls it
  deleted or another's; it is listed, or it has gone astray (`astray`): its record was
  overwritten by a stale document, the case the run `DirectTracked` exhibits, or it was
  cleaned up before it was transferred.
  `Fresh` covers the time before the transfer, when only the upload knows the name.
* `RunOK`: what a batch has found out at each label (`Running`), what stays true of it
  in memory and in the saved copy, so that a crash loses nothing (`Recorded`), and
  what is on the devices while it has the lock (`Holding`).

What a device serves is in none of them, for the Toolbelt may change it at any time.
`VerifiedStaysServed` is about steps: the lemma `OnlyTheseTakeOff` names the actions that
take a certificate off a device, all but `ToolbeltUploads` are steps of the holder of the
lock, and the batch that holds it verifies a target only after the last of them.

The last five are about `_certificate_operation_lock`, which is taken without waiting
and given back by hand at the end of threads. `OneUnderWay`: of all batches, uploads
and removals one at most is under way, it is the holder, and the batch that has the
lock is the one whose status is `running`, after a restart as well. A start that loses the
lock leaves it without a holder, and by `LostUntilRestart` only a crash or a restart
ends that; the other theorems are about a lock that a thread holds. That the holder comes to
its end is counted by `Work`: the steps to the end of the upload or removal
(`ToGo`), and for a batch fourteen for each stage that a target has still to pass on
its way from `pending` over `testing`, `ready` and `uploading` to its result (`ToDo`). No
target goes back, so neither a stop, nor a device, nor a failing write makes
a batch start over. Accesses that fail are steps too, of which the model allows
`MaxDisturbances` in all; the proof does not use that bound. An individual
request has thirteen steps at most, so for it the descent is carried to its end.

### `ToolbeltProofs`, `ToolbeltRunProofs`

`ToolbeltProofs` proves about `Toolbelt`, for every set of runs and devices, every
choice of faults and certificates numbered by natural numbers
(`CertificateAssumption`; that two certificates of a device have an order is what makes
its row one certificate):

| theorem | states |
|---|---|
| `ToolbeltTypes` | `Spec => []TypeOK` |
| `ToolbeltInvariantHolds` | `Spec => []ToolbeltInvariant` |
| `OnlyProvenApplied` | `Spec => []AppliedWasProven` |
| `NoFalseResult` | `Spec => []ResultsTrue` |

A device gets what the uploader has in its folder, long after the gate was passed, and
the gate looks at a document that others write back stale. So the
invariant follows the claim that a certificate was dry-run or uploaded along its way, for
each run by itself (`Sound`):

* `Fresh`: before the uploader is started there is none and nothing is reported.
* `Gated`: an upload that goes on has only certificates in `proven`; between
  the gate and the registration these are the devices in `todo`.
* `Supplied`: the uploader has the certificates of its run, and keeps them when the
  run is gone.
* `Truthful`: every success in the pipe, in the hands of the thread or in a
  document it has read is that certificate's own. A stale document is true
  all the same, for `proven` and `delivered` only grow: a lost result can block
  an upload, and never let one through.

The lemma `OneRunActs` reduces a step to the run that takes it, and there is one
lemma for each action or group of like actions.

`ToolbeltRunProofs` is about the course of a run, from the same assumptions:

| theorem | states |
|---|---|
| `RunsInvariantHolds` | `Spec => []RunsInvariant` |
| `CompleteWasTried` | `Spec => []CompleteMeansTried` |
| `FolderIsRemoved` | `Spec => []PemsRemoved` |
| `HidingIsAudited` | `Spec => HiddenAfterAudit` |
| `StopsAreObeyed` | `Spec => StopObeyed` |
| `RunsCountDown` | for finitely many devices: `Spec => [][...]_vars`, the steps left (`StepsLeft`) of a started run never rise, and fall with each step of its thread or uploader |
| `UploaderThere` | `Spec => [](\A r \in Runs : loc[r].pc \in {"listen", "save"} => child[r].pc # "none")` |
| `RunComesNearer` | for finitely many devices, a run `r` and every `n`: `Spec /\ []KeepsGoing(r) => (loc[r].pc # "idle" /\ StepsLeft(r) <= n + 1 ~> StepsLeft(r) <= n)`, and nothing is left only when thread, pipe and uploader are over |

`CompleteMeansTried` is reported by a thread that only counts what it hears, so
`RunsInvariant` says where each device of a run is (`OnItsWay`): in the uploader's
list, in its hands, in the pipe, or filed; and a device is cancelled by a stop
only (`Stopping`). `StopObeyed` follows from a stop being in the folder by the time the
next device is begun, or having come too early for it. `Lifecycle` orders the
registration, the folder and the end of a run, and `Audited` the last step before rows
are hidden.

A run is two processes that wait for one another: the thread for reports, or for the end
of the uploader, and the uploader for nothing, but it ends when nobody listens. `StepsLeft`
is what the thread has still to do, by its label, and the uploader, by its label and
the devices on its list, and three for each report in the pipe, for a report is what the
uploader's work becomes. It falls whoever of the two acts, also when the uploader dies
with reports unread, the document cannot be written, or the thread is left with only its
finally clause; a crash of the server lowers it too. `UploaderThere` is why the thread
does not wait in vain: a process was started, and one that was started reports or ends.

### `AccountsProofs`

It proves about `Accounts`, for every finite set of users
(`UsersAssumption`: the administrators are counted), every choice of roles in which a
user has one at least and all of them together are allowed (`RolesAssumption`),
and null values that are no rows (`NullAssumption`):

| theorem | states |
|---|---|
| `TypesHold` | `Spec => []TypeOK` |
| `AdministratorRemains` | `Spec => AdminRemains` |
| `AdministratorInServerMode` | `Spec => []AdminsThere`: when `Modes` has no standalone mode and there are users, there is an enabled administrator |
| `NamesStayDistinct` | `Spec => []NamesDistinct` |
| `SessionsStayCurrent` | `Spec => []SessionsCurrent` |
| `HalfPatchIsARace` | `Spec => []HalfPatchNeedsRace` |

The invariant `IInv` joins them with three facts. `LetIn`: a request that was let in with a
session was let in for a user, so that in server mode creating a user, who need not be an
administrator, is never the creation of the first one; from it follows `AdminsThere`.
`OthersSeen`: a PATCH that disables saw another enabled administrator when it began, if
there was one at all. These survive because rows are never deleted. That the final
administrator stays is then a fact about counting, in the step that takes one away: with
more than one in the finite set of administrators, one is left when any other goes. It
holds in standalone mode too, where nobody need be an administrator to begin with.
`HalfPatchNeedsRace` follows from `OthersSeen` without a step of its own: who is the last
administrator is the only one, and a PATCH never counts its own target among the others.

### `ServerDataProofs`

For every set of hosts, ranges, devices, certificates, passwords, keys and threads,
with null values that are none of them (`NoneAssumption`, `BlobAssumption`):

| theorem | states |
|---|---|
| `ServerTypeCorrect` | `Spec => []TypeOK` |
| `PasswordIsKept` | `Spec => []PasswordKept` |
| `SecretsStayReadable` | `Spec => []SecretsReadable` |
| `BackupsRestorable` | `Spec => []BackupRestorable` |
| `OnlyOverlapsLose` | `Spec => OnlyOverlapLoses` |

* `KeysOK` relates the two key files, the two keys in memory and the keys of
  the passwords at every moment of a rotation: memory and disk differ by one write at
  most; a pending key that is only in memory has encrypted no password but those in
  `exposed` and `memoryOnly`; and once it is the master key, all passwords but those in
  `exposed` have it, so that those in `memoryOnly` are safe again when its file is written.
* `Rotating`: what has not been converted yet is on the rotation's list. The blob
  it is about to write back is the one stored, or the device is exposed.
* `BackingUp`: what a backup has copied can be opened with the keys it will pack, until a
  rotation ends under it, but for the passwords that were in one of the two histories when
  the database was copied (`excepted`).
* `Saving`: what a request is about to save differs from the document only in its own
  part and in what others have changed since it read; a device whose password is not
  stored is among those the request will store before the document.

### Only model-checked

* That a step of the actor can always be taken: `HolderNotStuck` for the lock,
  and for `InFlightSettles` that a thread in a request is never stuck, which the run
  `AcmeGate` needs to find the property true under `FairSpec`. Both are about
  `ENABLED`, which is out of the provers' reach; with them the hypotheses `GoesOn` and
  `EveryThreadGoesOn` follow from weak fairness. What the threads then come to is proved
  (`HolderComesNearer`, `RequestGivesLockBack`, `InFlightComesToRest`). For a Toolbelt
  run no property states it; by `UploaderThere` it can be read off the guards, label by
  label.
* That a batch or a Toolbelt run reaches its end, as opposed to coming nearer with every
  step: an induction over the number of steps left.
* The four runs that find a violation: a counterexample on one instance is all there
  is to show.

## 6. What is not modelled

Local CA packages: the import that replaces the CA deletes its files and row and the
certificates made with it one by one, and stores the new CA afterwards. It
is an act of an administrator that the next import completes when it was broken
off; what it leaves between is listed as a hazard. The rotation of the master key
converts the table of secrets and not the private keys in the artifact sets
(`artifacts.py` encrypts them with the same key), though the design wants that
(`docs/superpowers/specs/2026-06-13-certificate-renewal-design.md`, line 318);
`ServerData` has the passwords only, so its `SecretsReadable` says nothing of those
files. Of backups, the packing, the signatures and the swap of the
data directory at the next start are left out; of the vault `rewrap`, whose only
caller is a test. The CA migration is a conversion done once. Audit lines are
written after the fact, and only those that decide on something (results before
rows are hidden) are in a module.

Left out for good: the contents of certificates, keys and packages (cryptography is
external), the SIS dialogue with a device byte by byte, the automation of the
Toolbelt window, the selection on its page, the reset of its upload tab and its
credentials, the browser pages, parsing and formatting. `PROJECT.json` lists every
component with its status, and every hazard, also those without a property
so far, with the line where it bites.

## 7. Running it

    tlc -workers 2 -config AcmeSafety.cfg MCAcme
    tlc -workers 2 -config StoreSafety.cfg MCStore
    tlc -workers 2 -config DirectSafety.cfg MCDirect
    tlc -workers 2 -config ToolbeltSafety.cfg MCToolbelt
    tlc -workers 2 -config AccountsSafety.cfg MCAccounts
    tlc -workers 2 -config ServerDataSafety.cfg MCServerData
    tlapm AcmeRenewalProofs.tla
    tlapm AcmeRecordsProofs.tla
    tlapm CertificateStoreProofs.tla
    tlapm DirectDeliveryProofs.tla
    tlapm ToolbeltProofs.tla
    tlapm ToolbeltRunProofs.tla
    tlapm AccountsProofs.tla
    tlapm ServerDataProofs.tla

The other configurations begin with the name of the module they belong to.

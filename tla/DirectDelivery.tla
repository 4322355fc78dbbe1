--------------------------- MODULE DirectDelivery ---------------------------
(***************************************************************************)
(* Direct delivery of prepared certificates to Extron devices              *)
(* (direct_extron.py) with its batches, its individual uploads, removal of *)
(* a device certificate, clean-up of staged PEMs, and the upload queue's   *)
(* audit and hiding of finished rows (upload_queue.py).                    *)
(*                                                                         *)
(* One thread per batch, one per individual upload or removal and one per  *)
(* clean-up request.  The first two kinds exclude each other by a lock     *)
(* taken without waiting; a clean-up takes no lock, and neither does the   *)
(* Toolbelt, which uploads to the same devices by other means.  All        *)
(* staged-PEM records live in one settings document that is read, changed  *)
(* and written back as a whole, so reading and writing it are separate     *)
(* steps.  A crash loses the threads, the lock and the batches in memory;  *)
(* the documents stay.                                                     *)
(*                                                                         *)
(* A target is a prepared row: a device, its interface and its newest      *)
(* certificate.  Every failed test is "not_ready", every upload result     *)
(* other than "verified" and "upload_unconfirmed" is "unresolved".         *)
(***************************************************************************)
EXTENDS Naturals, FiniteSets

CONSTANTS Runs, Targets,
          Callers,            \* requests for an individual upload or a removal
          Cleaners,           \* requests to clean up one staged PEM
          Names,              \* staged PEM names: bounds the uploads ever begun
          MaxDisturbances     \* bounds the failing accesses to the database and the
                              \* uploads of the Toolbelt, together

ASSUME DisturbanceBound == MaxDisturbances \in Nat

VARIABLES lock,               \* who holds _certificate_operation_lock
          batch,              \* _batches, in memory
          saved,              \* the setting direct_extron_batches
          staged,             \* the setting of staged PEM records
          loc,                \* what each thread is doing
          onDevice,           \* the device that holds each staged PEM file
          serves,             \* targets that present their prepared certificate
          audited,            \* upload results in Audit
          completed,          \* rows hidden from the upload list
          touched,            \* history: targets a run has begun to transfer to
          astray,             \* history: staged PEMs whose record a stale write-back
                              \* dropped, or that were cleaned up while being transferred
          disturbances        \* failed accesses and Toolbelt uploads so far

vars == <<lock, batch, saved, staged, loc, onDevice, serves, audited,
          completed, touched, astray, disturbances>>
store == <<audited, completed>>
device == <<onDevice, serves, touched>>

Threads == Runs \cup Callers \cup Cleaners
Nobody == "nobody"
Lost == "lost"                \* held, and no thread is left to give it back
NoTarget == "no target"
NoName == "no name"

ASSUME ThreadAssumption == /\ Runs \cap Callers = {} /\ Cleaners \cap (Runs \cup Callers) = {}
                           /\ Nobody \notin Threads /\ Lost \notin Threads
ASSUME NullAssumption == NoTarget \notin Targets /\ NoName \notin Names

NoRecord == [target |-> NoTarget, status |-> "absent"]
NewRecord(t) == [target |-> t, status |-> "staged"]
NoRecords == [n \in Names |-> NoRecord]
Unresolved(n) == staged[n].status \notin {"absent", "deleted"}     \* recover_staged

NoBatch == [mode |-> "none", status |-> "absent", stop |-> FALSE,
            dev |-> [t \in Targets |-> "none"]]
NewBatch(mode, ts) ==
    [mode |-> mode, status |-> "running", stop |-> FALSE,
     dev |-> [t \in Targets |-> IF t \in ts THEN "pending" ELSE "none"]]
Listed == Targets \ completed                          \* the prepared rows on offer
TargetsOf(r) == {t \in Targets : batch[r].dev[t] # "none"}
With(r, status) == {t \in Targets : batch[r].dev[t] = status}
Bad == {"not_ready", "unresolved", "upload_unconfirmed"}
Ready(r) == \A t \in Targets : batch[r].dev[t] \notin Bad

Idle == [pc |-> "idle", target |-> NoTarget, name |-> NoName, doc |-> NoRecords,
         rec |-> NoRecord, then |-> "idle", result |-> "none"]
Ended == [Idle EXCEPT !.pc = "ended"]              \* a request is made once

Init == /\ lock = Nobody
        /\ batch = [r \in Runs |-> NoBatch]
        /\ saved = [r \in Runs |-> NoBatch]
        /\ staged = NoRecords
        /\ loc = [t \in Threads |-> Idle]
        /\ onDevice = [n \in Names |-> NoTarget]
        /\ serves = {}
        /\ audited = {}
        /\ completed = {}
        /\ touched = [r \in Runs |-> {}]
        /\ astray = {}
        /\ disturbances = 0

Disturbed == disturbances < MaxDisturbances /\ disturbances' = disturbances + 1

\* An access to the database that raises.
DatabaseFails == Disturbed

-----------------------------------------------------------------------------
(* Staged PEM records.                                                     *)

At(t, pc) == loc[t].pc = pc
Goto(t, pc) == loc' = [loc EXCEPT ![t].pc = pc]

\* Mutant of Raised: every request gives the lock back.
RaisedReleasing(t) ==
    IF t \in Runs
    THEN [Idle EXCEPT !.pc = "returned", !.target = loc[t].target, !.result = "upload_unconfirmed"]
    ELSE [Idle EXCEPT !.pc = "release"]

\* An exception that escapes an upload or a clean-up: a batch notes that the
\* upload is unconfirmed, an individual upload ends with an error.
Raised(t) ==
    IF t \in Runs
    THEN [Idle EXCEPT !.pc = "returned", !.target = loc[t].target, !.result = "upload_unconfirmed"]
    ELSE IF t \in Callers THEN [Idle EXCEPT !.pc = "release"] ELSE Ended

\* get_setting(STAGED_KEY) and the change that SaveRecords writes back: the
\* record is looked up in the document just read.
Edit(t, rec, then, result) ==
    loc' = [loc EXCEPT ![t] =
              IF staged[@.name] = NoRecord THEN Raised(t)
              ELSE [@ EXCEPT !.pc = "save", !.doc = staged, !.rec = rec,
                             !.then = then, !.result = result]]

Mark(t, status) == [staged[loc[t].name] EXCEPT !.status = status]

SaveRecords(t) ==
    /\ At(t, "save")
    /\ staged' = [loc[t].doc EXCEPT ![loc[t].name] = loc[t].rec]
    /\ astray' = astray \cup
         {n \in Names \ {loc[t].name} : staged[n] # NoRecord /\ loc[t].doc[n] = NoRecord}
    /\ loc' = [loc EXCEPT ![t] =
                 IF loc[t].then = "ended" THEN Ended
                 ELSE [@ EXCEPT !.pc = loc[t].then, !.doc = NoRecords, !.rec = NoRecord, !.then = "idle"]]
    /\ UNCHANGED <<lock, batch, saved, device, store, disturbances>>

SaveRecordsFails(t) ==
    /\ At(t, "save")
    /\ DatabaseFails
    /\ loc' = [loc EXCEPT ![t] = Raised(t)]
    /\ UNCHANGED <<lock, batch, saved, staged, device, store, astray>>

-----------------------------------------------------------------------------
(* One upload, by a batch or by an individual request (_activate_one).      *)

Done(t, result) ==
    [Idle EXCEPT !.pc = "returned", !.target = loc[t].target, !.result = result]

\* The host key is refused, or the device or the certificate's files cannot be
\* reached: nothing is transferred.
Refuse(t) ==
    /\ At(t, "begin")
    /\ \E outcome \in {Done(t, "unresolved"), Raised(t)} : loc' = [loc EXCEPT ![t] = outcome]
    /\ UNCHANGED <<lock, batch, saved, staged, device, store, astray, disturbances>>

RecordStaged(t) ==
    /\ At(t, "begin")
    /\ \E n \in Names :
         /\ staged[n] = NoRecord
         /\ \A u \in Threads : loc[u].name # n
         /\ n \notin astray
         /\ loc' = [loc EXCEPT ![t] = [@ EXCEPT !.pc = "save", !.name = n, !.doc = staged,
                                         !.rec = NewRecord(loc[t].target), !.then = "stage"]]
    /\ UNCHANGED <<lock, batch, saved, staged, device, store, astray, disturbances>>

\* The SFTP transfer; interrupted, it may have left the file on the device.
Stage(t) ==
    /\ At(t, "stage")
    /\ touched' = IF t \in Runs THEN [touched EXCEPT ![t] = @ \cup {loc[t].target}] ELSE touched
    /\ \/ /\ onDevice' = [onDevice EXCEPT ![loc[t].name] = loc[t].target]
          /\ Edit(t, staged[loc[t].name], "ingest", "none")
       \/ /\ onDevice' \in {onDevice, [onDevice EXCEPT ![loc[t].name] = loc[t].target]}
          /\ Edit(t, Mark(t, "cleanup_pending"), "returned", "unresolved")
    /\ UNCHANGED <<lock, batch, saved, staged, serves, store, astray, disturbances>>

\* The SIS import command: the device may act on it whatever it answers, and a
\* lost connection ends the upload without an answer.
Ingest(t) ==
    /\ At(t, "ingest")
    /\ serves' \in {serves, serves \cup {loc[t].target}}
    /\ \/ \E answer \in {"acknowledged", "rejected"} :
            Edit(t, staged[loc[t].name], answer, "none")
       \/ Edit(t, Mark(t, "cleanup_pending"), "returned", "unresolved")
    /\ UNCHANGED <<lock, batch, saved, staged, onDevice, touched, store, astray, disturbances>>

Answered(t) ==
    /\ \/ /\ At(t, "acknowledged")
          /\ Edit(t, Mark(t, "staged"), "verify", "none")
       \/ /\ At(t, "rejected")
          /\ Edit(t, Mark(t, "cleanup_pending"), "returned", "unresolved")
    /\ UNCHANGED <<lock, batch, saved, staged, device, store, astray, disturbances>>

\* The HTTPS read-back; the endpoint may also be unreachable.
Verify(t) ==
    /\ At(t, "verify")
    /\ \/ /\ loc[t].target \in serves
          /\ Goto(t, "delete")
       \/ Edit(t, Mark(t, "cleanup_pending"), "returned", "unresolved")
    /\ UNCHANGED <<lock, batch, saved, staged, device, store, astray, disturbances>>

\* Mutant of DeleteStaged: a failed deletion is recorded like a done one.
DeleteAssumed(t) ==
    /\ At(t, "delete")
    /\ onDevice' \in {onDevice, [onDevice EXCEPT ![loc[t].name] = NoTarget]}
    /\ Edit(t, Mark(t, "deleted"),
            IF t \in Cleaners THEN "ended" ELSE "returned", "verified")
    /\ UNCHANGED <<lock, batch, saved, staged, serves, touched, store, astray, disturbances>>

\* The staged PEM is deleted over SFTP; a lost connection leaves it unknown.
DeleteStaged(t) ==
    /\ At(t, "delete")
    /\ \/ /\ onDevice' = [onDevice EXCEPT ![loc[t].name] = NoTarget]
          /\ Edit(t, Mark(t, "deleted"),
                  IF t \in Cleaners THEN "ended" ELSE "returned", "verified")
       \/ /\ onDevice' \in {onDevice, [onDevice EXCEPT ![loc[t].name] = NoTarget]}
          /\ Edit(t, Mark(t, "delete_failed"),
                  IF t \in Cleaners THEN "ended" ELSE "returned", "unresolved")
       \/ /\ loc' = [loc EXCEPT ![t] = Raised(t)]           \* the host key has changed
          /\ UNCHANGED onDevice
    /\ UNCHANGED <<lock, batch, saved, staged, serves, touched, store, astray, disturbances>>

-----------------------------------------------------------------------------
(* Clean-up of one staged PEM (cleanup_one): no lock is taken.  An upload   *)
(* that is not known to be over has a grace period of 300 s.  It may outlast*)
(* the upload or not, for nothing bounds the opening of the transport and   *)
(* of the shell: time is not modelled, and the period may have passed.      *)

\* The upload of this staged PEM has yet to transfer it.
Transferring(n) ==
    \E t \in Threads : loc[t].name = n /\ (At(t, "stage") \/ (At(t, "save") /\ loc[t].then = "stage"))

CleanupOne(t, n) ==
    /\ loc[t] = Idle
    /\ Unresolved(n)
    /\ loc' = [loc EXCEPT ![t] = [Idle EXCEPT !.pc = "delete", !.name = n]]
    /\ astray' = IF Transferring(n) THEN astray \cup {n} ELSE astray
    /\ UNCHANGED <<lock, batch, saved, staged, device, store, disturbances>>

-----------------------------------------------------------------------------
(* An individual upload or removal: one operation at a time.                *)

ActivateOne(t, u) ==
    /\ loc[t] = Idle /\ lock = Nobody
    /\ lock' = t
    /\ loc' = [loc EXCEPT ![t] = [Idle EXCEPT !.pc = "begin", !.target = u]]
    /\ UNCHANGED <<batch, saved, staged, device, store, astray, disturbances>>

\* upload_queue.finish for one result: audited, and then its row may be hidden.
\* No other thread looks at that audit entry, so it is left out of the state.
RecordOne(t) ==
    /\ t \in Callers /\ At(t, "returned")
    /\ completed' \in {completed} \cup
         (IF loc[t].result = "verified" THEN {completed \cup {loc[t].target}} ELSE {})
    /\ loc' = [loc EXCEPT ![t] = [Idle EXCEPT !.pc = "release"]]
    /\ UNCHANGED <<lock, batch, saved, staged, device, audited, astray, disturbances>>

\* Mutant of RemoveCertificate: the operation lock is not taken.
RemoveUnlocked(t, u) ==
    /\ loc[t] = Idle
    /\ \A n \in Names : staged[n].target = u => ~Unresolved(n)
    /\ loc' = [loc EXCEPT ![t] = [Idle EXCEPT !.pc = "remove", !.target = u]]
    /\ UNCHANGED <<lock, batch, saved, staged, device, store, astray, disturbances>>

RemoveCertificate(t, u) ==
    /\ loc[t] = Idle /\ lock = Nobody
    /\ \A n \in Names : staged[n].target = u => ~Unresolved(n)
    /\ lock' = t
    /\ loc' = [loc EXCEPT ![t] = [Idle EXCEPT !.pc = "remove", !.target = u]]
    /\ UNCHANGED <<batch, saved, staged, device, store, astray, disturbances>>

SendRemoval(t) ==
    /\ At(t, "remove")
    /\ serves' \in {serves, serves \ {loc[t].target}}
    /\ loc' = [loc EXCEPT ![t] = [Idle EXCEPT !.pc = "release"]]
    /\ UNCHANGED <<lock, batch, saved, staged, onDevice, touched, store, astray, disturbances>>

Release(t) ==
    /\ At(t, "release")
    /\ lock' = Nobody
    /\ loc' = [loc EXCEPT ![t] = Ended]
    /\ UNCHANGED <<batch, saved, staged, device, store, astray, disturbances>>

-----------------------------------------------------------------------------
(* A batch.                                                                 *)

SetDev(r, t, status) == batch' = [batch EXCEPT ![r].dev[t] = status]

\* _persist_batches, which the loop's outer handler turns into a failed run.
Persist == saved' = batch' /\ UNCHANGED disturbances
PersistFails == DatabaseFails /\ UNCHANGED saved
Failed(r) == loc' = [loc EXCEPT ![r] = [Idle EXCEPT !.pc = "finish", !.result = "failed"]]

StartBatch(r, mode, ts) ==
    /\ batch[r] = NoBatch /\ ts # {}
    /\ lock = Nobody
    /\ lock' = r
    /\ batch' = [batch EXCEPT ![r] = NewBatch(mode, ts)]
    /\ Persist
    /\ loc' = [loc EXCEPT ![r] = [Idle EXCEPT !.pc = "test"]]
    /\ UNCHANGED <<staged, device, store, astray>>

StartFails(r, mode, ts) ==
    /\ batch[r] = NoBatch /\ ts # {}
    /\ lock = Nobody
    /\ PersistFails
    /\ batch' = [batch EXCEPT ![r] = [NewBatch(mode, ts) EXCEPT !.status = "failed"]]
    /\ UNCHANGED <<lock, staged, loc, device, store, astray>>

\* start_batch has the lock and has yet to enter its try: whether rows are to be
\* hidden cannot be read, and the lock is not given back.
StartLosesLock ==
    /\ Listed # {}
    /\ lock = Nobody
    /\ DatabaseFails
    /\ lock' = Lost
    /\ UNCHANGED <<batch, saved, staged, loc, device, store, astray>>

StopBatch(r) ==
    /\ batch[r].status = "running"
    /\ ~batch[r].stop
    /\ batch' = [batch EXCEPT ![r].stop = TRUE]
    /\ Persist \/ PersistFails
    /\ UNCHANGED <<lock, staged, loc, device, store, astray>>

\* Preflight: every target is tested before any PEM is transferred.
BeginTest(r) ==
    /\ At(r, "test")
    /\ ~batch[r].stop
    /\ \E t \in With(r, "pending") :
         /\ SetDev(r, t, "testing")
         /\ \/ Persist /\ loc' = [loc EXCEPT ![r] = [Idle EXCEPT !.pc = "probe", !.target = t]]
            \/ PersistFails /\ Failed(r)
    /\ UNCHANGED <<lock, staged, device, store, astray>>

\* Mutant of Blocked: only a failed deletion counts as unresolved.
BlockedByFailure(r, t) ==
    batch[r].mode = "upload" /\ \E n \in Names : staged[n].target = t /\ staged[n].status = "delete_failed"

\* An interface with an unresolved staged PEM is not ready for an upload.
Blocked(r, t) ==
    batch[r].mode = "upload" /\ \E n \in Names : staged[n].target = t /\ Unresolved(n)

Probe(r) ==
    /\ At(r, "probe")
    /\ \E result \in {"ready", "not_ready"} :
         /\ result = "ready" => ~Blocked(r, loc[r].target)
         /\ SetDev(r, loc[r].target, result)
         /\ \/ Persist /\ loc' = [loc EXCEPT ![r] = [Idle EXCEPT !.pc = "test"]]
            \/ PersistFails /\ Failed(r)
    /\ UNCHANGED <<lock, staged, device, store, astray>>

\* Mutant of EndTests: the uploads begin whatever the tests found.
EndTestsUnchecked(r) ==
    /\ At(r, "test")
    /\ batch[r].stop \/ With(r, "pending") = {}
    /\ Goto(r, IF batch[r].mode = "upload" THEN "upload" ELSE "wrap_up")
    /\ UNCHANGED <<lock, batch, saved, staged, device, store, astray, disturbances>>

EndTests(r) ==
    /\ At(r, "test")
    /\ batch[r].stop \/ With(r, "pending") = {}
    /\ Goto(r, IF batch[r].mode = "upload" /\ Ready(r) THEN "upload" ELSE "wrap_up")
    /\ UNCHANGED <<lock, batch, saved, staged, device, store, astray, disturbances>>

\* Mutant of BeginUpload: the status is saved only with the result.
BeginUploadUnsaved(r) ==
    /\ At(r, "upload")
    /\ ~batch[r].stop
    /\ \E t \in With(r, "ready") :
         /\ SetDev(r, t, "uploading")
         /\ loc' = [loc EXCEPT ![r] = [Idle EXCEPT !.pc = "begin", !.target = t]]
    /\ UNCHANGED <<lock, saved, staged, device, store, astray, disturbances>>

BeginUpload(r) ==
    /\ At(r, "upload")
    /\ ~batch[r].stop
    /\ \E t \in With(r, "ready") :
         /\ SetDev(r, t, "uploading")
         /\ \/ Persist /\ loc' = [loc EXCEPT ![r] = [Idle EXCEPT !.pc = "begin", !.target = t]]
            \/ PersistFails /\ Failed(r)
    /\ UNCHANGED <<lock, staged, device, store, astray>>

Uploaded(r) ==
    /\ r \in Runs /\ At(r, "returned")
    /\ SetDev(r, loc[r].target, loc[r].result)
    /\ \/ /\ Persist
          /\ loc' = [loc EXCEPT ![r] =
                [Idle EXCEPT !.pc = IF loc[r].result = "verified" THEN "upload" ELSE "wrap_up"]]
       \/ PersistFails /\ Failed(r)
    /\ UNCHANGED <<lock, staged, device, store, astray>>

EndUploads(r) ==
    /\ At(r, "upload")
    /\ batch[r].stop \/ With(r, "ready") = {}
    /\ Goto(r, "wrap_up")
    /\ UNCHANGED <<lock, batch, saved, staged, device, store, astray, disturbances>>

\* What was never reached is skipped, and the outcome decided.
Skipped(b) ==
    [t \in Targets |->
        IF b.dev[t] = "pending" \/ (b.mode = "upload" /\ b.dev[t] = "ready")
        THEN "skipped" ELSE b.dev[t]]

\* Mutant of WrapUp: a requested stop is not looked at.
WrapUpIgnoringStop(r) ==
    /\ At(r, "wrap_up")
    /\ batch' = [batch EXCEPT ![r].dev = Skipped(batch[r])]
    /\ loc' = [loc EXCEPT ![r] =
                 [Idle EXCEPT !.pc = "finish",
                              !.result = IF Ready(r) THEN "complete" ELSE "needs_attention"]]
    /\ UNCHANGED <<lock, saved, staged, device, store, astray, disturbances>>

WrapUp(r) ==
    /\ At(r, "wrap_up")
    /\ batch' = [batch EXCEPT ![r].dev = Skipped(batch[r])]
    /\ loc' = [loc EXCEPT ![r] =
                 [Idle EXCEPT !.pc = "finish",
                              !.result = IF batch[r].stop THEN "stopped"
                                         ELSE IF Ready(r) THEN "complete" ELSE "needs_attention"]]
    /\ UNCHANGED <<lock, saved, staged, device, store, astray, disturbances>>

-----------------------------------------------------------------------------
(* The end of a batch: audit every result, hide the successful rows, record *)
(* the run (UploadQueueService.finish), then save the outcome.              *)

Outcomes(r) == {<<r, t, batch[r].dev[t] = "verified">> : t \in TargetsOf(r)}
Successful(r) == With(r, "verified")

\* Whether rows are to be hidden was read from a setting when the batch began;
\* it is used once, so it is chosen where it is used.
AfterAudit(r) ==
    {"record"} \cup IF loc[r].result \in {"complete", "needs_attention"} THEN {"hide"} ELSE {}

AuditResults(r) ==
    /\ At(r, "finish") /\ batch[r].mode = "upload"
    /\ audited' = audited \cup Outcomes(r)
    /\ \E next \in AfterAudit(r) : Goto(r, next)
    /\ UNCHANGED <<lock, batch, saved, staged, device, completed, astray, disturbances>>

HideSuccessful(r) ==
    /\ At(r, "hide")
    /\ completed' = completed \cup Successful(r)
    /\ Goto(r, "record")
    /\ UNCHANGED <<lock, batch, saved, staged, device, audited, astray, disturbances>>

\* The list of recorded runs only keeps a run from being recorded twice.
RecordRun(r) ==
    /\ At(r, "record")
    /\ Goto(r, "close")
    /\ UNCHANGED <<lock, batch, saved, staged, device, audited, completed, astray, disturbances>>

\* Mutant of FinishFails: a failed audit does not end the run.
FinishGoesOn(r) ==
    /\ DatabaseFails
    /\ At(r, "finish") /\ batch[r].mode = "upload"
    /\ \E some \in SUBSET Outcomes(r) : audited' = audited \cup some
    /\ \E next \in AfterAudit(r) : Goto(r, next)
    /\ UNCHANGED <<lock, batch, saved, staged, device, completed, astray>>

\* Any of the three can fail, an audit after some of the results are in.
FinishFails(r) ==
    /\ DatabaseFails
    /\ \/ /\ At(r, "finish") /\ batch[r].mode = "upload"
          /\ \E some \in SUBSET Outcomes(r) : audited' = audited \cup some
       \/ /\ loc[r].pc \in {"hide", "record"}
          /\ UNCHANGED audited
    /\ loc' = [loc EXCEPT ![r] = [Idle EXCEPT !.pc = "close", !.result = "failed"]]
    /\ UNCHANGED <<lock, batch, saved, staged, device, completed, astray>>

\* Mutant of Close: the lock is kept when the outcome cannot be saved.
CloseKeepingLock(r) ==
    /\ At(r, "close") \/ (At(r, "finish") /\ batch[r].mode = "test")
    /\ \/ /\ batch' = [batch EXCEPT ![r].status = loc[r].result]
          /\ Persist
          /\ lock' = Nobody
       \/ /\ PersistFails
          /\ batch' = [batch EXCEPT ![r].status = "failed"]
          /\ UNCHANGED lock
    /\ loc' = [loc EXCEPT ![r] = Idle]
    /\ UNCHANGED <<staged, device, store, astray>>

Close(r) ==
    /\ At(r, "close") \/ (At(r, "finish") /\ batch[r].mode = "test")
    /\ \/ /\ batch' = [batch EXCEPT ![r].status = loc[r].result]
          /\ Persist
       \/ /\ PersistFails
          /\ batch' = [batch EXCEPT ![r].status = "failed"]
    /\ lock' = Nobody
    /\ loc' = [loc EXCEPT ![r] = Idle]
    /\ UNCHANGED <<staged, device, store, astray>>

-----------------------------------------------------------------------------
(* A crash, and what the next start makes of the batches it left running.   *)

Interrupted(status) ==
    CASE status = "uploading" -> "upload_unconfirmed"
      [] status = "testing" -> "interrupted"
      [] status \in {"pending", "ready"} -> "skipped"
      [] OTHER -> status

Recovered(b) ==
    IF b.status # "running" THEN b
    ELSE [b EXCEPT !.status = "interrupted",
                   !.dev = [t \in Targets |-> Interrupted(b.dev[t])]]

Crash ==
    /\ batch' = [r \in Runs |-> Recovered(saved[r])]
    /\ Persist
    /\ lock' = Nobody
    /\ loc' = [t \in Threads |-> IF t \in Runs \/ loc[t] = Idle THEN Idle ELSE Ended]
    /\ UNCHANGED <<staged, device, store, astray>>

-----------------------------------------------------------------------------
(* The Toolbelt puts the prepared certificate on a device, or another.      *)

ToolbeltUploads(u) ==
    /\ Disturbed
    /\ serves' = IF u \in serves THEN serves \ {u} ELSE serves \cup {u}
    /\ UNCHANGED <<lock, batch, saved, staged, loc, onDevice, touched, store, astray>>

-----------------------------------------------------------------------------
RunStep(r) == \/ BeginTest(r) \/ Probe(r) \/ EndTests(r) \/ BeginUpload(r)
              \/ Uploaded(r) \/ EndUploads(r) \/ WrapUp(r) \/ AuditResults(r)
              \/ HideSuccessful(r) \/ RecordRun(r) \/ FinishFails(r) \/ Close(r)

UploadStep(t) == \/ Refuse(t) \/ RecordStaged(t) \/ Stage(t) \/ Ingest(t)
                 \/ Answered(t) \/ Verify(t)

CallerStep(t) == RecordOne(t) \/ SendRemoval(t) \/ Release(t)

RecordStep(t) == DeleteStaged(t) \/ SaveRecords(t) \/ SaveRecordsFails(t)

Request ==
    \/ \E r \in Runs, mode \in {"test", "upload"}, ts \in SUBSET Listed :
         StartBatch(r, mode, ts) \/ StartFails(r, mode, ts)
    \/ StartLosesLock
    \/ \E r \in Runs : StopBatch(r)
    \/ \E t \in Callers, u \in Targets : ActivateOne(t, u) \/ RemoveCertificate(t, u)
    \/ \E t \in Cleaners, n \in Names : CleanupOne(t, n)

Step(t) == \/ t \in Runs /\ RunStep(t)
           \/ t \in Callers /\ CallerStep(t)
           \/ UploadStep(t)
           \/ RecordStep(t)

Next == \/ Request \/ (\E t \in Threads : Step(t)) \/ Crash
        \/ \E u \in Targets : ToolbeltUploads(u)

Spec == Init /\ [][Next]_vars

-----------------------------------------------------------------------------
(* Properties.                                                             *)

Record == [target : Targets \cup {NoTarget},
           status : {"absent", "staged", "cleanup_pending", "delete_failed", "deleted"}]
Statuses == {"none", "pending", "testing", "ready", "not_ready", "uploading", "verified",
             "unresolved", "upload_unconfirmed", "skipped", "interrupted"}
Batch == [mode : {"none", "test", "upload"}, stop : BOOLEAN,
          status : {"absent", "running", "complete", "needs_attention", "stopped",
                    "failed", "interrupted"},
          dev : [Targets -> Statuses]]

RunLabels == {"idle", "test", "probe", "upload", "wrap_up", "finish", "hide", "record", "close"}
UploadLabels == {"begin", "save", "stage", "ingest", "acknowledged", "rejected",
                 "verify", "delete", "returned"}

\* Every document, every batch and every request keeps its shape: in particular
\* a clean-up never gets where the operation lock is given back.
TypeOK ==
    /\ lock \in Runs \cup Callers \cup {Nobody, Lost}
    /\ batch \in [Runs -> Batch] /\ saved \in [Runs -> Batch]
    /\ staged \in [Names -> Record]
    /\ \A t \in Runs : loc[t].pc \in RunLabels \cup UploadLabels
    /\ \A t \in Callers : loc[t].pc \in UploadLabels \cup {"idle", "remove", "release", "ended"}
    /\ \A t \in Cleaners : loc[t].pc \in {"idle", "delete", "save", "ended"}
    /\ \A t \in Threads : /\ loc[t].doc \in [Names -> Record] /\ loc[t].rec \in Record
                          /\ loc[t].name \in Names \cup {NoName}
                          /\ loc[t].target \in Targets \cup {NoTarget}
    /\ onDevice \in [Names -> Targets \cup {NoTarget}]
    /\ serves \subseteq Targets /\ completed \subseteq Targets
    /\ audited \subseteq Runs \X Targets \X BOOLEAN
    /\ astray \subseteq Names
    /\ touched \in [Runs -> SUBSET Targets]

\* "Preflight every endpoint before any private PEM is transferred": while a
\* batch uploads, each of its targets is proven ready, or already verified.
PreflightFirst ==
    [][\A r \in Runs : touched'[r] # touched[r] =>
         \A t \in TargetsOf(r) : batch[r].dev[t] \in {"ready", "uploading", "verified"}]_vars

\* "An in-flight upload is marked unconfirmed": a target a batch has begun to
\* transfer to is never reported as untouched, whatever crashes and whatever
\* fails to be saved.
UploadNotForgotten ==
    \A r \in Runs : \A t \in touched[r] :
        saved[r].dev[t] \in {"uploading", "verified", "unresolved", "upload_unconfirmed"}

\* A batch reported complete has every target verified (or tested ready),
\* although a stop, a failure or a restart may end it anywhere.
CompleteMeansAll ==
    \A r \in Runs : saved[r].status = "complete" =>
        \A t \in Targets : saved[r].dev[t] \in
            {"none", IF saved[r].mode = "upload" THEN "verified" ELSE "ready"}

\* Before a row is hidden its success is in Audit, and so is the result of every
\* other target of the same run.
HiddenAfterAudit ==
    [][\A t \in completed' \ completed :
         \/ lock \in Callers
         \/ /\ <<lock, t, TRUE>> \in audited
            /\ \A u \in TargetsOf(lock) : \E ok \in BOOLEAN : <<lock, u, ok>> \in audited
      ]_vars

\* As long as a batch runs, what it has verified stays so: no other direct upload
\* or removal works on a device in the meantime, and a verified device changes its
\* certificate by nothing but an upload of the Toolbelt, which takes no operation lock.
VerifiedStaysServed ==
    [][\A t \in serves \ serves' :
         \/ \A r \in Runs : lock = r => t \notin With(r, "verified")
         \/ ToolbeltUploads(t)]_vars

\* A PEM on a device is listed for review until it is deleted.  There are two ways
\* out of the list: the stale write-back of another staged PEM's record, and a
\* clean-up after the grace period of an upload that is still to transfer the PEM.
StagedIsListed ==
    \A n \in Names : onDevice[n] # NoTarget => Unresolved(n) \/ n \in astray

\* Whoever holds the lock that keeps every other upload and removal out can go
\* on, and gives it back whatever fails.  Excepted is a start that fails between
\* taking the lock and its try: nobody has that lock, and it is held until the next
\* start of the server.
HolderNotStuck == lock \notin {Nobody, Lost} => ENABLED Step(lock)

\* While a batch uploads to an interface no earlier staged PEM is left there, but
\* for one the list has lost by one of the two ways out of it.
NoSecondPem ==
    \A r \in Runs, n \in Names :
        loc[r].pc \in {"ingest", "verify", "delete"} /\ onDevice[n] = loc[r].target =>
            n = loc[r].name \/ n \in astray

\* "An unconfirmed import or cleanup failure remains visible for review": what
\* is on a device has a record, whatever that record says of it.
StagedVisible == \A n \in Names : onDevice[n] # NoTarget => staged[n] # NoRecord

=============================================================================

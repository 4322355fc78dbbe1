------------------------------ MODULE Toolbelt ------------------------------
(***************************************************************************)
(* Delivery of certificates through Extron Toolbelt (toolbelt.py,           *)
(* toolbelt_uploader.py, the Toolbelt routes of app.py).                    *)
(*                                                                         *)
(* A run is a thread of the server and a child process that works through   *)
(* the devices of the run one by one.  The child reads PEM files from a     *)
(* folder made for the run, looks for a stop file in it, and reports        *)
(* through a pipe.  The results of all runs are in one settings document    *)
(* that is read, changed and written back as a whole; an upload asks it for *)
(* a successful dry run of each certificate.  Nothing keeps two runs apart. *)
(* A crash takes the threads and the runs; the child goes on until it       *)
(* reports, and the folder stays.                                           *)
(***************************************************************************)
EXTENDS Integers, Sequences, FiniteSets

CONSTANTS Runs, Devices,
          UploadRuns,         \* the runs of mode upload; the others are dry runs
          Certificates,       \* numbered in the order they are issued in: also
                              \* bounds the certificates ever issued
          Earlier,            \* those of them that an earlier dry run has failed for
          Faults              \* which of FaultKinds may happen

FaultKinds == {"crash",       \* the server stops and is started again
               "not_ready",   \* a row without files or of another profile
               "io_error",    \* a write to the database fails
               "no_files",    \* a listed certificate's files are gone
               "locked_files", \* a file of the folder is in use and stays
               "child_dies"}  \* the uploader stops before it is done

ASSUME ToolbeltFaultAssumption == Faults \subseteq FaultKinds
ASSUME CertificateAssumption == Certificates \subseteq Nat /\ Earlier \subseteq Certificates

VARIABLES owner,              \* stored leaf certificates: the device of each
          results,            \* setting toolbelt_latest_status, by certificate and mode
          run,                \* _runs, in memory
          loc,                \* what the thread of each run is doing
          folder,             \* the temporary folder of each run, also the one that
                              \* is kept: that has outlived its run
          stopFile,           \* the runs with a stop file in their folder
          child,              \* the uploader process of each run
          pipe,               \* its reports that are not yet read
          audited,            \* the results in Audit, of the runs that are going on
          completed,          \* certificates hidden from the list
          proven, delivered,  \* history: certificates dry-run, and presented
          early               \* history: runs stopped before they had a folder

vars == <<owner, results, run, loc, folder, stopFile, child, pipe, audited,
          completed, proven, delivered, early>>
queue == <<audited, completed>>
files == <<folder, stopFile, early>>
device == <<proven, delivered>>
process == <<child, pipe>>

NoDevice == "no device"
NoCertificate == -1
Modes == {"dry-run", "upload"}
NoResults == [c \in Certificates |-> [m \in Modes |-> "none"]]
NoTargets == [d \in Devices |-> NoCertificate]

Mode(r) == IF r \in UploadRuns THEN "upload" ELSE "dry-run"

\* ToolbeltRun, with the certificates start has chosen.
NoRun == [status |-> "absent", stop |-> FALSE,
          target |-> NoTargets, dev |-> [d \in Devices |-> "none"]]
Idle == [pc |-> "idle", doc |-> NoResults, device |-> NoDevice, result |-> "none",
         todo |-> {}, ending |-> "none"]
Ended == [Idle EXCEPT !.pc = "ended"]                    \* a run is started once
NoChild == [pc |-> "none", pem |-> NoTargets, todo |-> {},
            device |-> NoDevice]

Init == /\ owner \in [Certificates -> Devices \cup {NoDevice}]
        /\ \A c \in Certificates : c \in Earlier <=> owner[c] # NoDevice
        /\ results = [c \in Certificates |-> [m \in Modes |->
                       IF c \in Earlier /\ m = "dry-run" THEN "failed" ELSE "none"]]
        /\ run = [r \in Runs |-> NoRun] /\ loc = [r \in Runs |-> Idle]
        /\ folder = [r \in Runs |-> "none"] /\ stopFile = {}
        /\ child = [r \in Runs |-> NoChild] /\ pipe = [r \in Runs |-> <<>>]
        /\ audited = {} /\ completed = {}
        /\ proven = {} /\ delivered = {}
        /\ early = {}

DatabaseFails == "io_error" \in Faults
At(r, pc) == loc[r].pc = pc
Goto(r, pc) == loc' = [loc EXCEPT ![r].pc = pc]
TargetsOf(r) == {d \in Devices : run[r].target[d] # NoCertificate}

-----------------------------------------------------------------------------
(* The certificates of the devices.                                        *)

\* The newest certificate owns the row of its device; when it is hidden, the
\* older ones do not come up again.
Newest(d, c) == owner[c] = d /\ \A e \in Certificates : owner[e] = d => e <= c
Listed == {row \in Devices \X Certificates : Newest(row[1], row[2]) /\ row[2] \notin completed}

Issue(c, d) == /\ owner[c] = NoDevice
               /\ \A e \in Certificates : e < c => owner[e] # NoDevice
               /\ owner' = [owner EXCEPT ![c] = d]
               /\ UNCHANGED <<results, run, loc, files, process, queue, device>>

-----------------------------------------------------------------------------
(* start: the rows are read once, their old results are cleared, and only   *)
(* then it is decided, on the rows as they were read.                       *)

\* Mutant of DryRunOk: a result belongs to a device, whatever its certificate.
DryRunOfDevice(doc, c) == \E e \in Certificates :
                             owner[e] = owner[c] /\ doc[e]["dry-run"] = "ok"

DryRunOk(doc, c) == doc[c]["dry-run"] = "ok"

Start(r, rows) ==
    /\ At(r, "idle") /\ rows # {} /\ rows \subseteq Listed
    /\ run' = [run EXCEPT ![r].target =
                 [d \in Devices |-> IF \E c \in Certificates : <<d, c>> \in rows
                                   THEN CHOOSE c \in Certificates : <<d, c>> \in rows
                                   ELSE NoCertificate]]
    /\ loc' = [loc EXCEPT ![r] = [@ EXCEPT !.pc = "clear",
                 !.todo = {d \in Devices : \E c \in Certificates :
                             <<d, c>> \in rows /\ DryRunOk(results, c)}]]
    /\ UNCHANGED <<owner, results, files, process, queue, device>>

Cleared(r) ==
    [c \in Certificates |-> [m \in Modes |->
        IF c \in {run[r].target[d] : d \in TargetsOf(r)} /\ m \in {Mode(r), "upload"}
        THEN "none" ELSE results[c][m]]]

ReadStatuses(r) ==
    /\ At(r, "clear")
    /\ loc' = [loc EXCEPT ![r] =
                 IF Cleared(r) = results THEN [@ EXCEPT !.pc = "decide", !.doc = NoResults]
                 ELSE [@ EXCEPT !.pc = "clear_write", !.doc = Cleared(r)]]
    /\ UNCHANGED <<owner, results, run, files, process, queue, device>>

ClearStatuses(r) ==
    /\ At(r, "clear_write")
    /\ results' = loc[r].doc
    /\ loc' = [loc EXCEPT ![r] = [@ EXCEPT !.pc = "decide", !.doc = NoResults]]
    /\ UNCHANGED <<owner, run, files, process, queue, device>>

Blocked(r) == Mode(r) = "upload" /\ loc[r].todo # TargetsOf(r)

RefuseRun(r) ==
    /\ At(r, "decide")
    /\ "not_ready" \in Faults \/ Blocked(r)
    /\ run' = [run EXCEPT ![r] = NoRun]
    /\ loc' = [loc EXCEPT ![r] = Ended]
    /\ UNCHANGED <<owner, results, files, process, queue, device>>

Register(r) ==
    /\ At(r, "decide") /\ ~Blocked(r)
    /\ run' = [run EXCEPT ![r].status = "running"]
    /\ loc' = [loc EXCEPT ![r] = [Idle EXCEPT !.pc = "prepare"]]
    /\ UNCHANGED <<owner, results, files, process, queue, device>>

\* Mutant of Stop: the request is noted, and the child not told.
StopInMemory(r) ==
    /\ run[r].status # "absent" /\ ~run[r].stop
    /\ run' = [run EXCEPT ![r].stop = TRUE]
    /\ early' = IF folder[r] = "none" THEN early \cup {r} ELSE early
    /\ UNCHANGED <<owner, results, loc, folder, stopFile, process, queue, device>>

\* A run that has not yet its folder has no stop file to write.
Stop(r) ==
    /\ run[r].status # "absent"
    /\ ~run[r].stop \/ (folder[r] = "made" /\ r \notin stopFile)
    /\ run' = [run EXCEPT ![r].stop = TRUE]
    /\ stopFile' = IF folder[r] = "made" THEN stopFile \cup {r} ELSE stopFile
    /\ early' = IF folder[r] = "none" THEN early \cup {r} ELSE early \ {r}
    /\ UNCHANGED <<owner, results, loc, folder, process, queue, device>>

-----------------------------------------------------------------------------
(* The thread of a run.                                                    *)

MakeFolder(r) ==
    /\ At(r, "prepare")
    /\ folder' = [folder EXCEPT ![r] = "made"]
    /\ Goto(r, "stage")
    /\ UNCHANGED <<owner, results, run, stopFile, early, process, queue, device>>

\* except Exception: what has not succeeded is marked as failed.
Failing(r) == [Idle EXCEPT !.pc = "fail", !.todo = TargetsOf(r)]
Finishing(r, status) == [Idle EXCEPT !.pc = "finish", !.ending = status]

\* The PEMs are copied and the uploader is started, or one of the two fails.
SpawnUploader(r) ==
    /\ At(r, "stage")
    /\ run' = [run EXCEPT ![r].dev =
                 [d \in Devices |-> IF d \in TargetsOf(r) THEN "pending" ELSE "none"]]
    /\ \/ /\ child' = [child EXCEPT ![r] =
                           [NoChild EXCEPT !.pc = "check", !.pem = run[r].target, !.todo = TargetsOf(r)]]
          /\ Goto(r, "listen")
       \/ /\ "no_files" \in Faults
          /\ loc' = [loc EXCEPT ![r] = Failing(r)]
          /\ UNCHANGED child
    /\ UNCHANGED <<owner, results, files, pipe, queue, device>>

\* Mutant of Hear: every event of a device is filed as a result.
HearAnything(r) ==
    /\ At(r, "listen") /\ pipe[r] # <<>>
    /\ LET e == Head(pipe[r]) IN
         /\ pipe' = [pipe EXCEPT ![r] = Tail(@)]
         /\ run' = [run EXCEPT ![r].dev[e.device] = e.result]
         /\ loc' = [loc EXCEPT ![r] = [@ EXCEPT !.pc = "save", !.doc = results,
                               !.device = e.device, !.result = e.result]]
    /\ UNCHANGED <<owner, results, files, child, queue, device>>

\* _handle_event and the first half of _record_device_event.
Hear(r) ==
    /\ At(r, "listen") /\ pipe[r] # <<>>
    /\ LET e == Head(pipe[r]) IN
         /\ pipe' = [pipe EXCEPT ![r] = Tail(@)]
         /\ run' = [run EXCEPT ![r].dev[e.device] = e.result]
         /\ IF e.result \in {"ok", "failed"}
            THEN loc' = [loc EXCEPT ![r] = [@ EXCEPT !.pc = "save", !.doc = results,
                                    !.device = e.device, !.result = e.result]]
            ELSE UNCHANGED loc
    /\ UNCHANGED <<owner, results, files, child, queue, device>>

\* Mutant of ResultOf: the result is filed under the certificate the row has now.
ResultOfRow(r) == CHOOSE c \in Certificates : Newest(loc[r].device, c)

ResultOf(r) == run[r].target[loc[r].device]

SaveResult(r, pc, next) ==
    /\ At(r, pc)
    /\ results' = [loc[r].doc EXCEPT ![ResultOf(r)][Mode(r)] = loc[r].result]
    /\ loc' = [loc EXCEPT ![r] = [@ EXCEPT !.pc = next, !.doc = NoResults,
                                         !.device = NoDevice, !.result = "none"]]
    /\ UNCHANGED <<owner, run, files, process, queue, device>>

SaveResultFails(r) ==
    /\ At(r, "save") /\ DatabaseFails
    /\ loc' = [loc EXCEPT ![r] = Failing(r)]
    /\ UNCHANGED <<owner, results, run, files, process, queue, device>>

\* Mutant of ChildEnded: nobody looks at the exit code.
ChildEndedAnyhow(r) ==
    /\ At(r, "listen") /\ pipe[r] = <<>> /\ child[r].pc \in {"done", "dead"}
    /\ loc' = [loc EXCEPT ![r] = Finishing(r, IF run[r].stop THEN "stopped" ELSE "complete")]
    /\ UNCHANGED <<owner, results, run, files, process, queue, device>>

ChildEnded(r) ==
    /\ At(r, "listen") /\ pipe[r] = <<>> /\ child[r].pc \in {"done", "dead"}
    /\ loc' = [loc EXCEPT ![r] =
                 IF child[r].pc = "dead" THEN Failing(r)
                 ELSE Finishing(r, IF run[r].stop THEN "stopped" ELSE "complete")]
    /\ UNCHANGED <<owner, results, run, files, process, queue, device>>

MarkFailed(r) ==
    /\ At(r, "fail") /\ loc[r].todo # {}
    /\ \E d \in loc[r].todo :
         IF run[r].dev[d] = "ok"
         THEN loc' = [loc EXCEPT ![r].todo = loc[r].todo \ {d}] /\ UNCHANGED run
         ELSE /\ run' = [run EXCEPT ![r].dev[d] = "failed"]
              /\ loc' = [loc EXCEPT ![r] = [@ EXCEPT !.pc = "fail_save", !.doc = results,
                              !.device = d, !.result = "failed",
                              !.todo = loc[r].todo \ {d}]]
    /\ UNCHANGED <<owner, results, files, process, queue, device>>

AllMarked(r) ==
    /\ At(r, "fail") /\ loc[r].todo = {}
    /\ loc' = [loc EXCEPT ![r] = Finishing(r, "failed")]
    /\ UNCHANGED <<owner, results, run, files, process, queue, device>>

\* Mutant of ThreadDies: the folder is removed only where the run is finished.
ThreadDiesAtOnce(r) ==
    /\ At(r, "fail_save") /\ DatabaseFails
    /\ loc' = [loc EXCEPT ![r] = Ended]
    /\ UNCHANGED <<owner, results, run, files, process, queue, device>>

\* An exception in the except clause: only the finally clause is left, and the
\* run is shown as running from then on.
ThreadDies(r) ==
    /\ At(r, "fail_save") /\ DatabaseFails
    /\ loc' = [loc EXCEPT ![r] = [Idle EXCEPT !.pc = "remove_folder"]]
    /\ UNCHANGED <<owner, results, run, files, process, queue, device>>

-----------------------------------------------------------------------------
(* _finish and UploadQueueService.finish.                                  *)

Outcomes(r) == {<<r, run[r].target[d], run[r].dev[d] = "ok">> : d \in TargetsOf(r)}

\* Whether successful rows are to be removed is read at the start of the run, and
\* used here.
AuditResults(r) ==
    /\ At(r, "finish")
    /\ IF Mode(r) = "upload"
       THEN /\ audited' = audited \cup Outcomes(r)
            /\ \/ loc[r].ending = "complete" /\ Goto(r, "hide")
               \/ Goto(r, "record")
       ELSE Goto(r, "close") /\ UNCHANGED audited
    /\ UNCHANGED <<owner, results, run, files, process, completed, device>>

HideSuccessful(r) ==
    /\ At(r, "hide")
    /\ completed' = completed \cup {run[r].target[d] : d \in {e \in TargetsOf(r) : run[r].dev[e] = "ok"}}
    /\ Goto(r, "record")
    /\ UNCHANGED <<owner, results, run, files, process, audited, device>>

RecordRun(r) ==
    /\ At(r, "record")
    /\ Goto(r, "close")
    /\ UNCHANGED <<owner, results, run, files, process, queue, device>>

\* Mutant of FinishFails: a result that cannot be audited is passed over.
FinishGoesOn(r) ==
    /\ loc[r].pc \in {"finish", "hide", "record"} /\ Mode(r) = "upload"
    /\ DatabaseFails
    /\ loc' = [loc EXCEPT ![r].pc =
                 IF loc[r].pc = "finish" THEN "hide" ELSE "close"]
    /\ UNCHANGED <<owner, results, run, files, process, queue, device>>

\* Audit is written device by device: some of the results may be there already.
FinishFails(r) ==
    /\ loc[r].pc \in {"finish", "hide", "record"} /\ Mode(r) = "upload"
    /\ DatabaseFails
    /\ \E some \in SUBSET Outcomes(r) :
         audited' = IF At(r, "finish") THEN audited \cup some ELSE audited
    /\ loc' = [loc EXCEPT ![r] = [@ EXCEPT !.pc = "close", !.ending = "failed"]]
    /\ UNCHANGED <<owner, results, run, files, process, completed, device>>

Close(r) ==
    /\ At(r, "close")
    /\ run' = [run EXCEPT ![r].status = loc[r].ending]
    /\ loc' = [loc EXCEPT ![r] = [Idle EXCEPT !.pc = "remove_folder"]]
    /\ UNCHANGED <<owner, results, files, process, queue, device>>

\* From its end on a run is only shown: nothing depends on it any more.
Forget(r) == /\ run' = [run EXCEPT ![r] = NoRun]
             /\ early' = early \ {r}
             /\ audited' = {o \in audited : o[1] # r}
             /\ loc' = [loc EXCEPT ![r] = Ended]

\* rmtree ignores errors: nobody is told of what stays.
RemoveFolder(r) ==
    /\ At(r, "remove_folder")
    /\ \/ folder' = [folder EXCEPT ![r] = "none"]
       \/ "locked_files" \in Faults /\ folder' = [folder EXCEPT ![r] = "kept"]
    /\ stopFile' = stopFile \ {r}
    /\ pipe' = [pipe EXCEPT ![r] = <<>>]
    /\ Forget(r)
    /\ UNCHANGED <<owner, results, child, completed, device>>

-----------------------------------------------------------------------------
(* The uploader process.                                                   *)

\* As long as the thread has the pipe open, a report can be written.
Heard(r) == loc[r].pc \notin {"ended", "remove_folder"}
Report(r, d, result) == pipe' = [pipe EXCEPT ![r] = Append(@, [device |-> d, result |-> result])]

ChildEnds(r, how) == child' = [child EXCEPT ![r] = [NoChild EXCEPT !.pc = how]]

\* A report to a closed pipe ends the process.
ChildUnheard(r) ==
    /\ child[r].pc = "check" /\ ~Heard(r)
    /\ ChildEnds(r, "dead")
    /\ UNCHANGED <<owner, results, run, loc, files, pipe, queue, device>>

\* upload_to_device: a dry run fills in the fields; an upload presses Apply, unless
\* the device presents the certificate already, and may fail after that.
Work(r, c, result) ==
    /\ proven' = IF r \notin UploadRuns /\ result = "ok" THEN proven \cup {c} ELSE proven
    /\ \/ r \in UploadRuns /\ delivered' = delivered \cup {c}
       \/ (r \notin UploadRuns \/ result = "failed") /\ UNCHANGED delivered

\* Toolbelt is closed, or its window is lost, or the process is ended; the device
\* in work may have got its certificate.
ChildDies(r) ==
    /\ "child_dies" \in Faults
    /\ \/ child[r].pc \in {"check", "device"} /\ UNCHANGED device
       \/ child[r].pc = "device" /\ Work(r, child[r].pem[child[r].device], "failed")
    /\ ChildEnds(r, "dead")
    /\ UNCHANGED <<owner, results, run, loc, files, pipe, queue>>

BeginDevice(r) ==
    /\ child[r].pc = "check" /\ Heard(r) /\ r \notin stopFile
    /\ \E d \in child[r].todo :
         child' = [child EXCEPT ![r] = [@ EXCEPT !.pc = "device", !.device = d,
                                                  !.todo = child[r].todo \ {d}]]
    /\ UNCHANGED <<owner, results, run, loc, files, pipe, queue, device>>

CancelDevice(r) ==
    /\ child[r].pc = "check" /\ Heard(r) /\ r \in stopFile /\ child[r].todo # {}
    /\ \E d \in child[r].todo : Report(r, d, "cancelled")
    /\ ChildEnds(r, "done")
    /\ UNCHANGED <<owner, results, run, loc, files, queue, device>>

ChildDone(r) ==
    /\ child[r].pc = "check" /\ Heard(r) /\ child[r].todo = {}
    /\ ChildEnds(r, "done")
    /\ UNCHANGED <<owner, results, run, loc, files, pipe, queue, device>>

EndDevice(r) ==
    /\ child[r].pc = "device"
    /\ \E result \in {"ok", "failed"} :
         /\ Work(r, child[r].pem[child[r].device], result)
         /\ IF Heard(r) THEN Report(r, child[r].device, result) ELSE UNCHANGED pipe
    /\ IF Heard(r) THEN child' = [child EXCEPT ![r] = [@ EXCEPT !.pc = "check", !.device = NoDevice]]
       ELSE ChildEnds(r, "dead")
    /\ UNCHANGED <<owner, results, run, loc, files, queue>>

-----------------------------------------------------------------------------
\* The server stops, and starts again with an empty _runs.
Crash ==
    /\ "crash" \in Faults
    /\ run' = [r \in Runs |-> NoRun]
    /\ loc' = [r \in Runs |-> IF loc[r] = Idle THEN Idle ELSE Ended]
    /\ pipe' = [r \in Runs |-> <<>>]
    /\ early' = {} /\ audited' = {}
    /\ folder' = [r \in Runs |-> IF folder[r] = "made" THEN "kept" ELSE folder[r]]
    /\ UNCHANGED <<owner, results, stopFile, child, completed, device>>

Request == \/ \E c \in Certificates, d \in Devices : Issue(c, d)
           \/ \E r \in Runs, rows \in SUBSET Listed : Start(r, rows)
           \/ \E r \in Runs : Stop(r)

RunStep(r) == \/ ReadStatuses(r) \/ ClearStatuses(r) \/ RefuseRun(r) \/ Register(r)
              \/ MakeFolder(r) \/ SpawnUploader(r) \/ Hear(r)
              \/ SaveResult(r, "save", "listen") \/ SaveResult(r, "fail_save", "fail")
              \/ SaveResultFails(r) \/ ChildEnded(r) \/ MarkFailed(r) \/ AllMarked(r)
              \/ ThreadDies(r) \/ AuditResults(r) \/ HideSuccessful(r) \/ RecordRun(r)
              \/ FinishFails(r) \/ Close(r) \/ RemoveFolder(r)

ChildStep(r) == \/ BeginDevice(r) \/ EndDevice(r) \/ CancelDevice(r) \/ ChildDone(r)
                \/ ChildUnheard(r) \/ ChildDies(r)

Next == Request \/ (\E r \in Runs : RunStep(r) \/ ChildStep(r)) \/ Crash

Spec == Init /\ [][Next]_vars

-----------------------------------------------------------------------------
(* Properties.                                                             *)

Results == [Certificates -> [Modes -> {"none", "ok", "failed"}]]
Targets == [Devices -> Certificates \cup {NoCertificate}]
Run == [status : {"absent", "running", "complete", "stopped", "failed"}, stop : BOOLEAN,
        target : Targets, dev : [Devices -> {"none", "pending", "ok", "failed", "cancelled"}]]
Choosing == {"clear", "clear_write", "decide"}
Going == {"prepare", "stage", "listen", "save", "fail", "fail_save", "finish", "hide",
          "record", "close", "remove_folder"}
Local == [pc : {"idle", "ended"} \cup Choosing \cup Going, doc : Results,
          device : Devices \cup {NoDevice}, result : {"none", "ok", "failed"},
          todo : SUBSET Devices, ending : {"none", "complete", "stopped", "failed"}]
Child == [pc : {"none", "check", "device", "done", "dead"}, pem : Targets,
          todo : SUBSET Devices, device : Devices \cup {NoDevice}]
Event == [device : Devices, result : {"ok", "failed", "cancelled"}]

\* Every document, run and process keeps its shape: in particular only results
\* get into the document of results.
TypeOK ==
    /\ owner \in [Certificates -> Devices \cup {NoDevice}]
    /\ results \in Results
    /\ run \in [Runs -> Run] /\ loc \in [Runs -> Local]
    /\ folder \in [Runs -> {"none", "made", "kept"}] /\ stopFile \subseteq Runs /\ early \subseteq Runs
    /\ child \in [Runs -> Child] /\ pipe \in [Runs -> Seq(Event)]
    /\ audited \subseteq Runs \X Certificates \X BOOLEAN /\ completed \subseteq Certificates
    /\ proven \subseteq Certificates /\ delivered \subseteq Certificates

\* "Real upload ... is enabled only for selected devices whose dry-run is OK": no
\* device gets a certificate that was not itself dry-run, although certificates
\* are reissued, results cleared and written back stale, and runs overlap.
AppliedWasProven == delivered \subseteq proven

DocTrue(doc) ==
    \A c \in Certificates : /\ doc[c]["dry-run"] = "ok" => c \in proven
                            /\ doc[c]["upload"] = "ok" => c \in delivered

\* A result on display was that certificate's own: nothing is called dry-run or
\* uploaded that never was.
ResultsTrue == DocTrue(results)

\* Before a row is hidden, its success and every other result of its run are in
\* Audit.
HiddenAfterAudit ==
    [][\A c \in completed' \ completed :
         \E r \in Runs : <<r, c, TRUE>> \in audited /\ Outcomes(r) \subseteq audited]_vars

\* A run reported complete has tried every one of its devices: a child that dies
\* or is stopped does not pass for one that is done.
CompleteMeansTried ==
    \A r \in Runs : run[r].status = "complete" =>
        \A d \in TargetsOf(r) : run[r].dev[d] \in {"ok", "failed"}

\* "A safe stop before the next device starts": once a stop is accepted no device
\* is begun, except when it came before the run had its folder.
StopObeyed ==
    [][\A r \in Runs : child[r].pc = "check" /\ child'[r].pc = "device" =>
         ~run[r].stop \/ r \in early]_vars

\* "Deletes it after the run": whatever fails in a run, its folder with the PEMs is
\* given to rmtree before its thread ends, also when recording a failure fails.  The
\* PEMs outlive a run in two cases: the server has stopped during it, or a file was
\* in use and rmtree passed over it.
PemsRemoved ==
    \A r \in Runs : folder[r] = "made" => loc[r].pc \notin {"idle", "ended"} \cup Choosing

-----------------------------------------------------------------------------
(* Why AppliedWasProven and ResultsTrue hold: what is true of each run       *)
(* (proved in ToolbeltProofs).                                             *)

\* What a success reported by run r says about a certificate.
Attested(r, c) == IF r \in UploadRuns THEN c \in delivered ELSE c \in proven

\* Before the uploader is started there is none, and nothing is reported.
Fresh(r) == loc[r].pc \in {"idle", "prepare", "stage"} \cup Choosing =>
               child[r].pc = "none" /\ pipe[r] = <<>>

\* An upload goes on only with certificates that were dry-run.
Gated(r) == r \in UploadRuns =>
    /\ loc[r].pc \in Choosing => \A d \in loc[r].todo : run[r].target[d] \in proven
    /\ loc[r].pc \in Going => \A d \in TargetsOf(r) : run[r].target[d] \in proven

\* The uploader has the certificates of its run, also when the run is gone.
HasPem(r, d) == /\ d \in Devices /\ child[r].pem[d] \in Certificates
                /\ r \in UploadRuns => child[r].pem[d] \in proven
Supplied(r) == child[r].pc \in {"check", "device"} =>
    /\ \A d \in child[r].todo : HasPem(r, d)
    /\ child[r].pc = "device" => HasPem(r, child[r].device)
    /\ Heard(r) => child[r].pem = run[r].target

\* What is on its way through the pipe or into the document is true, and a run that
\* is being closed knows how it ended.
Truthful(r) ==
    /\ \A i \in 1..Len(pipe[r]) :
         pipe[r][i].result = "ok" => Attested(r, run[r].target[pipe[r][i].device])
    /\ loc[r].result = "ok" => Attested(r, ResultOf(r))
    /\ loc[r].pc \notin {"save", "fail_save"} => loc[r].result = "none"
    /\ DocTrue(loc[r].doc)
    /\ loc[r].pc \in {"finish", "hide", "record", "close"} => loc[r].ending # "none"

Sound(r) == Fresh(r) /\ Gated(r) /\ Supplied(r) /\ Truthful(r)

ToolbeltInvariant == /\ TypeOK
                     /\ AppliedWasProven
                     /\ ResultsTrue
                     /\ \A r \in Runs : Sound(r)

=============================================================================

--------------------------- MODULE ToolbeltProofs ---------------------------
(***************************************************************************)
(* What is proved about Toolbelt for every set of runs, devices and         *)
(* certificates and every choice of faults.                                *)
(***************************************************************************)
EXTENDS Toolbelt, TLAPS

\* Nothing but run r goes on in a step.
OnlyRun(r) == \A q \in Runs \ {r} : /\ run'[q] = run[q] /\ loc'[q] = loc[q]
                                   /\ child'[q] = child[q] /\ pipe'[q] = pipe[q]

\* What was once done to a device remains done.
Grown == proven \subseteq proven' /\ delivered \subseteq delivered'

Early == {"idle", "prepare", "stage"} \cup Choosing
Late == Going \ {"prepare", "stage"}

\* Replacing the record of one run, or of its thread, keeps the types.
LEMMA RunSet ==
  ASSUME TypeOK, NEW r \in Runs, NEW x \in Run, run' = [run EXCEPT ![r] = x]
  PROVE  run' \in [Runs -> Run]
BY DEF TypeOK

LEMMA LocalSet ==
  ASSUME TypeOK, NEW r \in Runs, NEW x \in Local, loc' = [loc EXCEPT ![r] = x]
  PROVE  loc' \in [Runs -> Local]
BY DEF TypeOK

\* The fields of a run that a step sets.
LEMMA RunFields ==
  ASSUME NEW x \in Run
  PROVE  /\ \A t \in Targets : [x EXCEPT !.target = t] \in Run
         /\ \A s \in {"absent", "running", "complete", "stopped", "failed"} :
               [x EXCEPT !.status = s] \in Run
         /\ [x EXCEPT !.stop = TRUE] \in Run
         /\ \A d \in Devices, s \in {"none", "pending", "ok", "failed", "cancelled"} :
               [x EXCEPT !.dev[d] = s] \in Run
         /\ \A devs \in [Devices -> {"none", "pending", "ok", "failed", "cancelled"}] :
               [x EXCEPT !.dev = devs] \in Run
BY DEF Run

\* One result of a document is replaced.
LEMMA ResultSet ==
  ASSUME NEW doc \in Results, NEW c, NEW m, NEW v \in {"none", "ok", "failed"}
  PROVE  /\ [doc EXCEPT ![c][m] = v] \in Results
         /\ \A e \in Certificates, n \in Modes :
               [doc EXCEPT ![c][m] = v][e][n] \in {doc[e][n], v}
         /\ \A e \in Certificates, n \in Modes :
               e # c \/ n # m => [doc EXCEPT ![c][m] = v][e][n] = doc[e][n]
BY DEF Results

\* A report is taken from the pipe.
LEMMA FirstReport ==
  ASSUME NEW s \in Seq(Event), s # <<>>
  PROVE  /\ Head(s) \in Event /\ Tail(s) \in Seq(Event)
         /\ 1 \in 1..Len(s) /\ s[1] = Head(s)
         /\ \A i \in 1..Len(Tail(s)) : i + 1 \in 1..Len(s) /\ Tail(s)[i] = s[i + 1]
OBVIOUS

\* What a thread is set to when it goes on without its locals.
LEMMA IdleTyped ==
  ASSUME TypeOK
  PROVE  /\ NoResults \in Results
         /\ \A pc \in {"idle", "ended"} \cup Choosing \cup Going : [Idle EXCEPT !.pc = pc] \in Local
         /\ \A r \in Runs : Failing(r) \in Local
         /\ \A r \in Runs : \A s \in {"complete", "stopped", "failed"} : Finishing(r, s) \in Local
<1>1. NoResults \in Results
  BY DEF NoResults, Results, Modes
<1> QED
  BY <1>1 DEF Idle, Local, Failing, Finishing, TargetsOf, Going, Choosing

\* The fields of a thread that a step sets.
LEMMA LocalFields ==
  ASSUME NEW x \in Local
  PROVE  /\ \A pc \in {"idle", "ended"} \cup Choosing \cup Going : [x EXCEPT !.pc = pc] \in Local
         /\ \A pc \in Going : \A doc \in Results, d \in Devices \cup {NoDevice},
              result \in {"none", "ok", "failed"} :
              [x EXCEPT !.pc = pc, !.doc = doc, !.device = d, !.result = result] \in Local
         /\ \A pc \in Choosing : \A doc \in Results : [x EXCEPT !.pc = pc, !.doc = doc] \in Local
         /\ \A pc \in Choosing : \A todo \in SUBSET Devices : [x EXCEPT !.pc = pc, !.todo = todo] \in Local
         /\ [x EXCEPT !.pc = "close", !.ending = "failed"] \in Local
<1>1. /\ \A pc \in {"idle", "ended"} \cup Choosing \cup Going : [x EXCEPT !.pc = pc] \in Local
      /\ \A pc \in Going : \A doc \in Results, d \in Devices \cup {NoDevice},
           result \in {"none", "ok", "failed"} :
           [x EXCEPT !.pc = pc, !.doc = doc, !.device = d, !.result = result] \in Local
  BY DEF Local
<1>2. /\ \A pc \in Choosing : \A doc \in Results : [x EXCEPT !.pc = pc, !.doc = doc] \in Local
      /\ \A pc \in Choosing : \A todo \in SUBSET Devices : [x EXCEPT !.pc = pc, !.todo = todo] \in Local
  BY DEF Local
<1>3. [x EXCEPT !.pc = "close", !.ending = "failed"] \in Local
  BY DEF Local, Going
<1> QED
  BY <1>1, <1>2, <1>3

\* A device is marked, or passed over.
LEMMA MarkFields ==
  ASSUME NEW x \in Local, NEW d \in Devices, NEW doc \in Results
  PROVE  /\ [x EXCEPT !.todo = x.todo \ {d}] \in Local
         /\ [x EXCEPT !.pc = "fail_save", !.doc = doc, !.device = d, !.result = "failed",
                      !.todo = x.todo \ {d}] \in Local
<1>1. x.todo \ {d} \in SUBSET Devices
  BY DEF Local
<1>2. \A todo \in SUBSET Devices : [x EXCEPT !.todo = todo] \in Local
  BY DEF Local
<1>3. \A todo \in SUBSET Devices :
        [x EXCEPT !.pc = "fail_save", !.doc = doc, !.device = d, !.result = "failed", !.todo = todo] \in Local
  BY DEF Local, Going
<1> QED
  BY <1>1, <1>2, <1>3

\* A document that was true stays true.
LEMMA DocStaysTrue ==
  ASSUME Grown, NEW doc, DocTrue(doc) PROVE DocTrue(doc)'
BY DEF Grown, DocTrue

\* A run that takes no part in a step stays sound.
LEMMA OtherRun ==
  ASSUME TypeOK, Grown, NEW q \in Runs, Sound(q),
         run'[q] = run[q], loc'[q] = loc[q], child'[q] = child[q], pipe'[q] = pipe[q]
  PROVE  Sound(q)'
<1>1. Fresh(q)'
  BY DEF Sound, Fresh
<1>2. Gated(q)'
  BY DEF Sound, Gated, Grown, TargetsOf
<1>3. Supplied(q)'
  BY DEF Sound, Supplied, HasPem, Heard, Grown
<1>4. Truthful(q)'
  <2>1. \A i \in 1..Len(pipe'[q]) :
           (pipe[q][i].result = "ok" => Attested(q, run[q].target[pipe[q][i].device]))'
    BY DEF Sound, Truthful, Attested, Grown
  <2>2. (loc[q].result = "ok" => Attested(q, ResultOf(q)))'
    BY DEF Sound, Truthful, ResultOf, Attested, Grown
  <2>3. DocTrue(loc[q].doc)'
    BY DEF Sound, Truthful, Grown, DocTrue
  <2> QED
    BY <2>1, <2>2, <2>3 DEF Sound, Truthful, Attested, ResultOf, DocTrue
<1> QED
  BY <1>1, <1>2, <1>3, <1>4 DEF Sound

\* A step of one run that keeps the types, the documents and its own part of the
\* invariant keeps all of it.
LEMMA OneRunActs ==
  ASSUME ToolbeltInvariant, NEW r \in Runs, OnlyRun(r), Grown,
         TypeOK', AppliedWasProven', ResultsTrue', Sound(r)'
  PROVE  ToolbeltInvariant'
<1>1. ASSUME NEW q \in Runs PROVE Sound(q)'
  <2>1. CASE q = r
    BY <2>1
  <2>2. CASE q # r
    BY <2>2, OtherRun DEF ToolbeltInvariant, OnlyRun
  <2> QED
    BY <2>1, <2>2
<1> QED
  BY <1>1 DEF ToolbeltInvariant

\* The thread of a run that has started its uploader moves on, and takes nothing
\* untrue with it.
LEMMA ThreadMoves ==
  ASSUME ToolbeltInvariant, NEW r \in Runs, UNCHANGED <<child, pipe, device>>,
         run'[r].target = run[r].target,
         loc[r].pc \in Late, loc'[r].pc \in Late, Heard(r)' => Heard(r),
         loc'[r].result = "none" \/ (loc'[r].pc = "fail_save" /\ loc'[r].result = "failed"),
         DocTrue(loc'[r].doc),
         loc'[r].pc \in {"finish", "hide", "record", "close"} => loc'[r].ending # "none"
  PROVE  Sound(r)'
<1> USE DEF ToolbeltInvariant, Sound, device
<1>1. Fresh(r)'
  BY DEF Fresh, Late, Going, Choosing
<1>2. Gated(r)'
  BY DEF Gated, Late, Going, Choosing, TargetsOf
<1>3. Supplied(r)'
  BY DEF Supplied, HasPem
<1>4. Truthful(r)'
  BY DEF Truthful, Attested, DocTrue, Late, Going, Choosing
<1> QED
  BY <1>1, <1>2, <1>3, <1>4

-----------------------------------------------------------------------------
(* The steps that begin a run.                                             *)

\* A step that writes neither the document nor a device keeps what they say.
LEMMA QuietStep ==
  ASSUME ToolbeltInvariant, UNCHANGED <<results, device>>
  PROVE  Grown /\ AppliedWasProven' /\ ResultsTrue'
BY DEF ToolbeltInvariant, Grown, AppliedWasProven, ResultsTrue, DocTrue, device

\* A certificate is issued.
LEMMA IssueStep ==
  ASSUME ToolbeltInvariant, NEW c \in Certificates, NEW d \in Devices, Issue(c, d)
  PROVE  ToolbeltInvariant'
<1>1. TypeOK'
  BY DEF ToolbeltInvariant, TypeOK, Issue, files, process, queue, device
<1>2. \A q \in Runs : Sound(q)'
  <2>1. Grown
    BY DEF Issue, Grown, device
  <2> QED
    BY <2>1, OtherRun DEF Issue, process, ToolbeltInvariant
<1> QED
  BY <1>1, <1>2, QuietStep DEF Issue, ToolbeltInvariant

\* An upload is to go on with all of its devices only if each of their
\* certificates was dry-run: the rows hold one certificate of a device.
LEMMA StartStep ==
  ASSUME ToolbeltInvariant, NEW r \in Runs, NEW rows \in SUBSET Listed, Start(r, rows)
  PROVE  ToolbeltInvariant'
<1> DEFINE t == [d \in Devices |-> IF \E c \in Certificates : <<d, c>> \in rows
                                  THEN CHOOSE c \in Certificates : <<d, c>> \in rows
                                  ELSE NoCertificate]
           ready == {d \in Devices : \E c \in Certificates :
                                      <<d, c>> \in rows /\ DryRunOk(results, c)}
<1>1. /\ run' = [run EXCEPT ![r].target = t]
      /\ loc' = [loc EXCEPT ![r] = [loc[r] EXCEPT !.pc = "clear", !.todo = ready]]
  BY DEF Start, ToolbeltInvariant, TypeOK
<1>2. t \in Targets /\ ready \in SUBSET Devices
  BY DEF Targets
<1>3. TypeOK'
  <2> HIDE DEF t, ready
  <2>1. run' \in [Runs -> Run]
    BY <1>1, <1>2, RunSet, RunFields DEF ToolbeltInvariant, TypeOK
  <2>2. [loc[r] EXCEPT !.pc = "clear", !.todo = ready] \in Local
    BY <1>2, LocalFields DEF ToolbeltInvariant, TypeOK, Choosing
  <2>3. loc' \in [Runs -> Local]
    BY <1>1, <2>2, LocalSet DEF ToolbeltInvariant
  <2> QED
    BY <2>1, <2>3 DEF Start, ToolbeltInvariant, TypeOK, files, process, queue, device
<1>4. ASSUME NEW d \in ready PROVE t[d] \in proven
  <2>1. PICK c \in Certificates : <<d, c>> \in rows /\ DryRunOk(results, c)
    OBVIOUS
  <2>2. ASSUME NEW e \in Certificates, <<d, e>> \in rows PROVE e = c
    <3>1. Newest(d, c) /\ Newest(d, e)
      BY <2>1, <2>2 DEF Listed
    <3> QED
      BY <3>1, CertificateAssumption DEF Newest
  <2>3. t[d] = c
    BY <2>1, <2>2
  <2> QED
    BY <2>1, <2>3 DEF ToolbeltInvariant, ResultsTrue, DocTrue, DryRunOk
<1>5. Sound(r)'
  <2> USE <1>1 DEF ToolbeltInvariant, TypeOK, Sound, Start, At, process, device
  <2>1. run'[r].target = t /\ loc'[r].pc = "clear" /\ loc'[r].todo = ready
        /\ loc'[r].doc = loc[r].doc /\ loc'[r].result = loc[r].result /\ loc[r].pc = "idle"
    BY DEF Run, Local
  <2>2. child' = child /\ pipe' = pipe /\ child[r].pc = "none" /\ pipe[r] = <<>> /\ loc[r].result = "none"
    BY <2>1 DEF Fresh, Truthful
  <2>3. Fresh(r)' /\ Supplied(r)'
    BY <2>2 DEF Fresh, Supplied
  <2>4. Gated(r)'
    BY <2>1, <1>4 DEF Gated, Going
  <2>5. Truthful(r)'
    BY <2>1, <2>2 DEF Truthful, DocTrue
  <2> QED
    BY <2>3, <2>4, <2>5
<1> QED
  BY <1>1, <1>3, <1>5, QuietStep, OneRunActs DEF Start, OnlyRun, process, ToolbeltInvariant, TypeOK

\* A stop changes nothing that is asserted.
LEMMA StopStep ==
  ASSUME ToolbeltInvariant, NEW r \in Runs, Stop(r) PROVE ToolbeltInvariant'
<1>1. TypeOK'
  <2>1. [run[r] EXCEPT !.stop = TRUE] \in Run
    BY RunFields DEF ToolbeltInvariant, TypeOK
  <2>2. run' \in [Runs -> Run]
    BY <2>1, RunSet DEF ToolbeltInvariant, Stop
  <2> QED
    BY <2>2 DEF ToolbeltInvariant, TypeOK, Stop, process, queue, device
<1>2. Sound(r)'
  <2> USE DEF ToolbeltInvariant, TypeOK, Sound, Stop, process, device
  <2>1. run'[r].target = run[r].target
    BY DEF Run
  <2>2. Fresh(r)' /\ Gated(r)' /\ Supplied(r)'
    BY <2>1 DEF Fresh, Gated, Supplied, HasPem, Heard, TargetsOf
  <2>3. Truthful(r)'
    BY <2>1 DEF Truthful, Attested, ResultOf, DocTrue
  <2> QED
    BY <2>2, <2>3
<1> QED
  BY <1>1, <1>2, QuietStep, OneRunActs DEF Stop, OnlyRun, process, ToolbeltInvariant, TypeOK

-----------------------------------------------------------------------------
(* The steps of start.                                                     *)

\* A step of a run whose uploader is not yet started, or is no longer heard.
LEMMA EarlyMoves ==
  ASSUME ToolbeltInvariant, NEW r \in Runs, UNCHANGED <<child, pipe, device>>,
         loc[r].pc \in Early, loc'[r].pc \in Early,
         loc'[r].result = "none", DocTrue(loc'[r].doc), Gated(r)'
  PROVE  Sound(r)'
<1>1. Fresh(r)' /\ Supplied(r)'
  BY DEF ToolbeltInvariant, Sound, Fresh, Supplied, Early
<1>2. Truthful(r)'
  BY DEF ToolbeltInvariant, Sound, Fresh, Truthful, DocTrue, Early, Choosing, device
<1> QED
  BY <1>1, <1>2 DEF Sound

\* An empty document says nothing.
LEMMA NothingTrue == DocTrue(NoResults)
BY DEF DocTrue, NoResults, Modes

\* The old results of the run are cleared.
LEMMA ReadStatusesStep ==
  ASSUME ToolbeltInvariant, NEW r \in Runs, ReadStatuses(r) PROVE ToolbeltInvariant'
<1> USE DEF ToolbeltInvariant, TypeOK, ReadStatuses, At, files, process, queue, device
<1>1. Cleared(r) \in Results /\ DocTrue(Cleared(r)) /\ NoResults \in Results
  BY DEF Cleared, Results, Modes, ResultsTrue, DocTrue, NoResults
<1>2. loc'[r].pc \in {"clear_write", "decide"} /\ loc'[r].doc \in {Cleared(r), NoResults}
      /\ loc'[r].todo = loc[r].todo /\ loc'[r].result = loc[r].result
  BY DEF Local
<1>3. TypeOK'
  <2>1. [loc[r] EXCEPT !.pc = "decide", !.doc = NoResults] \in Local
    BY <1>1, LocalFields DEF Choosing
  <2>2. [loc[r] EXCEPT !.pc = "clear_write", !.doc = Cleared(r)] \in Local
    BY <1>1, LocalFields DEF Choosing
  <2>3. loc' \in [Runs -> Local]
    BY <2>1, <2>2, LocalSet
  <2> QED
    BY <2>3
<1>4. Sound(r)'
  <2>1. loc[r].result = "none" /\ Gated(r)'
    BY <1>2 DEF Sound, Truthful, Choosing, Gated, Going
  <2> QED
    BY <1>1, <1>2, <2>1, NothingTrue, EarlyMoves DEF Early, Choosing
<1> QED
  BY <1>3, <1>4, QuietStep, OneRunActs DEF OnlyRun

\* The document is written back as it was read, less what the run clears.
LEMMA ClearStatusesStep ==
  ASSUME ToolbeltInvariant, NEW r \in Runs, ClearStatuses(r) PROVE ToolbeltInvariant'
<1> USE DEF ToolbeltInvariant, TypeOK, ClearStatuses, At, files, process, queue, device
<1>1. loc'[r].pc = "decide" /\ loc'[r].doc = NoResults
      /\ loc'[r].todo = loc[r].todo /\ loc'[r].result = loc[r].result
  BY DEF Local
<1>2. TypeOK'
  <2>1. NoResults \in Results
    BY DEF Results, NoResults, Modes
  <2>2. [loc[r] EXCEPT !.pc = "decide", !.doc = NoResults] \in Local
    BY <2>1, LocalFields DEF Choosing
  <2>3. loc' \in [Runs -> Local]
    BY <2>2, LocalSet
  <2>4. results' \in Results
    BY DEF Local
  <2> QED
    BY <2>3, <2>4
<1>3. Sound(r)'
  <2>1. loc[r].result = "none" /\ Gated(r)'
    BY <1>1 DEF Sound, Truthful, Choosing, Gated, Going
  <2> QED
    BY <1>1, <2>1, NothingTrue, EarlyMoves DEF Early, Choosing
<1>4. Grown /\ AppliedWasProven' /\ ResultsTrue'
  BY DEF Grown, AppliedWasProven, ResultsTrue, Sound, Truthful, DocTrue
<1> QED
  BY <1>2, <1>3, <1>4, OneRunActs DEF OnlyRun

\* A run that is refused is over.
LEMMA RefuseRunStep ==
  ASSUME ToolbeltInvariant, NEW r \in Runs, RefuseRun(r) PROVE ToolbeltInvariant'
<1> USE DEF ToolbeltInvariant, TypeOK, RefuseRun, At, files, process, queue, device
<1>1. loc'[r] = Ended /\ run'[r] = NoRun
  OBVIOUS
<1>2. Ended \in Local /\ NoRun \in Run /\ Ended.pc = "ended" /\ Ended.result = "none"
      /\ Ended.doc = NoResults
  BY DEF Ended, Idle, Local, NoRun, Run, NoTargets, Targets, NoResults, Results, Modes
<1>3. TypeOK'
  BY <1>2
<1>4. Sound(r)'
  <2>1. child[r].pc = "none" /\ pipe[r] = <<>>
    BY DEF Sound, Fresh, Choosing
  <2>2. Fresh(r)' /\ Gated(r)' /\ Supplied(r)'
    BY <1>1, <1>2, <2>1 DEF Fresh, Gated, Supplied, Going, Choosing
  <2>3. Truthful(r)'
    BY <1>1, <1>2, <2>1, NothingTrue DEF Truthful, DocTrue
  <2> QED
    BY <2>2, <2>3 DEF Sound
<1> QED
  BY <1>3, <1>4, QuietStep, OneRunActs DEF OnlyRun

\* The run is registered: an upload only when every certificate was dry-run.
LEMMA RegisterStep ==
  ASSUME ToolbeltInvariant, NEW r \in Runs, Register(r) PROVE ToolbeltInvariant'
<1> USE DEF ToolbeltInvariant, TypeOK, Register, At, files, process, queue, device
<1> DEFINE begun == [Idle EXCEPT !.pc = "prepare"]
<1>1. begun \in Local /\ begun.pc = "prepare" /\ begun.result = "none" /\ begun.doc = NoResults
  BY DEF Idle, Local, NoResults, Results, Modes, Going
<1>2. loc'[r] = begun /\ run'[r].target = run[r].target
  BY DEF Run
<1>3. TypeOK'
  <2> HIDE DEF begun
  <2>1. loc' = [loc EXCEPT ![r] = begun]
    BY DEF begun
  <2>2. loc' \in [Runs -> Local]
    BY <1>1, <2>1
  <2>3. run' \in [Runs -> Run]
    BY RunSet, RunFields
  <2> QED
    BY <2>2, <2>3
<1>4. Sound(r)'
  <2>1. r \in UploadRuns => \A d \in TargetsOf(r) : run[r].target[d] \in proven
    BY DEF Blocked, Mode, Sound, Gated, Choosing
  <2>2. Gated(r)'
    BY <1>1, <1>2, <2>1 DEF Gated, Choosing, TargetsOf
  <2> QED
    BY <1>1, <1>2, <2>2, NothingTrue, EarlyMoves DEF Early, Choosing
<1> QED
  BY <1>3, <1>4, QuietStep, OneRunActs DEF OnlyRun

-----------------------------------------------------------------------------
(* The steps of the thread of a run.                                       *)

\* The folder is made.
LEMMA MakeFolderStep ==
  ASSUME ToolbeltInvariant, NEW r \in Runs, MakeFolder(r) PROVE ToolbeltInvariant'
<1> USE DEF ToolbeltInvariant, TypeOK, MakeFolder, At, Goto, process, queue, device
<1>1. TypeOK'
  <2>1. [loc[r] EXCEPT !.pc = "stage"] \in Local
    BY LocalFields DEF Going
  <2>2. loc' \in [Runs -> Local]
    BY <2>1, LocalSet
  <2> QED
    BY <2>2
<1>2. Sound(r)'
  <2>1. loc'[r].pc = "stage" /\ loc'[r].doc = loc[r].doc /\ loc'[r].result = loc[r].result
    BY DEF Local
  <2>2. loc[r].result = "none" /\ DocTrue(loc[r].doc)
    BY DEF Sound, Truthful
  <2>3. Gated(r)'
    BY <2>1 DEF Sound, Gated, Choosing, Going, TargetsOf
  <2> QED
    BY <2>1, <2>2, <2>3, EarlyMoves DEF Early
<1> QED
  BY <1>1, <1>2, QuietStep, OneRunActs DEF OnlyRun

\* The uploader is started with the certificates of the run, which an upload may
\* deliver; or it is not, and the run fails.
LEMMA SpawnUploaderStep ==
  ASSUME ToolbeltInvariant, NEW r \in Runs, SpawnUploader(r) PROVE ToolbeltInvariant'
<1> USE DEF ToolbeltInvariant, TypeOK, At, files, queue, device
<1> DEFINE started == [NoChild EXCEPT !.pc = "check", !.pem = run[r].target, !.todo = TargetsOf(r)]
           devs == [d \in Devices |-> IF d \in TargetsOf(r) THEN "pending" ELSE "none"]
<1>1. /\ run' = [run EXCEPT ![r].dev = devs]
      /\ \/ child' = [child EXCEPT ![r] = started] /\ loc' = [loc EXCEPT ![r].pc = "listen"]
         \/ UNCHANGED child /\ loc' = [loc EXCEPT ![r] = Failing(r)]
      /\ loc[r].pc = "stage"
      /\ UNCHANGED <<owner, results, folder, stopFile, early, pipe, audited, completed, proven, delivered>>
  BY DEF SpawnUploader, Goto
<1>2. run'[r].target = run[r].target
  BY <1>1 DEF Run
<1>3. TypeOK'
  <2>1. started \in Child
    BY DEF NoChild, Child, Run, TargetsOf
  <2>2. [run[r] EXCEPT !.dev = devs] \in Run
    BY RunFields
  <2> HIDE DEF started, devs
  <2>3. run' \in [Runs -> Run]
    BY <1>1, <2>2, RunSet
  <2>4. child' \in [Runs -> Child]
    BY <1>1, <2>1
  <2>5. Failing(r) \in Local /\ [loc[r] EXCEPT !.pc = "listen"] \in Local
    BY IdleTyped, LocalFields DEF Going
  <2>6. loc' \in [Runs -> Local]
    BY <1>1, <2>5, LocalSet
  <2> QED
    BY <1>1, <2>3, <2>4, <2>6
<1>4. Sound(r)'
  <2>1. child[r].pc = "none" /\ pipe[r] = <<>> /\ loc[r].result = "none" /\ DocTrue(loc[r].doc)
    BY <1>1 DEF Sound, Fresh, Truthful
  <2>2. /\ loc'[r].pc \in {"listen", "fail"}
        /\ loc'[r].result = "none"
        /\ loc'[r].doc \in {loc[r].doc, NoResults}
    <3>1. CASE loc' = [loc EXCEPT ![r] = Failing(r)]
      BY <3>1 DEF Failing, Idle
    <3>2. CASE loc' = [loc EXCEPT ![r].pc = "listen"]
      BY <3>2, <2>1 DEF Local
    <3> QED
      BY <1>1, <3>1, <3>2
  <2>3. Fresh(r)'
    BY <2>2 DEF Fresh, Choosing
  <2>4. \A d \in TargetsOf(r) : /\ d \in Devices /\ run[r].target[d] \in Certificates
                                /\ r \in UploadRuns => run[r].target[d] \in proven
    BY <1>1 DEF Sound, Gated, Going, TargetsOf, Run, Targets
  <2>5. Gated(r)'
    BY <1>1, <1>2, <2>2, <2>4 DEF Gated, Choosing, TargetsOf
  <2>6. Supplied(r)'
    <3>1. CASE child' = child
      BY <2>1, <3>1 DEF Supplied
    <3>2. CASE child' = [child EXCEPT ![r] = started]
      <4>1. child'[r].pc = "check" /\ child'[r].pem = run[r].target /\ child'[r].todo = TargetsOf(r)
        BY <3>2 DEF NoChild
      <4> QED
        BY <4>1, <1>1, <1>2, <2>4 DEF Supplied, HasPem
    <3> QED
      BY <1>1, <3>1, <3>2
  <2>7. Truthful(r)'
    BY <1>1, <2>1, <2>2, NothingTrue DEF Truthful, DocTrue, Choosing
  <2> QED
    BY <2>3, <2>5, <2>6, <2>7 DEF Sound
<1> QED
  <2>1. OnlyRun(r)
    BY <1>1 DEF OnlyRun
  <2> QED
    BY <1>1, <1>3, <1>4, <2>1, QuietStep, OneRunActs

\* A report is read: it becomes the result of its device.
LEMMA HearStep ==
  ASSUME ToolbeltInvariant, NEW r \in Runs, Hear(r) PROVE ToolbeltInvariant'
<1> USE DEF ToolbeltInvariant, TypeOK, files, queue, device
<1> DEFINE e == Head(pipe[r])
<1> DEFINE heard == [loc[r] EXCEPT !.pc = "save", !.doc = results,
                                   !.device = e.device, !.result = e.result]
<1>1. /\ loc[r].pc = "listen" /\ pipe[r] # <<>>
      /\ pipe' = [pipe EXCEPT ![r] = Tail(pipe[r])]
      /\ run' = [run EXCEPT ![r].dev[e.device] = e.result]
      /\ \/ e.result \in {"ok", "failed"} /\ loc' = [loc EXCEPT ![r] = heard]
         \/ UNCHANGED loc
      /\ UNCHANGED <<owner, results, folder, stopFile, early, child, audited, completed, proven, delivered>>
  BY DEF Hear, At
<1>2. /\ e \in Event /\ 1 \in 1..Len(pipe[r]) /\ pipe[r][1] = e
      /\ Tail(pipe[r]) \in Seq(Event)
      /\ \A i \in 1..Len(Tail(pipe[r])) : /\ i + 1 \in 1..Len(pipe[r])
                                           /\ Tail(pipe[r])[i] = pipe[r][i + 1]
  <2>1. pipe[r] \in Seq(Event) /\ pipe[r] # <<>>
    BY <1>1
  <2> QED
    BY ONLY <2>1, FirstReport
<1>3. run'[r].target = run[r].target
  BY <1>1 DEF Run
<1>4. TypeOK'
  <2>1. [run[r] EXCEPT !.dev[e.device] = e.result] \in Run
    BY <1>2, RunFields DEF Event
  <2>2. run' \in [Runs -> Run]
    BY <1>1, <2>1, RunSet
  <2>3. e.result \in {"ok", "failed"} => heard \in Local
    BY <1>2, LocalFields DEF Event, Going
  <2>4. loc' \in [Runs -> Local]
    BY <1>1, <2>3, LocalSet
  <2>5. pipe' \in [Runs -> Seq(Event)]
    BY <1>1
  <2> QED
    BY <1>1, <2>2, <2>4, <2>5
<1>5. Sound(r)'
  <2>1. \/ /\ loc'[r].pc = "save" /\ loc'[r].doc = results
           /\ loc'[r].device = e.device /\ loc'[r].result = e.result
        \/ loc'[r] = loc[r]
    <3>1. CASE loc' = [loc EXCEPT ![r] = heard]
      BY <3>1 DEF Local
    <3> QED
      BY <1>1, <3>1
  <2>2. Fresh(r)' /\ Gated(r)'
    BY <1>1, <1>3, <2>1 DEF Fresh, Gated, Choosing, Going, Sound, TargetsOf
  <2>3. Supplied(r)'
    BY <1>1, <1>3, <2>1 DEF Sound, Supplied, HasPem, Heard
  <2>4. \A i \in 1..Len(pipe'[r]) :
           (pipe[r][i].result = "ok" => Attested(r, run[r].target[pipe[r][i].device]))'
    <3>1. pipe'[r] = Tail(pipe[r]) /\ UNCHANGED device
      BY <1>1
    <3>2. \A i \in 1..Len(pipe[r]) :
             pipe[r][i].result = "ok" => Attested(r, run[r].target[pipe[r][i].device])
      BY DEF Sound, Truthful
    <3> QED
      BY <1>2, <1>3, <3>1, <3>2 DEF Attested
  <2>5. (loc[r].result = "ok" => Attested(r, ResultOf(r)))'
    <3>1. e.result = "ok" => Attested(r, run[r].target[e.device])
      BY <1>2 DEF Sound, Truthful
    <3>2. loc[r].result = "ok" => Attested(r, run[r].target[loc[r].device])
      BY DEF Sound, Truthful, ResultOf
    <3> HIDE DEF e
    <3> QED
      BY <1>1, <1>3, <2>1, <3>1, <3>2 DEF Attested, ResultOf
  <2>6. DocTrue(loc[r].doc)'
    BY <1>1, <2>1 DEF Sound, Truthful, ResultsTrue, DocTrue
  <2>7. Truthful(r)'
    BY <2>1, <2>4, <2>5, <2>6 DEF Sound, Truthful
  <2> QED
    BY <2>2, <2>3, <2>7 DEF Sound
<1> QED
  <2>1. OnlyRun(r)
    BY <1>1 DEF OnlyRun
  <2> QED
    BY <1>1, <1>4, <1>5, <2>1, QuietStep, OneRunActs

\* A result is written back with the document as it was read: it goes to the
\* certificate the run was started with, and the others keep what was true of them.
LEMMA SaveResultStep ==
  ASSUME ToolbeltInvariant, NEW r \in Runs, NEW pc \in {"save", "fail_save"},
         NEW next \in {"listen", "fail"}, SaveResult(r, pc, next)
  PROVE  ToolbeltInvariant'
<1> USE DEF ToolbeltInvariant, TypeOK, SaveResult, At, files, process, queue, device
<1> DEFINE saved == [loc[r] EXCEPT !.pc = next, !.doc = NoResults, !.device = NoDevice,
                                   !.result = "none"]
<1>1. /\ loc' = [loc EXCEPT ![r] = saved]
      /\ results' = [loc[r].doc EXCEPT ![ResultOf(r)][Mode(r)] = loc[r].result]
      /\ loc[r].pc = pc /\ loc[r].doc \in Results /\ loc[r].result \in {"none", "ok", "failed"}
  BY DEF Local
<1>2. loc'[r].pc = next /\ loc'[r].doc = NoResults /\ loc'[r].result = "none"
  BY <1>1 DEF Local
<1>3. TypeOK'
  <2>1. saved \in Local
    BY IdleTyped, LocalFields DEF Going
  <2>2. loc' \in [Runs -> Local]
    BY <1>1, <2>1, LocalSet
  <2>3. results' \in Results
    BY ONLY <1>1 DEF Results
  <2> QED
    BY <2>2, <2>3
<1>4. ResultsTrue'
  <2>1. DocTrue(loc[r].doc) /\ (loc[r].result = "ok" => Attested(r, ResultOf(r)))
    BY DEF Sound, Truthful
  <2>2. ASSUME NEW c \in Certificates, NEW m \in Modes, results'[c][m] = "ok"
        PROVE  \/ loc[r].doc[c][m] = "ok"
               \/ c = ResultOf(r) /\ m = Mode(r) /\ loc[r].result = "ok"
    BY <1>1, <2>2, ResultSet
  <2>3. \A c \in Certificates : /\ results'[c]["dry-run"] = "ok" => c \in proven
                                /\ results'[c]["upload"] = "ok" => c \in delivered
    BY <2>1, <2>2 DEF DocTrue, Attested, Mode, Modes
  <2> QED
    BY <2>3 DEF ResultsTrue, DocTrue
<1>5. Sound(r)'
  BY <1>1, <1>2, NothingTrue, ThreadMoves DEF Late, Going, Heard
<1> QED
  BY <1>3, <1>4, <1>5, OneRunActs DEF OnlyRun, Grown, AppliedWasProven

\* A write fails, the uploader has ended, or every device is marked.
LEMMA ThreadTurns ==
  ASSUME ToolbeltInvariant, NEW r \in Runs,
         SaveResultFails(r) \/ ChildEnded(r) \/ AllMarked(r)
  PROVE  ToolbeltInvariant'
<1> USE DEF ToolbeltInvariant, TypeOK, At, files, process, queue, device
<1>1. PICK x \in {Failing(r)} \cup {Finishing(r, s) : s \in {"complete", "stopped", "failed"}} :
        loc' = [loc EXCEPT ![r] = x]
  BY DEF SaveResultFails, ChildEnded, AllMarked
<1>2. /\ loc[r].pc \in {"listen", "save", "fail"}
      /\ UNCHANGED <<owner, results, run, folder, stopFile, early, child, pipe, audited, completed,
                     proven, delivered>>
  BY DEF SaveResultFails, ChildEnded, AllMarked
<1>3. /\ x \in Local /\ x.pc \in {"fail", "finish"} /\ x.doc = NoResults /\ x.result = "none"
      /\ x.pc = "finish" => x.ending # "none"
  <2>1. x \in Local
    BY IdleTyped
  <2> QED
    BY <2>1 DEF Failing, Finishing, Idle
<1>4. TypeOK'
  BY <1>1, <1>2, <1>3, LocalSet
<1>5. Sound(r)'
  <2>1. loc'[r] = x
    BY <1>1
  <2> QED
    BY <1>2, <1>3, <2>1, NothingTrue, ThreadMoves DEF Late, Going, Heard
<1> QED
  <2>1. OnlyRun(r)
    BY <1>1, <1>2 DEF OnlyRun
  <2> QED
    BY <1>2, <1>4, <1>5, <2>1, QuietStep, OneRunActs

\* A device of a run that failed is marked.
LEMMA MarkFailedStep ==
  ASSUME ToolbeltInvariant, NEW r \in Runs, MarkFailed(r) PROVE ToolbeltInvariant'
<1> USE DEF ToolbeltInvariant, TypeOK, At, files, process, queue, device
<1>1. PICK d \in Devices :
        \/ loc' = [loc EXCEPT ![r].todo = loc[r].todo \ {d}] /\ UNCHANGED run
        \/ /\ run' = [run EXCEPT ![r].dev[d] = "failed"]
           /\ loc' = [loc EXCEPT ![r] = [@ EXCEPT !.pc = "fail_save", !.doc = results,
                               !.device = d, !.result = "failed", !.todo = loc[r].todo \ {d}]]
  <2>1. loc[r].todo \subseteq Devices
    BY DEF Local
  <2>2. PICK d \in loc[r].todo :
          IF run[r].dev[d] = "ok"
          THEN loc' = [loc EXCEPT ![r].todo = loc[r].todo \ {d}] /\ UNCHANGED run
          ELSE /\ run' = [run EXCEPT ![r].dev[d] = "failed"]
               /\ loc' = [loc EXCEPT ![r] = [@ EXCEPT !.pc = "fail_save", !.doc = results,
                               !.device = d, !.result = "failed", !.todo = loc[r].todo \ {d}]]
    BY ONLY MarkFailed(r) DEF MarkFailed
  <2> QED
    BY ONLY <2>1, <2>2
<1>2. /\ loc[r].pc = "fail"
      /\ UNCHANGED <<owner, results, folder, stopFile, early, child, pipe, audited, completed,
                     proven, delivered>>
  BY DEF MarkFailed
<1>3. TypeOK'
  <2>1. [run[r] EXCEPT !.dev[d] = "failed"] \in Run
    BY RunFields
  <2>2. run' \in [Runs -> Run]
    BY <1>1, <2>1, RunSet
  <2>3. /\ [loc[r] EXCEPT !.todo = loc[r].todo \ {d}] \in Local
        /\ [loc[r] EXCEPT !.pc = "fail_save", !.doc = results,
                          !.device = d, !.result = "failed", !.todo = loc[r].todo \ {d}] \in Local
    BY MarkFields
  <2>4. loc' \in [Runs -> Local]
    <3>1. CASE loc' = [loc EXCEPT ![r].todo = loc[r].todo \ {d}]
      BY <2>3, <3>1, LocalSet
    <3>2. CASE loc' = [loc EXCEPT ![r] = [@ EXCEPT !.pc = "fail_save", !.doc = results,
                          !.device = d, !.result = "failed", !.todo = loc[r].todo \ {d}]]
      BY <2>3, <3>2, LocalSet
    <3> QED
      BY <1>1, <3>1, <3>2
  <2> QED
    BY <1>2, <2>2, <2>4
<1>4. Sound(r)'
  <2>1. run'[r].target = run[r].target
    BY <1>1 DEF Run
  <2>2. loc[r].result = "none"
    BY <1>2 DEF Sound, Truthful
  <2>3. /\ \/ loc'[r].pc = "fail" /\ loc'[r].result = "none"
           \/ loc'[r].pc = "fail_save" /\ loc'[r].result = "failed"
        /\ loc'[r].doc \in {loc[r].doc, results}
    <3>1. CASE loc' = [loc EXCEPT ![r].todo = loc[r].todo \ {d}]
      BY <1>2, <2>2, <3>1 DEF Local
    <3>2. CASE loc' = [loc EXCEPT ![r] = [@ EXCEPT !.pc = "fail_save", !.doc = results,
                          !.device = d, !.result = "failed", !.todo = loc[r].todo \ {d}]]
      BY <3>2 DEF Local
    <3> QED
      BY <1>1, <3>1, <3>2
  <2> QED
    <3>1. DocTrue(loc'[r].doc)
      BY <2>3 DEF Sound, Truthful, ResultsTrue
    <3> QED
      BY <1>2, <2>1, <2>3, <3>1, ThreadMoves DEF Late, Going, Heard
<1> QED
  <2>1. OnlyRun(r)
    BY <1>1, <1>2 DEF OnlyRun
  <2> QED
    BY <1>2, <1>3, <1>4, <2>1, QuietStep, OneRunActs

\* The run is finished: its results go to Audit and its rows may be hidden.
LEMMA FinishSteps ==
  ASSUME ToolbeltInvariant, NEW r \in Runs,
         AuditResults(r) \/ HideSuccessful(r) \/ RecordRun(r) \/ FinishFails(r)
  PROVE  ToolbeltInvariant'
<1> USE DEF ToolbeltInvariant, TypeOK, At, Goto, files, process, queue, device
<1>1. \/ \E to \in {"hide", "record", "close"} : loc' = [loc EXCEPT ![r].pc = to]
      \/ loc' = [loc EXCEPT ![r] = [@ EXCEPT !.pc = "close", !.ending = "failed"]]
  BY DEF AuditResults, HideSuccessful, RecordRun, FinishFails
<1>2. /\ loc[r].pc \in {"finish", "hide", "record"}
      /\ UNCHANGED <<owner, results, run, folder, stopFile, early, child, pipe, proven, delivered>>
  BY DEF AuditResults, HideSuccessful, RecordRun, FinishFails
<1>3. \A d \in TargetsOf(r) : run[r].target[d] \in Certificates
  BY DEF TargetsOf, Run, Targets
<1>4. TypeOK'
  <2>1. loc' \in [Runs -> Local]
    <3>1. /\ \A to \in {"hide", "record", "close"} : [loc[r] EXCEPT !.pc = to] \in Local
          /\ [loc[r] EXCEPT !.pc = "close", !.ending = "failed"] \in Local
      BY LocalFields DEF Going
    <3> QED
      BY <1>1, <3>1, LocalSet
  <2>2. Outcomes(r) \subseteq Runs \X Certificates \X BOOLEAN
    <3>1. ASSUME NEW d \in TargetsOf(r)
          PROVE  <<r, run[r].target[d], run[r].dev[d] = "ok">> \in Runs \X Certificates \X BOOLEAN
      BY <1>3
    <3> QED
      BY <3>1 DEF Outcomes
  <2>3. audited' \subseteq Runs \X Certificates \X BOOLEAN
    BY <2>2 DEF AuditResults, HideSuccessful, RecordRun, FinishFails
  <2>4. completed' \subseteq Certificates
    <3> HIDE DEF ToolbeltInvariant, TypeOK
    <3>1. completed \subseteq Certificates
      BY DEF ToolbeltInvariant, TypeOK
    <3>2. CASE HideSuccessful(r)
      BY <1>3, <3>1, <3>2 DEF HideSuccessful
    <3> QED
      BY <3>1, <3>2 DEF AuditResults, RecordRun, FinishFails, device
  <2> QED
    BY <1>2, <2>1, <2>3, <2>4
<1>5. Sound(r)'
  <2>1. loc[r].result = "none" /\ DocTrue(loc[r].doc) /\ loc[r].ending # "none"
    BY <1>2 DEF Sound, Truthful
  <2>2. /\ loc'[r].pc \in {"hide", "record", "close"}
        /\ loc'[r].result = "none" /\ loc'[r].doc = loc[r].doc /\ loc'[r].ending # "none"
    <3>1. ASSUME NEW to \in {"hide", "record", "close"}, loc' = [loc EXCEPT ![r].pc = to]
          PROVE  /\ loc'[r].pc = to /\ loc'[r].result = "none" /\ loc'[r].doc = loc[r].doc
                 /\ loc'[r].ending # "none"
      BY <2>1, <3>1 DEF Local
    <3>2. ASSUME loc' = [loc EXCEPT ![r] = [@ EXCEPT !.pc = "close", !.ending = "failed"]]
          PROVE  /\ loc'[r].pc = "close" /\ loc'[r].result = "none" /\ loc'[r].doc = loc[r].doc
                 /\ loc'[r].ending # "none"
      BY <2>1, <3>2 DEF Local
    <3> QED
      BY <1>1, <3>1, <3>2
  <2> QED
    BY <1>2, <2>1, <2>2, ThreadMoves DEF Late, Going, Heard
<1> QED
  <2>1. OnlyRun(r)
    BY <1>1, <1>2 DEF OnlyRun
  <2> QED
    BY <1>2, <1>4, <1>5, <2>1, QuietStep, OneRunActs

\* The run is closed, or its thread dies; the folder is still to be removed.
LEMMA CloseSteps ==
  ASSUME ToolbeltInvariant, NEW r \in Runs, Close(r) \/ ThreadDies(r)
  PROVE  ToolbeltInvariant'
<1> USE DEF ToolbeltInvariant, TypeOK, At, files, process, queue, device
<1> DEFINE left == [Idle EXCEPT !.pc = "remove_folder"]
<1>1. /\ loc' = [loc EXCEPT ![r] = left]
      /\ loc[r].pc \in {"close", "fail_save"}
      /\ UNCHANGED <<owner, results, folder, stopFile, early, child, pipe, audited, completed,
                     proven, delivered>>
  BY DEF Close, ThreadDies
<1>2. /\ run'[r].target = run[r].target /\ run' \in [Runs -> Run]
      /\ \A q \in Runs \ {r} : run'[q] = run[q]
  <2>1. CASE UNCHANGED run
    BY <2>1
  <2>2. CASE Close(r)
    <3>1. loc[r].ending \in {"complete", "stopped", "failed"}
      BY <1>1, <2>2 DEF Local, Sound, Truthful, Close
    <3>2. run' = [run EXCEPT ![r].status = loc[r].ending]
      BY <2>2 DEF Close
    <3>3. run' \in [Runs -> Run]
      BY <3>1, <3>2, RunSet, RunFields
    <3>4. run' = [run EXCEPT ![r] = [run[r] EXCEPT !.status = loc[r].ending]]
      BY <3>2
    <3>5. run'[r].target = run[r].target
      BY <3>4 DEF Run
    <3> QED
      BY <3>3, <3>4, <3>5
  <2> QED
    BY <2>1, <2>2 DEF ThreadDies
<1>3. left \in Local /\ left.pc = "remove_folder" /\ left.result = "none" /\ left.doc = NoResults
  BY IdleTyped DEF Going, Idle
<1> HIDE DEF left
<1>4. TypeOK'
  BY <1>1, <1>2, <1>3, LocalSet
<1>5. Sound(r)'
  <2>1. loc'[r] = left
    BY <1>1
  <2> QED
    BY <1>1, <1>2, <1>3, <2>1, NothingTrue, ThreadMoves DEF Late, Going, Heard
<1> QED
  <2>1. OnlyRun(r)
    BY <1>1, <1>2 DEF OnlyRun
  <2> QED
    BY <1>1, <1>4, <1>5, <2>1, QuietStep, OneRunActs

\* The folder is removed, and the run is over; the uploader may still be at work.
LEMMA RemoveFolderStep ==
  ASSUME ToolbeltInvariant, NEW r \in Runs, RemoveFolder(r) PROVE ToolbeltInvariant'
<1> USE DEF ToolbeltInvariant, TypeOK, RemoveFolder, Forget, At, queue, device
<1>1. Ended \in Local /\ NoRun \in Run /\ Ended.pc = "ended" /\ Ended.result = "none"
      /\ Ended.doc = NoResults
  BY DEF Ended, Idle, Local, NoRun, Run, NoTargets, Targets, NoResults, Results, Modes
<1>2. /\ loc'[r] = Ended /\ run'[r] = NoRun /\ pipe'[r] = <<>> /\ child' = child
      /\ loc[r].pc = "remove_folder"
  OBVIOUS
<1>3. TypeOK'
  <2>1. folder' \in [Runs -> {"none", "made", "kept"}]
    OBVIOUS
  <2>2. UNCHANGED <<owner, results, child, completed, proven, delivered>>
    OBVIOUS
  <2>3. /\ run' \in [Runs -> Run] /\ loc' \in [Runs -> Local]
        /\ stopFile' \subseteq Runs /\ early' \subseteq Runs
        /\ audited' \subseteq Runs \X Certificates \X BOOLEAN
    BY <1>1
  <2>4. pipe' \in [Runs -> Seq(Event)]
    OBVIOUS
  <2> QED
    BY <2>1, <2>2, <2>3, <2>4
<1>4. Sound(r)'
  <2>1. Fresh(r)' /\ Gated(r)'
    BY <1>1, <1>2 DEF Fresh, Gated, Going, Choosing
  <2>2. Supplied(r)'
    BY <1>1, <1>2 DEF Sound, Supplied, HasPem, Heard
  <2>3. Truthful(r)'
    BY <1>1, <1>2, NothingTrue DEF Truthful, DocTrue
  <2> QED
    BY <2>1, <2>2, <2>3 DEF Sound
<1> QED
  BY <1>3, <1>4, QuietStep, OneRunActs DEF OnlyRun

-----------------------------------------------------------------------------
(* The steps of the uploader.                                              *)

\* The uploader takes a device, finds none left, or ends.
LEMMA ChildTurns ==
  ASSUME ToolbeltInvariant, NEW r \in Runs,
         BeginDevice(r) \/ ChildDone(r) \/ ChildUnheard(r)
  PROVE  ToolbeltInvariant'
<1> USE DEF ToolbeltInvariant, TypeOK, files, queue, device
<1>1. /\ \/ \E d \in child[r].todo :
              child' = [child EXCEPT ![r] = [@ EXCEPT !.pc = "device", !.device = d,
                                                      !.todo = child[r].todo \ {d}]]
         \/ \E how \in {"done", "dead"} : ChildEnds(r, how)
      /\ child[r].pc = "check"
      /\ UNCHANGED <<owner, results, run, loc, folder, stopFile, early, pipe, audited, completed,
                     proven, delivered>>
  BY DEF BeginDevice, ChildDone, ChildUnheard, ChildEnds
<1>2. /\ child'[r] \in Child
      /\ \/ /\ child'[r].pc = "device" /\ child'[r].device \in child[r].todo
            /\ child'[r].todo \subseteq child[r].todo /\ child'[r].pem = child[r].pem
         \/ child'[r].pc \in {"done", "dead"}
      /\ child' = [child EXCEPT ![r] = child'[r]]
  <2>1. ASSUME NEW d \in child[r].todo,
               child' = [child EXCEPT ![r] = [@ EXCEPT !.pc = "device", !.device = d,
                                                       !.todo = child[r].todo \ {d}]]
        PROVE  /\ child'[r] \in Child
               /\ child'[r].pc = "device" /\ child'[r].device = d
               /\ child'[r].todo \subseteq child[r].todo /\ child'[r].pem = child[r].pem
               /\ child' = [child EXCEPT ![r] = child'[r]]
    <3>1. child[r] \in Child /\ d \in Devices
      BY DEF Child
    <3>2. child'[r] = [child[r] EXCEPT !.pc = "device", !.device = d, !.todo = child[r].todo \ {d}]
      BY <2>1
    <3> QED
      BY <2>1, <3>1, <3>2 DEF Child
  <2>2. ASSUME NEW how \in {"done", "dead"}, ChildEnds(r, how)
        PROVE  child'[r] \in Child /\ child'[r].pc = how /\ child' = [child EXCEPT ![r] = child'[r]]
    BY <2>2 DEF ChildEnds, NoChild, NoTargets, Targets, Child
  <2> QED
    BY <1>1, <2>1, <2>2
<1>3. TypeOK'
  BY <1>1, <1>2
<1>4. Sound(r)'
  <2>1. Fresh(r)' /\ Gated(r)'
    BY <1>1 DEF Sound, Fresh, Gated, TargetsOf
  <2>2. Supplied(r)'
    BY <1>1, <1>2 DEF Sound, Supplied, HasPem, Heard
  <2>3. Truthful(r)'
    BY <1>1 DEF Sound, Truthful, Attested, ResultOf, DocTrue
  <2> QED
    BY <2>1, <2>2, <2>3 DEF Sound
<1> QED
  <2>1. OnlyRun(r)
    BY <1>1, <1>2 DEF OnlyRun
  <2> QED
    BY <1>1, <1>3, <1>4, <2>1, QuietStep, OneRunActs

\* A report at the end of the pipe leaves the others where they are.
LEMMA LastReport ==
  ASSUME NEW s \in Seq(Event), NEW e \in Event
  PROVE  /\ Append(s, e) \in Seq(Event)
         /\ \A i \in 1..Len(Append(s, e)) :
               \/ i \in 1..Len(s) /\ Append(s, e)[i] = s[i]
               \/ Append(s, e)[i] = e
OBVIOUS

\* The uploader finds the stop file.
LEMMA CancelDeviceStep ==
  ASSUME ToolbeltInvariant, NEW r \in Runs, CancelDevice(r) PROVE ToolbeltInvariant'
<1> USE DEF ToolbeltInvariant, TypeOK, files, queue, device
<1>1. PICK d \in child[r].todo : Report(r, d, "cancelled")
  BY DEF CancelDevice
<1>2. /\ child[r].pc = "check" /\ ChildEnds(r, "done")
      /\ UNCHANGED <<owner, results, run, loc, folder, stopFile, early, audited, completed,
                     proven, delivered>>
  BY DEF CancelDevice
<1> DEFINE e == [device |-> d, result |-> "cancelled"]
<1>3. e \in Event /\ e.result = "cancelled"
  BY DEF Child, Event
<1>4. pipe' = [pipe EXCEPT ![r] = Append(pipe[r], e)]
  BY <1>1 DEF Report
<1> HIDE DEF e
<1>5. /\ pipe'[r] \in Seq(Event)
      /\ \A i \in 1..Len(pipe'[r]) : \/ i \in 1..Len(pipe[r]) /\ pipe'[r][i] = pipe[r][i]
                                     \/ pipe'[r][i] = e
  <2>1. pipe[r] \in Seq(Event) /\ pipe'[r] = Append(pipe[r], e)
    BY <1>4
  <2> QED
    BY ONLY <1>3, <2>1, LastReport
<1>6. /\ child'[r] \in Child /\ child'[r].pc = "done" /\ \A q \in Runs \ {r} : child'[q] = child[q]
      /\ child' \in [Runs -> Child]
  BY <1>2 DEF ChildEnds, NoChild, NoTargets, Targets, Child
<1>7. TypeOK'
  BY <1>2, <1>4, <1>5, <1>6
<1>8. Sound(r)'
  <2>1. Fresh(r)' /\ Gated(r)'
    BY <1>2 DEF Sound, Fresh, Gated, TargetsOf
  <2>2. Supplied(r)'
    BY <1>6 DEF Supplied
  <2>3. Truthful(r)'
    BY <1>2, <1>3, <1>5 DEF Sound, Truthful, Attested, ResultOf, DocTrue
  <2> QED
    BY <2>1, <2>2, <2>3 DEF Sound
<1> QED
  <2>1. OnlyRun(r)
    BY <1>2, <1>4, <1>6 DEF OnlyRun
  <2> QED
    BY <1>2, <1>7, <1>8, <2>1, QuietStep, OneRunActs

\* The work on a device: what an upload applies was dry-run, and a success says so.
LEMMA WorkDone ==
  ASSUME ToolbeltInvariant, NEW r \in Runs, NEW c \in Certificates, NEW result,
         r \in UploadRuns => c \in proven, Work(r, c, result), UNCHANGED results
  PROVE  /\ Grown /\ AppliedWasProven' /\ ResultsTrue'
         /\ proven' \subseteq Certificates /\ delivered' \subseteq Certificates
         /\ result = "ok" => Attested(r, c)'
<1> USE DEF ToolbeltInvariant, TypeOK, Work
<1>1. Grown /\ proven' \subseteq Certificates /\ delivered' \subseteq Certificates
  BY DEF Grown
<1>2. AppliedWasProven'
  BY DEF AppliedWasProven
<1>3. ResultsTrue'
  BY <1>1 DEF ResultsTrue, DocTrue, Grown
<1>4. result = "ok" => Attested(r, c)'
  BY DEF Attested
<1> QED
  BY <1>1, <1>2, <1>3, <1>4

\* The uploader is done with a device, and reports it if it is heard.
LEMMA EndDeviceStep ==
  ASSUME ToolbeltInvariant, NEW r \in Runs, EndDevice(r) PROVE ToolbeltInvariant'
<1> USE DEF ToolbeltInvariant, TypeOK, files, queue
<1>1. PICK result \in {"ok", "failed"} :
        /\ Work(r, child[r].pem[child[r].device], result)
        /\ IF Heard(r) THEN Report(r, child[r].device, result) ELSE UNCHANGED pipe
  BY DEF EndDevice
<1>2. /\ child[r].pc = "device"
      /\ IF Heard(r) THEN child' = [child EXCEPT ![r] = [@ EXCEPT !.pc = "check", !.device = NoDevice]]
         ELSE ChildEnds(r, "dead")
      /\ UNCHANGED <<owner, results, run, loc, folder, stopFile, early, audited, completed>>
  BY DEF EndDevice
<1>3. PICK d : d = child[r].device
  OBVIOUS
<1>4. PICK c : c = child[r].pem[d]
  OBVIOUS
<1>5. /\ d \in Devices /\ c \in Certificates
      /\ r \in UploadRuns => c \in proven
      /\ Heard(r) => c = run[r].target[d]
  BY <1>2, <1>3, <1>4 DEF Sound, Supplied, HasPem
<1>6. /\ Grown /\ AppliedWasProven' /\ ResultsTrue'
      /\ proven' \subseteq Certificates /\ delivered' \subseteq Certificates
      /\ result = "ok" => Attested(r, c)'
  <2>1. Work(r, c, result)
    BY <1>1, <1>3, <1>4 DEF Work
  <2> QED
    BY <1>2, <1>5, <2>1, WorkDone
<1> DEFINE e == [device |-> d, result |-> result]
<1>7. e \in Event /\ e.device = d /\ e.result = result
  BY ONLY <1>5, result \in {"ok", "failed"} DEF Event
<1>8. \/ ~Heard(r) /\ UNCHANGED pipe
      \/ Heard(r) /\ pipe' = [pipe EXCEPT ![r] = Append(pipe[r], e)]
  BY <1>1, <1>3 DEF Report
<1> HIDE DEF e
<1>9. /\ pipe' \in [Runs -> Seq(Event)] /\ \A q \in Runs \ {r} : pipe'[q] = pipe[q]
      /\ \A i \in 1..Len(pipe'[r]) : \/ i \in 1..Len(pipe[r]) /\ pipe'[r][i] = pipe[r][i]
                                     \/ Heard(r) /\ pipe'[r][i] = e
  <2>1. CASE Heard(r) /\ pipe' = [pipe EXCEPT ![r] = Append(pipe[r], e)]
    <3>1. pipe[r] \in Seq(Event) /\ pipe'[r] = Append(pipe[r], e)
      BY <2>1
    <3>2. /\ Append(pipe[r], e) \in Seq(Event)
          /\ \A i \in 1..Len(pipe'[r]) : \/ i \in 1..Len(pipe[r]) /\ pipe'[r][i] = pipe[r][i]
                                         \/ pipe'[r][i] = e
      BY ONLY <1>7, <3>1, LastReport
    <3> QED
      BY <2>1, <3>2
  <2> QED
    BY <1>8, <2>1
<1>10. /\ child' \in [Runs -> Child] /\ \A q \in Runs \ {r} : child'[q] = child[q]
       /\ \/ child'[r].pc = "dead"
          \/ /\ Heard(r) /\ child'[r].pc = "check"
             /\ child'[r].pem = child[r].pem /\ child'[r].todo = child[r].todo
  <2>1. CASE Heard(r)
    <3>1. child[r] \in Child
      OBVIOUS
    <3>2. child' = [child EXCEPT ![r] = [child[r] EXCEPT !.pc = "check", !.device = NoDevice]]
      BY <1>2, <2>1
    <3>3. [child[r] EXCEPT !.pc = "check", !.device = NoDevice] \in Child
      BY <3>1 DEF Child
    <3>4. child'[r] = [child[r] EXCEPT !.pc = "check", !.device = NoDevice]
      BY <3>2
    <3>5. child'[r].pc = "check" /\ child'[r].pem = child[r].pem /\ child'[r].todo = child[r].todo
      BY <3>1, <3>4 DEF Child
    <3> QED
      BY <2>1, <3>2, <3>3, <3>5
  <2>2. CASE ~Heard(r)
    <3>1. ChildEnds(r, "dead")
      BY <1>2, <2>2
    <3> QED
      BY <3>1 DEF ChildEnds, NoChild, NoTargets, Targets, Child
  <2> QED
    BY <2>1, <2>2
<1>11. TypeOK'
  BY <1>2, <1>6, <1>9, <1>10
<1>12. Sound(r)'
  <2>1. Fresh(r)'
    BY <1>2 DEF Sound, Fresh
  <2>2. Gated(r)'
    BY <1>2, <1>6 DEF Sound, Gated, TargetsOf, Grown
  <2>3. Supplied(r)'
    BY <1>2, <1>6, <1>10 DEF Sound, Supplied, HasPem, Heard, Grown
  <2>4. \A i \in 1..Len(pipe'[r]) :
           (pipe[r][i].result = "ok" => Attested(r, run[r].target[pipe[r][i].device]))'
    <3>1. \A i \in 1..Len(pipe[r]) :
             pipe[r][i].result = "ok" => Attested(r, run[r].target[pipe[r][i].device])
      BY DEF Sound, Truthful
    <3> QED
      BY <1>2, <1>5, <1>6, <1>7, <1>9, <3>1 DEF Attested, Grown
  <2>5. (loc[r].result = "ok" => Attested(r, ResultOf(r)))'
    BY <1>2, <1>6 DEF Sound, Truthful, Attested, ResultOf, Grown
  <2>6. DocTrue(loc[r].doc)'
    BY <1>2, <1>6 DEF Sound, Truthful, DocTrue, Grown
  <2>7. Truthful(r)'
    BY <1>2, <2>4, <2>5, <2>6 DEF Sound, Truthful
  <2> QED
    BY <2>1, <2>2, <2>3, <2>7 DEF Sound
<1> QED
  <2>1. OnlyRun(r)
    BY <1>2, <1>9, <1>10 DEF OnlyRun
  <2> QED
    BY <1>6, <1>11, <1>12, <2>1, OneRunActs

\* The uploader dies, maybe after it has applied a certificate.
LEMMA ChildDiesStep ==
  ASSUME ToolbeltInvariant, NEW r \in Runs, ChildDies(r) PROVE ToolbeltInvariant'
<1> USE DEF ToolbeltInvariant, TypeOK, files, queue
<1>1. /\ child[r].pc \in {"check", "device"} /\ ChildEnds(r, "dead")
      /\ UNCHANGED <<owner, results, run, loc, folder, stopFile, early, pipe, audited, completed>>
  BY DEF ChildDies
<1>2. /\ Grown /\ AppliedWasProven' /\ ResultsTrue'
      /\ proven' \subseteq Certificates /\ delivered' \subseteq Certificates
  <2>1. CASE UNCHANGED device
    BY <1>1, <2>1, QuietStep DEF device
  <2>2. CASE child[r].pc = "device" /\ Work(r, child[r].pem[child[r].device], "failed")
    <3>1. PICK c : c = child[r].pem[child[r].device]
      OBVIOUS
    <3>2. c \in Certificates /\ (r \in UploadRuns => c \in proven)
      BY <2>2, <3>1 DEF Sound, Supplied, HasPem
    <3>3. Work(r, c, "failed")
      BY <2>2, <3>1 DEF Work
    <3> QED
      BY <1>1, <3>2, <3>3, WorkDone
  <2> QED
    BY <2>1, <2>2 DEF ChildDies
<1>3. /\ child' \in [Runs -> Child] /\ child'[r].pc = "dead"
      /\ \A q \in Runs \ {r} : child'[q] = child[q]
  BY <1>1 DEF ChildEnds, NoChild, NoTargets, Targets, Child
<1>4. TypeOK'
  BY <1>1, <1>2, <1>3
<1>5. Sound(r)'
  <2>1. Fresh(r)' /\ Supplied(r)'
    BY <1>1, <1>3 DEF Sound, Fresh, Supplied
  <2>2. Gated(r)'
    BY <1>1, <1>2 DEF Sound, Gated, TargetsOf, Grown
  <2>3. Truthful(r)'
    BY <1>1, <1>2 DEF Sound, Truthful, Attested, ResultOf, DocTrue, Grown
  <2> QED
    BY <2>1, <2>2, <2>3 DEF Sound
<1> QED
  <2>1. OnlyRun(r)
    BY <1>1, <1>3 DEF OnlyRun
  <2> QED
    BY <1>2, <1>4, <1>5, <2>1, OneRunActs

-----------------------------------------------------------------------------
(* A crash, the initial state, and the theorems.                           *)

\* A crash takes the runs and the pipes; the uploaders keep their certificates.
LEMMA CrashStep ==
  ASSUME ToolbeltInvariant, Crash PROVE ToolbeltInvariant'
<1> USE DEF ToolbeltInvariant, TypeOK, Crash, device
<1>1. /\ Idle \in Local /\ Idle.pc = "idle" /\ Idle.result = "none" /\ Idle.doc = NoResults
      /\ Ended \in Local /\ Ended.pc = "ended" /\ Ended.result = "none" /\ Ended.doc = NoResults
      /\ NoRun \in Run
  BY DEF Ended, Idle, Local, NoRun, Run, NoTargets, Targets, NoResults, Results, Modes
<1>2. TypeOK'
  BY <1>1
<1>3. ASSUME NEW r \in Runs PROVE Sound(r)'
  <2>1. /\ loc'[r] = Ended \/ (loc'[r] = Idle /\ loc[r] = Idle)
        /\ run'[r] = NoRun /\ pipe'[r] = <<>> /\ child' = child
    OBVIOUS
  <2>2. Fresh(r)' /\ Gated(r)'
    BY <1>1, <2>1 DEF Sound, Fresh, Gated, Going, Choosing
  <2>3. Supplied(r)'
    BY <1>1, <2>1 DEF Sound, Fresh, Supplied, HasPem, Heard
  <2>4. Truthful(r)'
    BY <1>1, <2>1, NothingTrue DEF Truthful, DocTrue
  <2> QED
    BY <2>2, <2>3, <2>4 DEF Sound
<1> QED
  BY <1>2, <1>3, QuietStep

\* Nothing has been done, and nothing is asserted.
LEMMA ToolbeltInit == Init => ToolbeltInvariant
<1> SUFFICES ASSUME Init PROVE ToolbeltInvariant
  OBVIOUS
<1> USE DEF Init
<1>1. /\ Idle \in Local /\ Idle.pc = "idle" /\ Idle.result = "none" /\ Idle.doc = NoResults
      /\ NoRun \in Run /\ NoChild \in Child /\ NoChild.pc = "none" /\ NoResults \in Results
  BY DEF Idle, Local, NoRun, Run, NoChild, Child, NoTargets, Targets, NoResults, Results, Modes
<1>2. TypeOK
  <2>1. results \in Results
    BY DEF Results, Modes
  <2> QED
    BY <1>1, <2>1 DEF TypeOK
<1>3. AppliedWasProven /\ ResultsTrue
  BY DEF AppliedWasProven, ResultsTrue, DocTrue, Modes
<1>4. ASSUME NEW r \in Runs PROVE Sound(r)
  BY <1>1, NothingTrue DEF Sound, Fresh, Gated, Supplied, Truthful, Going, Choosing
<1> QED
  BY <1>2, <1>3, <1>4 DEF ToolbeltInvariant

\* Every step of every actor keeps the invariant.
LEMMA ToolbeltStep == ToolbeltInvariant /\ [Next]_vars => ToolbeltInvariant'
<1> SUFFICES ASSUME ToolbeltInvariant, [Next]_vars PROVE ToolbeltInvariant'
  OBVIOUS
<1>1. CASE UNCHANGED vars
  <2>1. TypeOK' /\ OnlyRun(NoDevice) /\ Grown
    BY <1>1 DEF ToolbeltInvariant, TypeOK, OnlyRun, Grown, vars
  <2>2. \A q \in Runs : Sound(q)'
    BY <1>1, <2>1, OtherRun DEF ToolbeltInvariant, vars
  <2> QED
    BY <1>1, <2>1, <2>2, QuietStep DEF ToolbeltInvariant, vars, device
<1>2. CASE Request
  BY <1>2, IssueStep, StartStep, StopStep DEF Request
<1>3. ASSUME NEW r \in Runs, RunStep(r) PROVE ToolbeltInvariant'
  BY <1>3, ReadStatusesStep, ClearStatusesStep, RefuseRunStep, RegisterStep, MakeFolderStep,
     SpawnUploaderStep, HearStep, SaveResultStep, ThreadTurns, MarkFailedStep, FinishSteps,
     CloseSteps, RemoveFolderStep DEF RunStep
<1>4. ASSUME NEW r \in Runs, ChildStep(r) PROVE ToolbeltInvariant'
  BY <1>4, ChildTurns, CancelDeviceStep, EndDeviceStep, ChildDiesStep DEF ChildStep
<1> QED
  BY <1>1, <1>2, <1>3, <1>4, CrashStep DEF Next

\* The types and the parts of the invariant hold of every run, device and
\* certificate, with every fault.
THEOREM ToolbeltInvariantHolds == Spec => []ToolbeltInvariant
BY ToolbeltInit, ToolbeltStep, PTL DEF Spec

\* Every document, run and process keeps its shape.
THEOREM ToolbeltTypes == Spec => []TypeOK
<1>1. ToolbeltInvariant => TypeOK
  BY DEF ToolbeltInvariant
<1> QED
  BY <1>1, ToolbeltInvariantHolds, PTL

\* No device gets a certificate that was not itself dry-run, however many runs
\* overlap and write back stale results.
THEOREM OnlyProvenApplied == Spec => []AppliedWasProven
<1>1. ToolbeltInvariant => AppliedWasProven
  BY DEF ToolbeltInvariant
<1> QED
  BY <1>1, ToolbeltInvariantHolds, PTL

\* No result on display is another certificate's.
THEOREM NoFalseResult == Spec => []ResultsTrue
<1>1. ToolbeltInvariant => ResultsTrue
  BY DEF ToolbeltInvariant
<1> QED
  BY <1>1, ToolbeltInvariantHolds, PTL

=============================================================================

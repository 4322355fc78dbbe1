-------------------------- MODULE ToolbeltRunProofs --------------------------
(***************************************************************************)
(* The course of a Toolbelt run, for every set of runs, devices and         *)
(* certificates and every choice of faults: how it ends, what becomes of    *)
(* its folder, when its rows are hidden and what a stop does; and, last,    *)
(* that it does come to an end.                                            *)
(***************************************************************************)
EXTENDS ToolbeltProofs, FiniteSetTheorems

Ending == {"finish", "hide", "record", "close"}
Live == Going \ {"prepare", "remove_folder"}

\* A run is registered before it has a folder, and is running until it is closed.
Lifecycle(r) ==
    /\ loc[r].pc \in {"idle", "ended"} \cup Choosing => run[r].status = "absent"
    /\ loc[r].pc \in Going \ {"remove_folder"} => run[r].status = "running"
    /\ loc[r].pc \in {"idle", "prepare"} \cup Choosing => folder[r] = "none" /\ r \notin stopFile
    /\ loc[r].pc = "ended" => folder[r] # "made"
    /\ folder[r] = "kept" => loc[r].pc = "ended"

\* A stop is told to the uploader, and only a stopped run cancels a device.
Stopping(r) ==
    /\ run[r].stop => r \in early \/ r \in stopFile
    /\ r \in stopFile /\ loc[r].pc # "ended" => run[r].stop
    /\ \A i \in 1..Len(pipe[r]) : pipe[r][i].result = "cancelled" => run[r].stop

\* Where a device of a run is as long as the thread listens: still to be done, in
\* work, reported, or filed.
OnItsWay(r, d) ==
    \/ child[r].pc = "dead"
    \/ child[r].pc \in {"check", "device"} /\ d \in child[r].todo
    \/ child[r].pc = "device" /\ child[r].device = d
    \/ \E i \in 1..Len(pipe[r]) : pipe[r][i].device = d /\ pipe[r][i].result \in {"ok", "failed"}
    \/ run[r].dev[d] \in {"ok", "failed"}

AllTried(r) == \A d \in TargetsOf(r) : run[r].dev[d] \in {"ok", "failed"}

\* No device is lost between the uploader and the end of the run.
Trying(r) ==
    /\ loc[r].pc \in {"listen", "save"} => run[r].stop \/ \A d \in TargetsOf(r) : OnItsWay(r, d)
    /\ loc[r].pc \in Ending /\ loc[r].ending = "complete" => AllTried(r)
    /\ run[r].status = "complete" => AllTried(r)

\* The rows of a run are hidden only when its results are in Audit.
Audited(r) == loc[r].pc = "hide" => Outcomes(r) \subseteq audited

Orderly(r) == Lifecycle(r) /\ Stopping(r) /\ Trying(r) /\ Audited(r)

RunsInvariant == ToolbeltInvariant /\ \A r \in Runs : Orderly(r)

-----------------------------------------------------------------------------
(* Frames.                                                                 *)

\* The folder, the stop and the audited results of a run are left alone.
FilesOf(q) == /\ folder'[q] = folder[q]
              /\ (q \in stopFile' <=> q \in stopFile) /\ (q \in early' <=> q \in early)
AuditOf(q) == \A o \in audited : o[1] = q => o \in audited'

\* Nothing but run r goes on in a step, and the files of the others stay.
Apart(r) == OnlyRun(r) /\ \A q \in Runs \ {r} : FilesOf(q) /\ AuditOf(q)

\* A run that takes no part in a step stays in order.
LEMMA OtherOrderly ==
  ASSUME NEW q \in Runs, Orderly(q), FilesOf(q), AuditOf(q),
         run'[q] = run[q], loc'[q] = loc[q], child'[q] = child[q], pipe'[q] = pipe[q]
  PROVE  Orderly(q)'
<1>1. Lifecycle(q)' /\ Stopping(q)'
  BY DEF Orderly, FilesOf, Lifecycle, Stopping
<1>2. Trying(q)'
  BY DEF Orderly, Trying, OnItsWay, AllTried, TargetsOf
<1>3. Audited(q)'
  <2>1. Outcomes(q)' = Outcomes(q)
    BY DEF Outcomes, TargetsOf
  <2>2. \A o \in Outcomes(q) : o[1] = q
    BY DEF Outcomes
  <2> QED
    BY <2>1, <2>2 DEF Orderly, Audited, AuditOf
<1> QED
  BY <1>1, <1>2, <1>3 DEF Orderly

\* A step of one run that leaves it in order leaves all of them in order.
LEMMA OneRunOrderly ==
  ASSUME RunsInvariant, NEW r \in Runs, Apart(r), Orderly(r)'
  PROVE  \A q \in Runs : Orderly(q)'
<1> SUFFICES ASSUME NEW q \in Runs PROVE Orderly(q)'
  OBVIOUS
<1>1. CASE q = r
  BY <1>1
<1>2. CASE q # r
  BY <1>2, OtherOrderly DEF RunsInvariant, Apart, OnlyRun
<1> QED
  BY <1>1, <1>2

\* A registered run that goes on keeps its folder and its stop.
LEMMA GoesOn ==
  ASSUME NEW r \in Runs, Orderly(r), FilesOf(r), loc[r].pc \in Live, loc'[r].pc \in Live,
         run'[r].status = run[r].status, run'[r].stop = run[r].stop,
         \A i \in 1..Len(pipe'[r]) : pipe'[r][i].result = "cancelled" => run[r].stop
  PROVE  Lifecycle(r)' /\ Stopping(r)'
<1>1. Lifecycle(r)'
  BY DEF Orderly, Lifecycle, FilesOf, Live, Going, Choosing
<1>2. Stopping(r)'
  BY DEF Orderly, Stopping, FilesOf, Live, Going, Choosing
<1> QED
  BY <1>1, <1>2

\* A registered run that is still going on has not ended complete.
LEMMA NotYetComplete ==
  ASSUME NEW r \in Runs, Lifecycle(r), loc[r].pc # "remove_folder", loc[r].pc \in
         {"idle", "ended"} \cup Choosing \cup Going
  PROVE  run[r].status # "complete"
BY DEF Lifecycle, Going, Choosing

\* The thread moves on with what it has, and the uploader with what it does.
LEMMA ThreadOrderly ==
  ASSUME NEW r \in Runs, Orderly(r), FilesOf(r), loc[r].pc \in Live, loc'[r].pc \in Live,
         UNCHANGED <<child, pipe>>, run'[r].status = run[r].status, run'[r].stop = run[r].stop,
         loc'[r].pc = "listen" =>
            loc[r].pc = "save" /\ run'[r].dev = run[r].dev /\ run'[r].target = run[r].target,
         loc'[r].pc # "save",
         loc'[r].pc \in Ending /\ loc'[r].ending = "complete" => AllTried(r)',
         Audited(r)'
  PROVE  Orderly(r)'
<1>1. Lifecycle(r)' /\ Stopping(r)'
  BY GoesOn DEF Orderly, Stopping
<1>2. run'[r].status # "complete"
  BY DEF Orderly, Lifecycle, Live
<1>3. loc'[r].pc \in {"listen", "save"} => run'[r].stop \/ \A d \in TargetsOf(r)' : OnItsWay(r, d)'
  BY DEF Orderly, Trying, TargetsOf, OnItsWay
<1>4. Trying(r)'
  BY <1>2, <1>3 DEF Trying
<1> QED
  BY <1>1, <1>4 DEF Orderly

-----------------------------------------------------------------------------
(* The requests, and the steps of start.                                   *)

\* Where there is no uploader to listen to and nothing to end, the rest follows.
LEMMA NothingToTry ==
  ASSUME NEW r \in Runs, Lifecycle(r)', Stopping(r)',
         loc'[r].pc \notin {"listen", "save"} \cup Ending, run'[r].status # "complete"
  PROVE  Orderly(r)'
BY DEF Orderly, Trying, Audited, Ending

\* A certificate is issued: no run takes part.
LEMMA IssueOrderly ==
  ASSUME RunsInvariant, NEW c \in Certificates, NEW d \in Devices, Issue(c, d)
  PROVE  \A q \in Runs : Orderly(q)'
<1> SUFFICES ASSUME NEW q \in Runs PROVE Orderly(q)'
  OBVIOUS
<1>1. FilesOf(q) /\ AuditOf(q) /\ run'[q] = run[q] /\ loc'[q] = loc[q]
      /\ child'[q] = child[q] /\ pipe'[q] = pipe[q]
  BY DEF Issue, files, process, queue, FilesOf, AuditOf
<1> QED
  BY <1>1, OtherOrderly DEF RunsInvariant

\* Rows are chosen for a run.
LEMMA StartOrderly ==
  ASSUME RunsInvariant, NEW r \in Runs, NEW rows \in SUBSET Listed, Start(r, rows)
  PROVE  \A q \in Runs : Orderly(q)'
<1> USE DEF RunsInvariant, ToolbeltInvariant, TypeOK, files, process, queue
<1>1. /\ \E t : run' = [run EXCEPT ![r] = [run[r] EXCEPT !.target = t]]
      /\ \E todo : loc' = [loc EXCEPT ![r] = [loc[r] EXCEPT !.pc = "clear", !.todo = todo]]
      /\ loc[r].pc = "idle"
      /\ UNCHANGED <<folder, stopFile, early, child, pipe, audited>>
  BY DEF Start, At
<1>2. run'[r].status = run[r].status /\ run'[r].stop = run[r].stop /\ loc'[r].pc = "clear"
  BY <1>1 DEF Run, Local
<1>3. Lifecycle(r)' /\ Stopping(r)'
  BY <1>1, <1>2 DEF Orderly, Lifecycle, Stopping, Going, Choosing
<1>4. run'[r].status # "complete"
  BY <1>1, <1>2 DEF Orderly, Lifecycle
<1>5. Apart(r)
  BY <1>1 DEF Apart, OnlyRun, FilesOf, AuditOf
<1> QED
  BY <1>2, <1>3, <1>4, <1>5, NothingToTry, OneRunOrderly DEF Ending

\* A stop is written to the folder, or noted as one that came before it.
LEMMA StopOrderly ==
  ASSUME RunsInvariant, NEW r \in Runs, Stop(r) PROVE \A q \in Runs : Orderly(q)'
<1> USE DEF RunsInvariant, ToolbeltInvariant, TypeOK, process, queue
<1>1. /\ run' = [run EXCEPT ![r] = [run[r] EXCEPT !.stop = TRUE]]
      /\ stopFile' = IF folder[r] = "made" THEN stopFile \cup {r} ELSE stopFile
      /\ early' = IF folder[r] = "none" THEN early \cup {r} ELSE early \ {r}
      /\ run[r].status # "absent" /\ UNCHANGED <<loc, folder, child, pipe, audited>>
  BY DEF Stop
<1>0. folder[r] \in {"none", "made"}
  BY <1>1 DEF Orderly, Lifecycle
<1>2. /\ run'[r].stop = TRUE /\ run'[r].status = run[r].status
      /\ run'[r].target = run[r].target /\ run'[r].dev = run[r].dev
  BY <1>1 DEF Run
<1>3. Lifecycle(r)'
  BY <1>1, <1>2 DEF Orderly, Lifecycle
<1>4. Stopping(r)'
  BY <1>0, <1>1, <1>2 DEF Orderly, Stopping
<1>5. Trying(r)'
  BY <1>1, <1>2 DEF Orderly, Trying, AllTried, TargetsOf
<1>6. Audited(r)'
  BY <1>1, <1>2 DEF Orderly, Audited, Outcomes, TargetsOf
<1>7. Apart(r)
  BY <1>1 DEF Apart, OnlyRun, FilesOf, AuditOf
<1> QED
  BY <1>3, <1>4, <1>5, <1>6, <1>7, OneRunOrderly DEF Orderly

\* The statuses are read and cleared, and the run waits to be decided on.
LEMMA ChoosingOrderly ==
  ASSUME RunsInvariant, NEW r \in Runs, ReadStatuses(r) \/ ClearStatuses(r)
  PROVE  \A q \in Runs : Orderly(q)'
<1> USE DEF RunsInvariant, ToolbeltInvariant, TypeOK, files, process, queue
<1>1. /\ \E pc \in {"decide", "clear_write"}, doc \in {NoResults, Cleared(r)} :
            loc' = [loc EXCEPT ![r] = [loc[r] EXCEPT !.pc = pc, !.doc = doc]]
      /\ loc[r].pc \in {"clear", "clear_write"}
      /\ UNCHANGED <<run, folder, stopFile, early, child, pipe, audited>>
  BY DEF ReadStatuses, ClearStatuses, At
<1>2. loc'[r].pc \in {"decide", "clear_write"}
  BY <1>1 DEF Local
<1>3. Lifecycle(r)' /\ Stopping(r)' /\ run'[r].status # "complete"
  BY <1>1, <1>2 DEF Orderly, Lifecycle, Stopping, Going, Choosing
<1>4. Apart(r)
  BY <1>1 DEF Apart, OnlyRun, FilesOf, AuditOf
<1> QED
  BY <1>2, <1>3, <1>4, NothingToTry, OneRunOrderly DEF Ending

\* A run is refused, or its folder is removed: it is over.
LEMMA OverOrderly ==
  ASSUME RunsInvariant, NEW r \in Runs, RefuseRun(r) \/ RemoveFolder(r)
  PROVE  \A q \in Runs : Orderly(q)'
<1> USE DEF RunsInvariant, ToolbeltInvariant, TypeOK, files, process, queue
<1>1. /\ run' = [run EXCEPT ![r] = NoRun] /\ loc' = [loc EXCEPT ![r] = Ended]
      /\ pipe'[r] = <<>> /\ child' = child
      /\ \A q \in Runs \ {r} : pipe'[q] = pipe[q] /\ FilesOf(q) /\ AuditOf(q)
  <2>1. CASE RefuseRun(r)
    BY <2>1 DEF RefuseRun, At, Sound, Fresh, Choosing, FilesOf, AuditOf
  <2>2. CASE RemoveFolder(r)
    BY <2>2 DEF RemoveFolder, Forget, FilesOf, AuditOf
  <2> QED
    BY <2>1, <2>2
<1>0. folder'[r] # "made"
  <2>1. CASE RefuseRun(r)
    BY <2>1 DEF RefuseRun, At, Orderly, Lifecycle, Choosing
  <2>2. CASE RemoveFolder(r)
    BY <2>2 DEF RemoveFolder
  <2> QED
    BY <2>1, <2>2
<1>2. loc'[r].pc = "ended" /\ run'[r].status = "absent" /\ run'[r].stop = FALSE
  BY <1>1 DEF Ended, Idle, NoRun
<1>3. Lifecycle(r)' /\ Stopping(r)'
  BY <1>0, <1>1, <1>2 DEF Lifecycle, Stopping, Going, Choosing
<1>4. Apart(r)
  BY <1>1 DEF Apart, OnlyRun
<1> QED
  BY <1>2, <1>3, <1>4, NothingToTry, OneRunOrderly DEF Ending

\* The run is registered.
LEMMA RegisterOrderly ==
  ASSUME RunsInvariant, NEW r \in Runs, Register(r) PROVE \A q \in Runs : Orderly(q)'
<1> USE DEF RunsInvariant, ToolbeltInvariant, TypeOK, files, process, queue
<1>1. /\ run' = [run EXCEPT ![r] = [run[r] EXCEPT !.status = "running"]]
      /\ loc' = [loc EXCEPT ![r] = [Idle EXCEPT !.pc = "prepare"]]
      /\ loc[r].pc = "decide"
      /\ UNCHANGED <<folder, stopFile, early, child, pipe, audited>>
  BY DEF Register, At
<1>2. run'[r].status = "running" /\ run'[r].stop = run[r].stop /\ loc'[r].pc = "prepare"
  BY <1>1 DEF Run, Idle
<1>3. Lifecycle(r)' /\ Stopping(r)'
  BY <1>1, <1>2 DEF Orderly, Lifecycle, Stopping, Choosing
<1>4. Apart(r)
  BY <1>1 DEF Apart, OnlyRun, FilesOf, AuditOf
<1> QED
  BY <1>2, <1>3, <1>4, NothingToTry, OneRunOrderly DEF Ending

-----------------------------------------------------------------------------
(* The thread of a run.                                                    *)

\* The folder is made: from here on a stop reaches the uploader.
LEMMA MakeFolderOrderly ==
  ASSUME RunsInvariant, NEW r \in Runs, MakeFolder(r) PROVE \A q \in Runs : Orderly(q)'
<1> USE DEF RunsInvariant, ToolbeltInvariant, TypeOK, process, queue
<1>1. /\ loc' = [loc EXCEPT ![r] = [loc[r] EXCEPT !.pc = "stage"]]
      /\ folder' = [folder EXCEPT ![r] = "made"] /\ loc[r].pc = "prepare"
      /\ UNCHANGED <<run, stopFile, early, child, pipe, audited>>
  BY DEF MakeFolder, At, Goto
<1>2. loc'[r].pc = "stage"
  BY <1>1 DEF Local
<1>3. Lifecycle(r)' /\ Stopping(r)' /\ run'[r].status # "complete"
  BY <1>1, <1>2 DEF Orderly, Lifecycle, Stopping, Going, Choosing
<1>4. Apart(r)
  BY <1>1 DEF Apart, OnlyRun, FilesOf, AuditOf
<1> QED
  BY <1>2, <1>3, <1>4, NothingToTry, OneRunOrderly DEF Ending

\* The uploader is started with every device of the run still to be done.
LEMMA SpawnOrderly ==
  ASSUME RunsInvariant, NEW r \in Runs, SpawnUploader(r) PROVE \A q \in Runs : Orderly(q)'
<1> USE DEF RunsInvariant, ToolbeltInvariant, TypeOK, files, queue
<1>1. /\ \E devs : run' = [run EXCEPT ![r] = [run[r] EXCEPT !.dev = devs]]
      /\ \/ /\ child' = [child EXCEPT ![r] =
                  [NoChild EXCEPT !.pc = "check", !.pem = run[r].target, !.todo = TargetsOf(r)]]
            /\ loc' = [loc EXCEPT ![r] = [loc[r] EXCEPT !.pc = "listen"]]
         \/ UNCHANGED child /\ loc' = [loc EXCEPT ![r] = Failing(r)]
      /\ loc[r].pc = "stage"
      /\ UNCHANGED <<folder, stopFile, early, pipe, audited>>
  BY DEF SpawnUploader, At, Goto
<1>2. /\ run'[r].status = run[r].status /\ run'[r].stop = run[r].stop
      /\ run'[r].target = run[r].target
  BY <1>1 DEF Run
<1>3. \/ loc'[r].pc = "listen" /\ child'[r].pc = "check" /\ child'[r].todo = TargetsOf(r)
      \/ loc'[r].pc = "fail"
  <2>1. CASE loc' = [loc EXCEPT ![r] = Failing(r)]
    BY <2>1 DEF Failing, Idle
  <2>2. CASE /\ child' = [child EXCEPT ![r] =
                  [NoChild EXCEPT !.pc = "check", !.pem = run[r].target, !.todo = TargetsOf(r)]]
             /\ loc' = [loc EXCEPT ![r] = [loc[r] EXCEPT !.pc = "listen"]]
    <3>1. loc'[r].pc = "listen"
      BY <2>2 DEF Local
    <3>2. child'[r].pc = "check" /\ child'[r].todo = TargetsOf(r)
      BY <2>2 DEF NoChild
    <3> QED
      BY <3>1, <3>2
  <2> QED
    BY <1>1, <2>1, <2>2
<1>4. Lifecycle(r)' /\ Stopping(r)'
  <2>1. FilesOf(r) /\ loc[r].pc \in Live /\ loc'[r].pc \in Live
    BY <1>1, <1>3 DEF FilesOf, Live, Going
  <2> QED
    BY <1>1, <1>2, <2>1, GoesOn DEF Orderly, Stopping
<1>5. Trying(r)'
  <2>1. run'[r].status # "complete"
    BY <1>1, <1>2 DEF Orderly, Lifecycle, Going
  <2>2. TargetsOf(r)' = TargetsOf(r)
    BY <1>2 DEF TargetsOf
  <2>3. loc'[r].pc = "listen" => \A d \in TargetsOf(r) : OnItsWay(r, d)'
    BY <1>3 DEF OnItsWay
  <2> QED
    BY <1>3, <2>1, <2>2, <2>3 DEF Trying, Ending
<1>6. Audited(r)' /\ Apart(r)
  BY <1>1, <1>3 DEF Audited, Apart, OnlyRun, FilesOf, AuditOf
<1> QED
  BY <1>4, <1>5, <1>6, OneRunOrderly DEF Orderly

\* A report is taken from the pipe and filed: the device has been tried, or the
\* run is stopped.
LEMMA HearOrderly ==
  ASSUME RunsInvariant, NEW r \in Runs, Hear(r) PROVE \A q \in Runs : Orderly(q)'
<1> USE DEF RunsInvariant, ToolbeltInvariant, TypeOK, files, queue
<1> DEFINE e == Head(pipe[r])
<1>1. /\ loc[r].pc = "listen" /\ pipe[r] # <<>>
      /\ pipe' = [pipe EXCEPT ![r] = Tail(pipe[r])]
      /\ run' = [run EXCEPT ![r] = [run[r] EXCEPT !.dev[e.device] = e.result]]
      /\ \/ \E doc, d, result : loc' = [loc EXCEPT ![r] =
              [loc[r] EXCEPT !.pc = "save", !.doc = doc, !.device = d, !.result = result]]
         \/ UNCHANGED loc
      /\ UNCHANGED <<folder, stopFile, early, child, audited>>
  BY DEF Hear, At
<1>2. /\ e \in Event /\ 1 \in 1..Len(pipe[r]) /\ pipe[r][1] = e
      /\ Tail(pipe[r]) \in Seq(Event)
      /\ \A i \in 1..Len(Tail(pipe[r])) : /\ i + 1 \in 1..Len(pipe[r])
                                           /\ Tail(pipe[r])[i] = pipe[r][i + 1]
  <2>1. pipe[r] \in Seq(Event) /\ pipe[r] # <<>>
    BY <1>1
  <2> QED
    BY ONLY <2>1, FirstReport
<1> HIDE DEF e
<1>3. /\ run'[r].status = run[r].status /\ run'[r].stop = run[r].stop
      /\ run'[r].target = run[r].target
      /\ run'[r].dev = [run[r].dev EXCEPT ![e.device] = e.result]
      /\ run[r].dev \in [Devices -> {"none", "pending", "ok", "failed", "cancelled"}]
  <2>1. run \in [Runs -> Run] /\ run[r] \in Run
    OBVIOUS
  <2>2. run'[r] = [run[r] EXCEPT !.dev[e.device] = e.result]
    BY ONLY <1>1, <2>1, r \in Runs
  <2> QED
    BY ONLY <2>1, <2>2 DEF Run
<1>4. loc'[r].pc \in {"listen", "save"} /\ pipe'[r] = Tail(pipe[r])
  <2>1. loc \in [Runs -> Local] /\ loc[r] \in Local
    OBVIOUS
  <2>2. ASSUME NEW doc, NEW d, NEW result,
               loc' = [loc EXCEPT ![r] = [loc[r] EXCEPT !.pc = "save", !.doc = doc,
                                                        !.device = d, !.result = result]]
        PROVE  loc'[r].pc = "save"
    BY ONLY <2>1, <2>2, r \in Runs DEF Local
  <2> QED
    BY <1>1, <2>2
<1>5. Lifecycle(r)' /\ Stopping(r)'
  <2>1. FilesOf(r) /\ loc[r].pc \in Live /\ loc'[r].pc \in Live
    BY <1>1, <1>4 DEF FilesOf, Live, Going
  <2>2. \A i \in 1..Len(pipe'[r]) : pipe'[r][i].result = "cancelled" => run[r].stop
    BY <1>2, <1>4 DEF Orderly, Stopping
  <2> QED
    BY <1>3, <2>1, <2>2, GoesOn
<1>6. Trying(r)'
  <2>1. run'[r].status # "complete"
    BY <1>1, <1>3 DEF Orderly, Lifecycle, Going
  <2>2. TargetsOf(r)' = TargetsOf(r)
    BY <1>3 DEF TargetsOf
  <2>3. CASE run[r].stop
    BY <1>3, <1>4, <2>1, <2>3 DEF Trying, Ending
  <2>4. CASE ~run[r].stop
    <3>1. e.result \in {"ok", "failed"} /\ e.device \in Devices
      BY <1>2, <2>4 DEF Orderly, Stopping, Event
    <3>2. ASSUME NEW d \in TargetsOf(r) PROVE OnItsWay(r, d)'
      <4>1. OnItsWay(r, d) /\ d \in Devices
        BY <1>1, <2>4 DEF Orderly, Trying, TargetsOf
      <4>2. CASE d = e.device
        BY <1>3, <3>1, <4>1, <4>2 DEF OnItsWay
      <4>3. CASE d # e.device
        <5>1. run'[r].dev[d] = run[r].dev[d]
          BY <1>3, <4>1, <4>3
        <5>2. ASSUME NEW i \in 1..Len(pipe[r]), pipe[r][i].device = d,
                     pipe[r][i].result \in {"ok", "failed"}
              PROVE  \E j \in 1..Len(pipe'[r]) : /\ pipe'[r][j].device = d
                                                 /\ pipe'[r][j].result \in {"ok", "failed"}
          <6>1. pipe[r] \in Seq(Event) /\ i # 1 /\ pipe[r] # <<>>
            BY <1>1, <1>2, <4>3, <5>2
          <6>2. i - 1 \in 1..Len(Tail(pipe[r])) /\ Tail(pipe[r])[i - 1] = pipe[r][i]
            BY ONLY <6>1, i \in 1..Len(pipe[r])
          <6> QED
            BY <1>4, <5>2, <6>2
        <5>3. child' = child
          BY <1>1
        <5> QED
          BY <4>1, <5>1, <5>2, <5>3 DEF OnItsWay
      <4> QED
        BY <4>2, <4>3
    <3> QED
      BY <1>4, <2>1, <2>2, <3>2 DEF Trying, Ending
  <2> QED
    BY <2>3, <2>4
<1>7. Audited(r)' /\ Apart(r)
  BY <1>1, <1>4 DEF Audited, Apart, OnlyRun, FilesOf, AuditOf
<1> QED
  BY <1>5, <1>6, <1>7, OneRunOrderly DEF Orderly

\* A result is in the document, and the thread goes back to where it was.
LEMMA SaveOrderly ==
  ASSUME RunsInvariant, NEW r \in Runs,
         SaveResult(r, "save", "listen") \/ SaveResult(r, "fail_save", "fail")
  PROVE  \A q \in Runs : Orderly(q)'
<1> USE DEF RunsInvariant, ToolbeltInvariant, TypeOK, files, process, queue
<1>1. /\ \/ /\ loc[r].pc = "save"
            /\ loc' = [loc EXCEPT ![r] = [loc[r] EXCEPT !.pc = "listen", !.doc = NoResults,
                                          !.device = NoDevice, !.result = "none"]]
         \/ /\ loc[r].pc = "fail_save"
            /\ loc' = [loc EXCEPT ![r] = [loc[r] EXCEPT !.pc = "fail", !.doc = NoResults,
                                          !.device = NoDevice, !.result = "none"]]
      /\ UNCHANGED <<run, folder, stopFile, early, child, pipe, audited>>
  BY DEF SaveResult, At
<1>2. \/ loc[r].pc = "save" /\ loc'[r].pc = "listen"
      \/ loc[r].pc = "fail_save" /\ loc'[r].pc = "fail"
  <2>1. loc \in [Runs -> Local] /\ loc[r] \in Local
    OBVIOUS
  <2> QED
    BY ONLY <1>1, <2>1, r \in Runs DEF Local
<1>3. Orderly(r)'
  BY <1>1, <1>2, ThreadOrderly DEF FilesOf, Live, Going, Ending, Audited
<1>4. Apart(r)
  BY <1>1 DEF Apart, OnlyRun, FilesOf, AuditOf
<1> QED
  BY <1>3, <1>4, OneRunOrderly

\* The run fails, or every device of a run that failed is marked.
LEMMA FailingOrderly ==
  ASSUME RunsInvariant, NEW r \in Runs, SaveResultFails(r) \/ AllMarked(r)
  PROVE  \A q \in Runs : Orderly(q)'
<1> USE DEF RunsInvariant, ToolbeltInvariant, TypeOK, files, process, queue
<1>1. /\ \E x \in {Failing(r), Finishing(r, "failed")} : loc' = [loc EXCEPT ![r] = x]
      /\ loc[r].pc \in {"save", "fail"}
      /\ UNCHANGED <<run, folder, stopFile, early, child, pipe, audited>>
  BY DEF SaveResultFails, AllMarked, At
<1>2. loc'[r].pc \in {"fail", "finish"} /\ loc'[r].ending # "complete"
  <2>1. \A x \in {Failing(r), Finishing(r, "failed")} :
           x.pc \in {"fail", "finish"} /\ x.ending # "complete"
    BY DEF Failing, Finishing, Idle
  <2>2. loc'[r] \in {Failing(r), Finishing(r, "failed")}
    BY <1>1
  <2> QED
    BY <2>1, <2>2
<1>3. Orderly(r)'
  BY <1>1, <1>2, ThreadOrderly DEF FilesOf, Live, Going, Ending, Audited
<1>4. Apart(r)
  BY <1>1 DEF Apart, OnlyRun, FilesOf, AuditOf
<1> QED
  BY <1>3, <1>4, OneRunOrderly

\* The uploader is done, and nothing is left in the pipe: without a stop every
\* device has been tried.
LEMMA ChildEndedOrderly ==
  ASSUME RunsInvariant, NEW r \in Runs, ChildEnded(r) PROVE \A q \in Runs : Orderly(q)'
<1> USE DEF RunsInvariant, ToolbeltInvariant, TypeOK, files, process, queue
<1>1. /\ \/ loc' = [loc EXCEPT ![r] = Failing(r)]
         \/ loc' = [loc EXCEPT ![r] = Finishing(r, "stopped")]
         \/ /\ loc' = [loc EXCEPT ![r] = Finishing(r, "complete")]
            /\ child[r].pc = "done" /\ ~run[r].stop
      /\ loc[r].pc = "listen" /\ pipe[r] = <<>>
      /\ UNCHANGED <<run, folder, stopFile, early, child, pipe, audited>>
  <2>1. child[r].pc \in {"done", "dead"} /\ loc[r].pc = "listen" /\ pipe[r] = <<>>
    BY DEF ChildEnded, At
  <2>2. UNCHANGED <<run, folder, stopFile, early, child, pipe, audited>>
    BY DEF ChildEnded
  <2>3. CASE child[r].pc = "dead"
    BY <2>1, <2>2, <2>3 DEF ChildEnded
  <2>4. CASE child[r].pc = "done" /\ run[r].stop
    BY <2>1, <2>2, <2>4 DEF ChildEnded
  <2>5. CASE child[r].pc = "done" /\ ~run[r].stop
    BY <2>1, <2>2, <2>5 DEF ChildEnded
  <2> QED
    BY <2>1, <2>3, <2>4, <2>5 DEF Run
<1>2. /\ loc'[r].pc \in {"fail", "finish"}
      /\ loc'[r].ending = "complete" => child[r].pc = "done" /\ ~run[r].stop
  <2>1. loc \in [Runs -> Local]
    OBVIOUS
  <2> QED
    BY ONLY <1>1, <2>1, r \in Runs DEF Failing, Finishing, Idle
<1>3. child[r].pc = "done" /\ ~run[r].stop => AllTried(r)'
  <2>1. SUFFICES ASSUME child[r].pc = "done", ~run[r].stop, NEW d \in TargetsOf(r)
                 PROVE  run[r].dev[d] \in {"ok", "failed"}
    BY <1>1 DEF AllTried, TargetsOf
  <2>2. OnItsWay(r, d)
    BY <1>1, <2>1 DEF Orderly, Trying
  <2>3. Len(pipe[r]) = 0
    BY <1>1
  <2> QED
    BY <2>1, <2>2, <2>3 DEF OnItsWay
<1>4. Orderly(r)'
  BY <1>1, <1>2, <1>3, ThreadOrderly DEF FilesOf, Live, Going, Ending, Audited
<1>5. Apart(r)
  BY <1>1 DEF Apart, OnlyRun, FilesOf, AuditOf
<1> QED
  BY <1>4, <1>5, OneRunOrderly

\* A device of a run that failed is marked.
LEMMA MarkFailedOrderly ==
  ASSUME RunsInvariant, NEW r \in Runs, MarkFailed(r) PROVE \A q \in Runs : Orderly(q)'
<1> USE DEF RunsInvariant, ToolbeltInvariant, TypeOK, files, process, queue
<1>1. /\ \E d : /\ run' = run \/ run' = [run EXCEPT ![r] = [run[r] EXCEPT !.dev[d] = "failed"]]
                /\ \/ loc' = [loc EXCEPT ![r] = [loc[r] EXCEPT !.todo = loc[r].todo \ {d}]]
                   \/ loc' = [loc EXCEPT ![r] = [loc[r] EXCEPT !.pc = "fail_save", !.doc = results,
                               !.device = d, !.result = "failed", !.todo = loc[r].todo \ {d}]]
      /\ loc[r].pc = "fail"
      /\ UNCHANGED <<folder, stopFile, early, child, pipe, audited>>
  BY DEF MarkFailed, At
<1>2. loc'[r].pc \in {"fail", "fail_save"}
  <2>1. loc[r] \in Local
    OBVIOUS
  <2>2. \E d : \/ loc'[r] = [loc[r] EXCEPT !.todo = loc[r].todo \ {d}]
               \/ loc'[r] = [loc[r] EXCEPT !.pc = "fail_save", !.doc = results,
                               !.device = d, !.result = "failed", !.todo = loc[r].todo \ {d}]
    BY <1>1
  <2> QED
    BY ONLY <1>1, <2>1, <2>2 DEF Local
<1>3. run'[r].status = run[r].status /\ run'[r].stop = run[r].stop
  BY <1>1 DEF Run
<1>4. Orderly(r)'
  BY <1>1, <1>2, <1>3, ThreadOrderly DEF FilesOf, Live, Going, Ending, Audited
<1>5. Apart(r)
  BY <1>1 DEF Apart, OnlyRun, FilesOf, AuditOf
<1> QED
  BY <1>4, <1>5, OneRunOrderly

\* The results of a run are what its targets and devices say.
LEMMA OutcomesStay ==
  ASSUME NEW r \in Runs, run'[r].target = run[r].target, run'[r].dev = run[r].dev
  PROVE  Outcomes(r)' = Outcomes(r)
BY DEF Outcomes, TargetsOf

\* The results go to Audit, and only then may rows be hidden.
LEMMA FinishOrderly ==
  ASSUME RunsInvariant, NEW r \in Runs,
         AuditResults(r) \/ HideSuccessful(r) \/ RecordRun(r) \/ FinishFails(r)
  PROVE  \A q \in Runs : Orderly(q)'
<1> USE DEF RunsInvariant, ToolbeltInvariant, TypeOK, files, process, queue
<1>1. /\ \/ \E to \in {"hide", "record", "close"} :
               /\ loc' = [loc EXCEPT ![r] = [loc[r] EXCEPT !.pc = to]]
               /\ to = "hide" => Outcomes(r) \subseteq audited'
         \/ loc' = [loc EXCEPT ![r] = [loc[r] EXCEPT !.pc = "close", !.ending = "failed"]]
      /\ loc[r].pc \in {"finish", "hide", "record"}
      /\ UNCHANGED <<run, folder, stopFile, early, child, pipe>>
      /\ audited \subseteq audited'
  <2>1. CASE AuditResults(r)
    BY <2>1 DEF AuditResults, At, Goto
  <2>2. CASE HideSuccessful(r) \/ RecordRun(r)
    BY <2>2 DEF HideSuccessful, RecordRun, At, Goto
  <2>3. CASE FinishFails(r)
    BY <2>3 DEF FinishFails, At
  <2> QED
    BY <2>1, <2>2, <2>3
<1>2. /\ loc'[r].pc \in {"hide", "record", "close"}
      /\ loc'[r].ending = "complete" => loc[r].ending = "complete"
      /\ loc'[r].pc = "hide" => Outcomes(r) \subseteq audited'
  <2>1. loc[r] \in Local
    OBVIOUS
  <2>2. \/ \E to \in {"hide", "record", "close"} :
               /\ loc'[r] = [loc[r] EXCEPT !.pc = to]
               /\ to = "hide" => Outcomes(r) \subseteq audited'
        \/ loc'[r] = [loc[r] EXCEPT !.pc = "close", !.ending = "failed"]
    BY <1>1
  <2> QED
    BY ONLY <2>1, <2>2 DEF Local
<1>3. Audited(r)'
  <2>1. Outcomes(r)' = Outcomes(r)
    BY <1>1, OutcomesStay
  <2> QED
    BY <1>2, <2>1 DEF Audited
<1>4. loc'[r].pc \in Ending /\ loc'[r].ending = "complete" => AllTried(r)'
  BY <1>1, <1>2 DEF Orderly, Trying, Ending, AllTried, TargetsOf
<1>5. Orderly(r)'
  BY <1>1, <1>2, <1>3, <1>4, ThreadOrderly DEF FilesOf, Live, Going
<1>6. Apart(r)
  BY <1>1 DEF Apart, OnlyRun, FilesOf, AuditOf
<1> QED
  BY <1>5, <1>6, OneRunOrderly

\* The run is shown as ended, as it has ended; or its thread dies.
LEMMA CloseOrderly ==
  ASSUME RunsInvariant, NEW r \in Runs, Close(r) \/ ThreadDies(r)
  PROVE  \A q \in Runs : Orderly(q)'
<1> USE DEF RunsInvariant, ToolbeltInvariant, TypeOK, files, process, queue
<1>1. /\ \/ /\ run' = [run EXCEPT ![r] = [run[r] EXCEPT !.status = loc[r].ending]]
            /\ loc[r].pc = "close"
         \/ run' = run /\ loc[r].pc = "fail_save"
      /\ loc' = [loc EXCEPT ![r] = [Idle EXCEPT !.pc = "remove_folder"]]
      /\ UNCHANGED <<folder, stopFile, early, child, pipe, audited>>
  BY DEF Close, ThreadDies, At
<1>2. /\ loc'[r].pc = "remove_folder"
      /\ run'[r].stop = run[r].stop /\ run'[r].target = run[r].target /\ run'[r].dev = run[r].dev
  BY <1>1 DEF Idle, Run
<1>3. run'[r].status = "complete" => AllTried(r)
  <2>1. CASE loc[r].pc = "close" /\ run' = [run EXCEPT ![r] = [run[r] EXCEPT !.status = loc[r].ending]]
    <3>1. run'[r].status = loc[r].ending
      BY <2>1 DEF Run
    <3> QED
      BY <2>1, <3>1 DEF Orderly, Trying, Ending
  <2>2. CASE run' = run
    BY <2>2 DEF Orderly, Trying
  <2> QED
    BY <1>1, <2>1, <2>2
<1>4. AllTried(r)' = AllTried(r)
  BY <1>2 DEF AllTried, TargetsOf
<1>5. Orderly(r)'
  <2>1. Lifecycle(r)'
    BY <1>1, <1>2 DEF Orderly, Lifecycle, Choosing, Going
  <2>2. Stopping(r)'
    BY <1>1, <1>2 DEF Orderly, Stopping
  <2>3. Trying(r)' /\ Audited(r)'
    BY <1>2, <1>3, <1>4 DEF Trying, Audited, Ending
  <2> QED
    BY <2>1, <2>2, <2>3 DEF Orderly
<1>6. Apart(r)
  BY <1>1 DEF Apart, OnlyRun, FilesOf, AuditOf
<1> QED
  BY <1>5, <1>6, OneRunOrderly

-----------------------------------------------------------------------------
(* The uploader.                                                           *)

\* A step of the uploader that loses no device, and cancels one only when stopped.
LEMMA ChildOrderly ==
  ASSUME RunsInvariant, NEW r \in Runs,
         UNCHANGED <<run, loc, folder, stopFile, early, audited>>,
         \A q \in Runs \ {r} : child'[q] = child[q] /\ pipe'[q] = pipe[q],
         \A i \in 1..Len(pipe'[r]) : pipe'[r][i].result = "cancelled" => run[r].stop,
         run[r].stop \/ \A d \in TargetsOf(r) : OnItsWay(r, d) => OnItsWay(r, d)'
  PROVE  \A q \in Runs : Orderly(q)'
<1>1. Lifecycle(r)' /\ Stopping(r)'
  BY DEF RunsInvariant, Orderly, Lifecycle, Stopping
<1>2. TargetsOf(r)' = TargetsOf(r) /\ AllTried(r)' = AllTried(r) /\ Outcomes(r)' = Outcomes(r)
  BY DEF TargetsOf, AllTried, Outcomes
<1>3. Trying(r)'
  BY <1>2 DEF RunsInvariant, Orderly, Trying
<1>4. Audited(r)'
  BY <1>2 DEF RunsInvariant, Orderly, Audited
<1>5. Apart(r)
  BY DEF Apart, OnlyRun, FilesOf, AuditOf
<1> QED
  BY <1>1, <1>3, <1>4, <1>5, OneRunOrderly DEF Orderly

\* The uploader takes a device, finds none left, or ends.
LEMMA ChildTurnsOrderly ==
  ASSUME RunsInvariant, NEW r \in Runs,
         BeginDevice(r) \/ ChildDone(r) \/ ChildUnheard(r) \/ ChildDies(r)
  PROVE  \A q \in Runs : Orderly(q)'
<1> USE DEF RunsInvariant, ToolbeltInvariant, TypeOK, files, process, queue
<1>1. /\ UNCHANGED <<run, loc, folder, stopFile, early, audited, pipe>>
      /\ \/ \E d \in child[r].todo : child' = [child EXCEPT ![r] =
              [child[r] EXCEPT !.pc = "device", !.device = d, !.todo = child[r].todo \ {d}]]
            /\ child[r].pc = "check"
         \/ child' = [child EXCEPT ![r] = [NoChild EXCEPT !.pc = "done"]]
            /\ child[r].pc = "check" /\ child[r].todo = {}
         \/ child' = [child EXCEPT ![r] = [NoChild EXCEPT !.pc = "dead"]]
  BY DEF BeginDevice, ChildDone, ChildUnheard, ChildDies, ChildEnds
<1>2. ASSUME NEW d \in TargetsOf(r), OnItsWay(r, d) PROVE OnItsWay(r, d)'
  <2>1. child[r] \in Child
    OBVIOUS
  <2>2. \/ \E e \in child[r].todo : /\ child'[r].pc = "device" /\ child'[r].device = e
                                    /\ child'[r].todo = child[r].todo \ {e}
                                    /\ child[r].pc = "check"
        \/ child[r].pc = "check" /\ child[r].todo = {}
        \/ child'[r].pc = "dead"
    <3>1. CASE child' = [child EXCEPT ![r] = [NoChild EXCEPT !.pc = "dead"]]
      BY <3>1 DEF NoChild
    <3>2. ASSUME NEW e \in child[r].todo, child[r].pc = "check",
                 child' = [child EXCEPT ![r] =
                    [child[r] EXCEPT !.pc = "device", !.device = e, !.todo = child[r].todo \ {e}]]
          PROVE  /\ child'[r].pc = "device" /\ child'[r].device = e
                 /\ child'[r].todo = child[r].todo \ {e}
      <4>1. child'[r] = [child[r] EXCEPT !.pc = "device", !.device = e, !.todo = child[r].todo \ {e}]
        BY <3>2
      <4> QED
        BY ONLY <2>1, <4>1 DEF Child
    <3> QED
      BY <1>1, <3>1, <3>2
  <2>3. run' = run /\ pipe' = pipe
    BY <1>1
  <2> QED
    BY ONLY <1>2, <2>2, <2>3 DEF OnItsWay
<1>3. \A q \in Runs \ {r} : child'[q] = child[q]
  BY <1>1
<1> QED
  BY <1>1, <1>2, <1>3, ChildOrderly DEF Orderly, Stopping

\* The uploader finds the stop file: the run has been stopped.
LEMMA CancelOrderly ==
  ASSUME RunsInvariant, NEW r \in Runs, CancelDevice(r) PROVE \A q \in Runs : Orderly(q)'
<1> USE DEF RunsInvariant, ToolbeltInvariant, TypeOK, files, queue
<1>1. /\ UNCHANGED <<run, loc, folder, stopFile, early, audited>>
      /\ r \in stopFile /\ loc[r].pc # "ended"
      /\ \A q \in Runs \ {r} : child'[q] = child[q]
      /\ \A q \in Runs \ {r} : pipe'[q] = pipe[q]
  BY DEF CancelDevice, Heard, ChildEnds, Report
<1>2. run[r].stop
  BY <1>1 DEF Orderly, Stopping
<1> QED
  BY <1>1, <1>2, ChildOrderly

\* A device is done: it is reported, or nobody is there to hear of it.
LEMMA EndDeviceOrderly ==
  ASSUME RunsInvariant, NEW r \in Runs, EndDevice(r) PROVE \A q \in Runs : Orderly(q)'
<1> USE DEF RunsInvariant, ToolbeltInvariant, TypeOK, files, queue
<1>1. /\ UNCHANGED <<run, loc, folder, stopFile, early, audited>>
      /\ \/ /\ child' = [child EXCEPT ![r] = [child[r] EXCEPT !.pc = "check", !.device = NoDevice]]
            /\ \E result \in {"ok", "failed"} : pipe' = [pipe EXCEPT ![r] =
                 Append(pipe[r], [device |-> child[r].device, result |-> result])]
         \/ child' = [child EXCEPT ![r] = [NoChild EXCEPT !.pc = "dead"]] /\ UNCHANGED pipe
      /\ child[r].pc = "device"
  <2>1. UNCHANGED <<run, loc, folder, stopFile, early, audited>> /\ child[r].pc = "device"
    BY DEF EndDevice
  <2>2. CASE Heard(r)
    BY <2>1, <2>2 DEF EndDevice, Report
  <2>3. CASE ~Heard(r)
    BY <2>1, <2>3 DEF EndDevice, ChildEnds
  <2> QED
    BY <2>2, <2>3
<1>2. \A q \in Runs \ {r} : child'[q] = child[q] /\ pipe'[q] = pipe[q]
  BY <1>1
<1>3. CASE /\ child' = [child EXCEPT ![r] = [NoChild EXCEPT !.pc = "dead"]] /\ UNCHANGED pipe
  <2>1. child'[r].pc = "dead"
    BY <1>3 DEF NoChild
  <2> QED
    BY <1>1, <1>2, <1>3, <2>1, ChildOrderly DEF OnItsWay, Orderly, Stopping
<1>4. ASSUME child' = [child EXCEPT ![r] = [child[r] EXCEPT !.pc = "check", !.device = NoDevice]],
             NEW result \in {"ok", "failed"},
             pipe' = [pipe EXCEPT ![r] =
                 Append(pipe[r], [device |-> child[r].device, result |-> result])]
      PROVE  \A q \in Runs : Orderly(q)'
  <2> DEFINE e == [device |-> child[r].device, result |-> result]
  <2>1. /\ child[r] \in Child
        /\ child[r].device \in Devices
        /\ child'[r].pc = "check" /\ child'[r].todo = child[r].todo
    BY <1>1, <1>4 DEF Child, Sound, Supplied, HasPem
  <2>2. e \in Event /\ e.device = child[r].device /\ e.result \in {"ok", "failed"}
    BY ONLY <2>1, result \in {"ok", "failed"} DEF Event
  <2> HIDE DEF e
  <2>3. pipe[r] \in Seq(Event) /\ pipe'[r] = Append(pipe[r], e)
    BY <1>4 DEF e
  <2>4. /\ \A i \in 1..Len(pipe'[r]) :
              (i \in 1..Len(pipe[r]) /\ pipe'[r][i] = pipe[r][i]) \/ pipe'[r][i] = e
        /\ \A i \in 1..Len(pipe[r]) : i \in 1..Len(pipe'[r]) /\ pipe'[r][i] = pipe[r][i]
        /\ \E i \in 1..Len(pipe'[r]) : pipe'[r][i] = e
    <3>1. /\ Len(pipe'[r]) = Len(pipe[r]) + 1 /\ Len(pipe[r]) \in Nat
          /\ pipe'[r][Len(pipe[r]) + 1] = e
          /\ \A i \in 1..Len(pipe[r]) : pipe'[r][i] = pipe[r][i]
      BY ONLY <2>2, <2>3
    <3> QED
      BY ONLY <3>1
  <2>5. \A i \in 1..Len(pipe'[r]) : pipe'[r][i].result = "cancelled" => run[r].stop
    BY <2>2, <2>4 DEF Orderly, Stopping
  <2>6. ASSUME NEW d \in TargetsOf(r), OnItsWay(r, d) PROVE OnItsWay(r, d)'
    <3>1. run' = run /\ child[r].pc = "device"
      BY <1>1
    <3> QED
      BY ONLY <2>1, <2>2, <2>4, <2>6, <3>1 DEF OnItsWay
  <2> QED
    BY <1>1, <1>2, <2>5, <2>6, ChildOrderly
<1> QED
  BY <1>1, <1>3, <1>4

-----------------------------------------------------------------------------
(* A crash, the initial state, and the theorems.                           *)

\* A crash takes the runs; one that had a folder is over.
LEMMA CrashOrderly ==
  ASSUME RunsInvariant, Crash PROVE \A q \in Runs : Orderly(q)'
<1> SUFFICES ASSUME NEW q \in Runs PROVE Orderly(q)'
  OBVIOUS
<1> USE DEF RunsInvariant, ToolbeltInvariant, TypeOK
<1>1. /\ run'[q] = NoRun /\ pipe'[q] = <<>> /\ stopFile' = stopFile
      /\ folder'[q] = IF folder[q] = "made" THEN "kept" ELSE folder[q]
      /\ (loc[q] = Idle /\ loc'[q] = Idle) \/ loc'[q] = Ended
  BY DEF Crash
<1>2. /\ Idle.pc = "idle" /\ Ended.pc = "ended"
      /\ NoRun.status = "absent" /\ NoRun.stop = FALSE
  BY DEF Idle, Ended, NoRun
<1>3. Lifecycle(q)'
  <2>1. CASE loc[q] = Idle /\ loc'[q] = Idle
    BY <1>1, <1>2, <2>1 DEF Orderly, Lifecycle, Going, Choosing
  <2>2. CASE loc'[q] = Ended
    BY <1>1, <1>2, <2>2 DEF Orderly, Lifecycle, Going, Choosing
  <2> QED
    BY <1>1, <2>1, <2>2
<1>4. Stopping(q)'
  BY <1>1, <1>2 DEF Orderly, Lifecycle, Stopping
<1> QED
  BY <1>1, <1>2, <1>3, <1>4, NothingToTry DEF Ending

\* No run has been started.
LEMMA RunsInit == Init => RunsInvariant
<1> SUFFICES ASSUME Init PROVE RunsInvariant
  OBVIOUS
<1>1. ASSUME NEW r \in Runs PROVE Orderly(r)
  <2>1. loc[r].pc = "idle" /\ run[r].status = "absent" /\ run[r].stop = FALSE
        /\ folder[r] = "none" /\ stopFile = {} /\ pipe[r] = <<>>
    BY DEF Init, Idle, NoRun
  <2>2. Lifecycle(r) /\ Stopping(r)
    BY <2>1 DEF Lifecycle, Stopping, Going, Choosing
  <2>3. Trying(r) /\ Audited(r)
    BY <2>1 DEF Trying, Audited, Ending
  <2> QED
    BY <2>2, <2>3 DEF Orderly
<1> QED
  BY <1>1, ToolbeltInit DEF RunsInvariant

\* Every step of every actor keeps the runs in order.
LEMMA RunsStep == RunsInvariant /\ [Next]_vars => RunsInvariant'
<1> SUFFICES ASSUME RunsInvariant, [Next]_vars PROVE RunsInvariant'
  OBVIOUS
<1>1. ToolbeltInvariant'
  BY ToolbeltStep DEF RunsInvariant
<1>2. \A q \in Runs : Orderly(q)'
  <2>1. CASE UNCHANGED vars
    BY <2>1, OtherOrderly DEF RunsInvariant, vars, FilesOf, AuditOf
  <2>2. CASE Request
    BY <2>2, IssueOrderly, StartOrderly, StopOrderly DEF Request
  <2>3. ASSUME NEW r \in Runs, RunStep(r) PROVE \A q \in Runs : Orderly(q)'
    BY <2>3, ChoosingOrderly, OverOrderly, RegisterOrderly, MakeFolderOrderly, SpawnOrderly,
       HearOrderly, SaveOrderly, FailingOrderly, ChildEndedOrderly, MarkFailedOrderly,
       FinishOrderly, CloseOrderly DEF RunStep
  <2>4. ASSUME NEW r \in Runs, ChildStep(r) PROVE \A q \in Runs : Orderly(q)'
    BY <2>4, ChildTurnsOrderly, CancelOrderly, EndDeviceOrderly DEF ChildStep
  <2> QED
    BY <2>1, <2>2, <2>3, <2>4, CrashOrderly DEF Next
<1> QED
  BY <1>1, <1>2 DEF RunsInvariant

\* The runs, their uploaders and their folders are in order, with every fault.
THEOREM RunsInvariantHolds == Spec => []RunsInvariant
BY RunsInit, RunsStep, PTL DEF Spec

\* A run reported complete has tried every one of its devices, whatever stops,
\* deaths of the uploader and lost writes came before.
THEOREM CompleteWasTried == Spec => []CompleteMeansTried
<1>1. RunsInvariant => CompleteMeansTried
  BY DEF RunsInvariant, Orderly, Trying, AllTried, CompleteMeansTried
<1> QED
  BY <1>1, RunsInvariantHolds, PTL

\* The folder with the PEMs is given to rmtree before the thread of a run ends; it
\* outlives the run only when the server has stopped or a file was in use.
THEOREM FolderIsRemoved == Spec => []PemsRemoved
<1>1. RunsInvariant => PemsRemoved
  BY DEF RunsInvariant, Orderly, Lifecycle, PemsRemoved
<1> QED
  BY <1>1, RunsInvariantHolds, PTL

\* A step that hides rows is the one of HideSuccessful, and it hides what is in Audit.
LEMMA HidingStep ==
  ASSUME RunsInvariant, [Next]_vars
  PROVE  \A c \in completed' \ completed :
            \E r \in Runs : <<r, c, TRUE>> \in audited /\ Outcomes(r) \subseteq audited
<1> SUFFICES ASSUME NEW c \in completed', c \notin completed
             PROVE  \E r \in Runs : <<r, c, TRUE>> \in audited /\ Outcomes(r) \subseteq audited
  OBVIOUS
<1>1. \A r \in Runs : ChildStep(r) => completed' = completed
  BY DEF ChildStep, BeginDevice, EndDevice, CancelDevice, ChildDone, ChildUnheard, ChildDies, queue
<1>2. ~Request /\ ~Crash
  BY DEF Request, Issue, Start, Stop, Crash, queue
<1>3. completed' # completed
  OBVIOUS
<1>4. PICK r \in Runs : RunStep(r)
  BY <1>1, <1>2, <1>3 DEF Next, vars
<1>5. HideSuccessful(r)
  BY <1>3, <1>4 DEF RunStep, ReadStatuses, ClearStatuses, RefuseRun, Register, MakeFolder,
     SpawnUploader, Hear, SaveResult, SaveResultFails, ChildEnded, MarkFailed, AllMarked,
     ThreadDies, AuditResults, RecordRun, FinishFails, Close, RemoveFolder, queue
<1>6. PICK d \in TargetsOf(r) : run[r].dev[d] = "ok" /\ c = run[r].target[d]
  BY <1>5 DEF HideSuccessful
<1>7. Outcomes(r) \subseteq audited
  BY <1>5 DEF HideSuccessful, At, RunsInvariant, Orderly, Audited
<1>8. <<r, c, TRUE>> \in Outcomes(r)
  <2>1. <<r, run[r].target[d], run[r].dev[d] = "ok">> \in Outcomes(r)
    BY DEF Outcomes
  <2>2. (run[r].dev[d] = "ok") = TRUE
    BY <1>6
  <2> QED
    BY <1>6, <2>1, <2>2
<1> QED
  BY <1>7, <1>8

\* Rows are hidden only when their success and every other result of their run are
\* in Audit.
THEOREM HidingIsAudited == Spec => HiddenAfterAudit
<1>1. RunsInvariant /\ [Next]_vars =>
        [\A c \in completed' \ completed :
           \E r \in Runs : <<r, c, TRUE>> \in audited /\ Outcomes(r) \subseteq audited]_vars
  BY HidingStep
<1> QED
  BY <1>1, RunsInvariantHolds, PTL DEF Spec, HiddenAfterAudit

\* A step that begins a device is the one of BeginDevice, which finds no stop file.
LEMMA BeginningStep ==
  ASSUME RunsInvariant, [Next]_vars, NEW r \in Runs,
         child[r].pc = "check", child'[r].pc = "device"
  PROVE  ~run[r].stop \/ r \in early
<1> USE DEF RunsInvariant, ToolbeltInvariant, TypeOK, process
<1>1. child' # child
  OBVIOUS
<1>2. ~Request /\ ~Crash
  BY <1>1 DEF Request, Issue, Start, Stop, Crash
<1>3. ASSUME NEW q \in Runs, RunStep(q) PROVE FALSE
  <2>1. SpawnUploader(q)
    BY <1>1, <1>3 DEF RunStep, ReadStatuses, ClearStatuses, RefuseRun, Register, MakeFolder,
       Hear, SaveResult, SaveResultFails, ChildEnded, MarkFailed, AllMarked,
       ThreadDies, AuditResults, HideSuccessful, RecordRun, FinishFails, Close, RemoveFolder
  <2>2. child' = [child EXCEPT ![q] =
                 [NoChild EXCEPT !.pc = "check", !.pem = run[q].target, !.todo = TargetsOf(q)]]
    BY <1>1, <2>1 DEF SpawnUploader
  <2>3. child'[r].pc \in {"check", child[r].pc}
    BY <2>2 DEF NoChild
  <2> QED
    BY <2>3
<1>4. PICK q \in Runs : ChildStep(q)
  BY <1>1, <1>2, <1>3 DEF Next, vars
<1>5. q = r /\ BeginDevice(r)
  <2>1. ASSUME NEW how \in {"done", "dead"}, ChildEnds(q, how) PROVE FALSE
    BY <2>1 DEF ChildEnds, NoChild
  <2>2. ~EndDevice(q)
    BY <2>1 DEF EndDevice
  <2>3. BeginDevice(q)
    BY <1>4, <2>1, <2>2 DEF ChildStep, CancelDevice, ChildDone, ChildUnheard, ChildDies
  <2>4. q = r
    BY <2>3 DEF BeginDevice
  <2> QED
    BY <2>3, <2>4
<1> QED
  BY <1>5 DEF BeginDevice, Orderly, Stopping

\* Once a stop is accepted no device is begun, except by a run that was stopped
\* before it had its folder.
THEOREM StopsAreObeyed == Spec => StopObeyed
<1>1. RunsInvariant /\ [Next]_vars =>
        [\A r \in Runs : child[r].pc = "check" /\ child'[r].pc = "device" =>
           ~run[r].stop \/ r \in early]_vars
  BY BeginningStep
<1> QED
  BY <1>1, RunsInvariantHolds, PTL DEF Spec, StopObeyed

-----------------------------------------------------------------------------
(* Every run comes to an end.                                              *)

\* How many more steps the thread of a run takes at most, by where it is.
ThreadLeft(l) ==
  CASE l.pc = "remove_folder" -> 1
    [] l.pc = "close" -> 2
    [] l.pc = "record" -> 3
    [] l.pc = "hide" -> 4
    [] l.pc = "finish" -> 5
    [] l.pc = "fail" -> 6 + 2 * Cardinality(l.todo)
    [] l.pc = "fail_save" -> 7 + 2 * Cardinality(l.todo)
    [] l.pc = "listen" -> 7 + 2 * Cardinality(Devices)
    [] l.pc = "save" -> 8 + 2 * Cardinality(Devices)
    [] l.pc = "stage" -> 9 + 7 * Cardinality(Devices)
    [] l.pc = "prepare" -> 10 + 7 * Cardinality(Devices)
    [] l.pc = "decide" -> 11 + 7 * Cardinality(Devices)
    [] l.pc = "clear_write" -> 12 + 7 * Cardinality(Devices)
    [] l.pc = "clear" -> 13 + 7 * Cardinality(Devices)
    [] OTHER -> 0

\* The same for its uploader; a report counts for what the thread does with it.
ChildLeft(c) ==
  CASE c.pc = "check" -> 1 + 5 * Cardinality(c.todo)
    [] c.pc = "device" -> 5 + 5 * Cardinality(c.todo)
    [] OTHER -> 0

\* What a run has still to do.
StepsLeft(r) == ThreadLeft(loc[r]) + ChildLeft(child[r]) + 3 * Len(pipe[r])

\* The devices of a run are finitely many, and fewer when one is taken away.
LEMMA DeviceCount ==
  ASSUME IsFiniteSet(Devices)
  PROVE  /\ Cardinality(Devices) \in Nat
         /\ \A S \in SUBSET Devices :
              /\ Cardinality(S) \in Nat /\ Cardinality(S) <= Cardinality(Devices)
              /\ \A d \in S : Cardinality(S \ {d}) + 1 = Cardinality(S)
<1>1. Cardinality(Devices) \in Nat
  BY FS_CardinalityType
<1>2. ASSUME NEW S \in SUBSET Devices
      PROVE  /\ Cardinality(S) \in Nat /\ Cardinality(S) <= Cardinality(Devices)
             /\ \A d \in S : Cardinality(S \ {d}) + 1 = Cardinality(S)
  <2>1. IsFiniteSet(S) /\ Cardinality(S) <= Cardinality(Devices)
    BY FS_Subset
  <2>2. Cardinality(S) \in Nat
    BY <2>1, FS_CardinalityType
  <2>3. ASSUME NEW d \in S PROVE Cardinality(S \ {d}) + 1 = Cardinality(S)
    <3>1. Cardinality(S \ {d}) = Cardinality(S) - 1
      BY <2>1, FS_RemoveElement
    <3> QED
      BY <2>2, <3>1
  <2> QED
    BY <2>1, <2>2, <2>3
<1> QED
  BY <1>1, <1>2

\* The steps left at each label of the thread.
LEMMA ThreadDistances ==
  ASSUME NEW l, NEW N, N = Cardinality(Devices)
  PROVE  /\ l.pc = "remove_folder" => ThreadLeft(l) = 1
         /\ l.pc = "close" => ThreadLeft(l) = 2
         /\ l.pc = "record" => ThreadLeft(l) = 3
         /\ l.pc = "hide" => ThreadLeft(l) = 4
         /\ l.pc = "finish" => ThreadLeft(l) = 5
         /\ l.pc = "fail" => ThreadLeft(l) = 6 + 2 * Cardinality(l.todo)
         /\ l.pc = "fail_save" => ThreadLeft(l) = 7 + 2 * Cardinality(l.todo)
         /\ l.pc = "listen" => ThreadLeft(l) = 7 + 2 * N
         /\ l.pc = "save" => ThreadLeft(l) = 8 + 2 * N
         /\ l.pc = "stage" => ThreadLeft(l) = 9 + 7 * N
         /\ l.pc = "prepare" => ThreadLeft(l) = 10 + 7 * N
         /\ l.pc = "decide" => ThreadLeft(l) = 11 + 7 * N
         /\ l.pc = "clear_write" => ThreadLeft(l) = 12 + 7 * N
         /\ l.pc = "clear" => ThreadLeft(l) = 13 + 7 * N
         /\ l.pc = "idle" \/ l.pc = "ended" => ThreadLeft(l) = 0
BY DEF ThreadLeft

\* The steps left at each label of the uploader.
LEMMA ChildDistances ==
  ASSUME NEW c
  PROVE  /\ c.pc = "check" => ChildLeft(c) = 1 + 5 * Cardinality(c.todo)
         /\ c.pc = "device" => ChildLeft(c) = 5 + 5 * Cardinality(c.todo)
         /\ c.pc \in {"none", "done", "dead"} => ChildLeft(c) = 0
BY DEF ChildLeft

\* They are a natural number, which is 0 only where the thread is over.
LEMMA ThreadLeftNat ==
  ASSUME IsFiniteSet(Devices), NEW l \in Local
  PROVE  ThreadLeft(l) \in Nat /\ (ThreadLeft(l) = 0 <=> l.pc \in {"idle", "ended"})
<1>1. Cardinality(l.todo) \in Nat /\ Cardinality(Devices) \in Nat
  BY DeviceCount DEF Local
<1>2. l.pc \in {"idle", "ended"} \cup Choosing \cup Going
  BY DEF Local
<1> QED
  BY <1>1, <1>2, ThreadDistances DEF Choosing, Going

\* So they are for the uploader.
LEMMA ChildLeftNat ==
  ASSUME IsFiniteSet(Devices), NEW c \in Child
  PROVE  ChildLeft(c) \in Nat /\ (ChildLeft(c) = 0 <=> c.pc \in {"none", "done", "dead"})
<1>1. Cardinality(c.todo) \in Nat
  BY DeviceCount DEF Child
<1>2. c.pc \in {"none", "check", "device", "done", "dead"}
  BY DEF Child
<1> QED
  BY <1>1, <1>2, ChildDistances

\* The steps left are a natural number, which is 0 only where everything is over.
LEMMA StepsLeftNat ==
  ASSUME IsFiniteSet(Devices), TypeOK, NEW r \in Runs
  PROVE  /\ ThreadLeft(loc[r]) \in Nat /\ ChildLeft(child[r]) \in Nat
         /\ Len(pipe[r]) \in Nat /\ StepsLeft(r) \in Nat
         /\ StepsLeft(r) = 0 <=> /\ loc[r].pc \in {"idle", "ended"} /\ pipe[r] = <<>>
                                 /\ child[r].pc \in {"none", "done", "dead"}
<1>1. loc[r] \in Local /\ child[r] \in Child /\ pipe[r] \in Seq(Event)
  BY DEF TypeOK
<1>2. Len(pipe[r]) \in Nat /\ (Len(pipe[r]) = 0 <=> pipe[r] = <<>>)
  BY <1>1
<1>3. ThreadLeft(loc[r]) \in Nat /\ (ThreadLeft(loc[r]) = 0 <=> loc[r].pc \in {"idle", "ended"})
  BY <1>1, ThreadLeftNat
<1>4. ChildLeft(child[r]) \in Nat
      /\ (ChildLeft(child[r]) = 0 <=> child[r].pc \in {"none", "done", "dead"})
  BY <1>1, ChildLeftNat
<1>5. StepsLeft(r) = ThreadLeft(loc[r]) + ChildLeft(child[r]) + 3 * Len(pipe[r])
  BY DEF StepsLeft
<1>6. StepsLeft(r) \in Nat
  BY ONLY <1>2, <1>3, <1>4, <1>5
<1>7. StepsLeft(r) = 0 <=> ThreadLeft(loc[r]) = 0 /\ ChildLeft(child[r]) = 0 /\ Len(pipe[r]) = 0
  BY ONLY <1>2, <1>3, <1>4, <1>5
<1> QED
  BY ONLY <1>2, <1>3, <1>4, <1>6, <1>7


\* The same after a step.
LEMMA StepsLeftPrimed ==
  ASSUME IsFiniteSet(Devices), TypeOK', NEW r \in Runs
  PROVE  /\ ThreadLeft(loc'[r]) \in Nat /\ ChildLeft(child'[r]) \in Nat
         /\ Len(pipe'[r]) \in Nat
<1>1. loc'[r] \in Local /\ child'[r] \in Child /\ pipe'[r] \in Seq(Event)
  BY DEF TypeOK
<1> QED
  BY <1>1, ThreadLeftNat, ChildLeftNat

\* A run gets nearer to its end.
Nearer(r) == StepsLeft(r)' < StepsLeft(r)

\* The thread of a run gets on, and its uploader and its pipe are left alone.
LEMMA ThreadNearer ==
  ASSUME IsFiniteSet(Devices), TypeOK, TypeOK', NEW r \in Runs,
         child'[r] = child[r], pipe'[r] = pipe[r],
         ThreadLeft(loc'[r]) < ThreadLeft(loc[r])
  PROVE  Nearer(r)
<1>1. /\ ThreadLeft(loc[r]) \in Nat /\ ChildLeft(child[r]) \in Nat /\ Len(pipe[r]) \in Nat
      /\ ThreadLeft(loc'[r]) \in Nat
  BY StepsLeftNat, StepsLeftPrimed
<1>2. StepsLeft(r)' = ThreadLeft(loc'[r]) + ChildLeft(child[r]) + 3 * Len(pipe[r])
  BY DEF StepsLeft
<1>3. StepsLeft(r) = ThreadLeft(loc[r]) + ChildLeft(child[r]) + 3 * Len(pipe[r])
  BY DEF StepsLeft
<1>4. ThreadLeft(loc'[r]) < ThreadLeft(loc[r])
  OBVIOUS
<1> QED
  BY ONLY <1>1, <1>2, <1>3, <1>4 DEF Nearer

\* The labels that follow one another when the thread only goes on.
Follows(a, b) ==
    \/ a = "clear" /\ b \in {"clear_write", "decide"}
    \/ a = "clear_write" /\ b = "decide"
    \/ a = "decide" /\ b \in {"prepare", "ended"}
    \/ a = "prepare" /\ b = "stage"
    \/ a = "save" /\ b = "listen"
    \/ a = "listen" /\ b = "finish"
    \/ a = "fail" /\ b = "finish"
    \/ a = "fail_save" /\ b = "remove_folder"
    \/ a = "finish" /\ b \in {"hide", "record", "close"}
    \/ a = "hide" /\ b \in {"record", "close"}
    \/ a = "record" /\ b = "close"
    \/ a = "close" /\ b = "remove_folder"

\* Going on from a label to the next one brings the thread nearer to its end.
LEMMA FollowsNearer ==
  ASSUME IsFiniteSet(Devices), TypeOK, TypeOK', NEW r \in Runs,
         child'[r] = child[r], pipe'[r] = pipe[r], Follows(loc[r].pc, loc'[r].pc)
  PROVE  Nearer(r)
<1>1. PICK N : N = Cardinality(Devices)
  OBVIOUS
<1>2. N \in Nat
  BY <1>1, DeviceCount
<1>3. Cardinality(loc[r].todo) \in Nat
  BY DeviceCount DEF TypeOK, Local
<1>4. ThreadLeft(loc'[r]) < ThreadLeft(loc[r])
  BY <1>1, <1>2, <1>3, ThreadDistances DEF Follows
<1> QED
  BY <1>4, ThreadNearer

\* The label a record of a thread has when it is set.
LEMMA LabelSet ==
  ASSUME NEW x \in Local
  PROVE  /\ \A pc \in STRING : [x EXCEPT !.pc = pc].pc = pc
         /\ \A pc, doc : [x EXCEPT !.pc = pc, !.doc = doc].pc = pc
         /\ \A pc, ending : [x EXCEPT !.pc = pc, !.ending = ending].pc = pc
BY DEF Local

\* Starting up and getting ready for the uploader.
LEMMA GettingReady ==
  ASSUME IsFiniteSet(Devices), TypeOK, TypeOK', NEW r \in Runs,
         ReadStatuses(r) \/ ClearStatuses(r) \/ RefuseRun(r) \/ Register(r) \/ MakeFolder(r)
  PROVE  Nearer(r)
<1>1. loc[r] \in Local /\ loc \in [Runs -> Local]
  BY DEF TypeOK
<1>2. child' = child /\ pipe' = pipe
  BY DEF ReadStatuses, ClearStatuses, RefuseRun, Register, MakeFolder, process
<1>3. CASE ReadStatuses(r)
  <2>1. loc[r].pc = "clear" /\ loc'[r].pc \in {"clear_write", "decide"}
    BY <1>1, <1>3, LabelSet DEF ReadStatuses, At
  <2> QED
    BY <1>2, <2>1, FollowsNearer DEF Follows
<1>4. CASE ClearStatuses(r)
  <2>1. loc[r].pc = "clear_write" /\ loc'[r].pc = "decide"
    BY <1>1, <1>4, LabelSet DEF ClearStatuses, At
  <2> QED
    BY <1>2, <2>1, FollowsNearer DEF Follows
<1>5. CASE RefuseRun(r)
  <2>1. loc[r].pc = "decide" /\ loc'[r].pc = "ended"
    BY <1>1, <1>5 DEF RefuseRun, At, Ended, Idle
  <2> QED
    BY <1>2, <2>1, FollowsNearer DEF Follows
<1>6. CASE Register(r)
  <2>1. loc[r].pc = "decide" /\ loc'[r].pc = "prepare"
    BY <1>1, <1>6 DEF Register, At, Idle
  <2> QED
    BY <1>2, <2>1, FollowsNearer DEF Follows
<1>7. CASE MakeFolder(r)
  <2>1. loc[r].pc = "prepare" /\ loc'[r].pc = "stage"
    BY <1>1, <1>7 DEF MakeFolder, At, Goto, Local
  <2> QED
    BY <1>2, <2>1, FollowsNearer DEF Follows
<1> QED
  BY <1>3, <1>4, <1>5, <1>6, <1>7

\* The end of the thread after the uploader's.
LEMMA GettingDone ==
  ASSUME IsFiniteSet(Devices), TypeOK, TypeOK', NEW r \in Runs,
         AllMarked(r) \/ ThreadDies(r) \/ AuditResults(r) \/ HideSuccessful(r) \/ RecordRun(r)
           \/ FinishFails(r) \/ Close(r)
  PROVE  Nearer(r)
<1>1. loc[r] \in Local /\ loc \in [Runs -> Local]
  BY DEF TypeOK
<1>2. child' = child /\ pipe' = pipe
  BY DEF AllMarked, ThreadDies, AuditResults, HideSuccessful, RecordRun, FinishFails, Close, process
<1>3. CASE AllMarked(r)
  <2>1. loc[r].pc = "fail" /\ loc'[r].pc = "finish"
    BY <1>1, <1>3 DEF AllMarked, At, Finishing, Idle
  <2> QED
    BY <1>2, <2>1, FollowsNearer DEF Follows
<1>4. CASE ThreadDies(r)
  <2>1. loc[r].pc = "fail_save" /\ loc'[r].pc = "remove_folder"
    BY <1>1, <1>4 DEF ThreadDies, At, Idle
  <2> QED
    BY <1>2, <2>1, FollowsNearer DEF Follows
<1>5. CASE AuditResults(r)
  <2>1. loc[r].pc = "finish"
        /\ \E pc \in {"hide", "record", "close"} : loc' = [loc EXCEPT ![r].pc = pc]
    BY <1>5 DEF AuditResults, At, Goto
  <2>2. loc'[r].pc \in {"hide", "record", "close"}
    BY <1>1, <2>1 DEF Local
  <2> QED
    BY <1>2, <2>1, <2>2, FollowsNearer DEF Follows
<1>6. CASE HideSuccessful(r)
  <2>1. loc[r].pc = "hide" /\ loc'[r].pc = "record"
    BY <1>1, <1>6 DEF HideSuccessful, At, Goto, Local
  <2> QED
    BY <1>2, <2>1, FollowsNearer DEF Follows
<1>7. CASE RecordRun(r)
  <2>1. loc[r].pc = "record" /\ loc'[r].pc = "close"
    BY <1>1, <1>7 DEF RecordRun, At, Goto, Local
  <2> QED
    BY <1>2, <2>1, FollowsNearer DEF Follows
<1>8. CASE FinishFails(r)
  <2>1. loc[r].pc \in {"finish", "hide", "record"} /\ loc'[r].pc = "close"
    BY <1>1, <1>8, LabelSet DEF FinishFails
  <2> QED
    BY <1>2, <2>1, FollowsNearer DEF Follows
<1>9. CASE Close(r)
  <2>1. loc[r].pc = "close" /\ loc'[r].pc = "remove_folder"
    BY <1>1, <1>9 DEF Close, At, Idle
  <2> QED
    BY <1>2, <2>1, FollowsNearer DEF Follows
<1> QED
  BY <1>3, <1>4, <1>5, <1>6, <1>7, <1>8, <1>9

\* The devices that have not succeeded are marked, one by one.
LEMMA MarkNearer ==
  ASSUME IsFiniteSet(Devices), TypeOK, TypeOK', NEW r \in Runs, MarkFailed(r)
  PROVE  Nearer(r)
<1>1. loc[r] \in Local /\ loc \in [Runs -> Local] /\ loc[r].pc = "fail"
  BY DEF TypeOK, MarkFailed, At
<1>2. PICK d \in loc[r].todo :
        \/ loc' = [loc EXCEPT ![r].todo = loc[r].todo \ {d}]
        \/ loc' = [loc EXCEPT ![r] = [@ EXCEPT !.pc = "fail_save", !.doc = results,
                              !.device = d, !.result = "failed", !.todo = loc[r].todo \ {d}]]
  BY DEF MarkFailed
<1>3. /\ loc'[r].todo = loc[r].todo \ {d}
      /\ loc'[r].pc = "fail" \/ loc'[r].pc = "fail_save"
  <2>1. \/ loc'[r] = [loc[r] EXCEPT !.todo = loc[r].todo \ {d}]
        \/ loc'[r] = [loc[r] EXCEPT !.pc = "fail_save", !.doc = results,
                              !.device = d, !.result = "failed", !.todo = loc[r].todo \ {d}]
    BY <1>1, <1>2
  <2>2. CASE loc'[r] = [loc[r] EXCEPT !.todo = loc[r].todo \ {d}]
    BY ONLY <1>1, <2>2 DEF Local
  <2>3. CASE loc'[r] = [loc[r] EXCEPT !.pc = "fail_save", !.doc = results,
                              !.device = d, !.result = "failed", !.todo = loc[r].todo \ {d}]
    BY ONLY <1>1, <2>3 DEF Local
  <2> QED
    BY <2>1, <2>2, <2>3
<1>4. /\ Cardinality(loc[r].todo) \in Nat /\ Cardinality(loc[r].todo \ {d}) \in Nat
      /\ Cardinality(loc[r].todo \ {d}) + 1 = Cardinality(loc[r].todo)
  <2>1. loc[r].todo \in SUBSET Devices /\ loc[r].todo \ {d} \in SUBSET Devices
    BY <1>1 DEF Local
  <2> QED
    BY <2>1, DeviceCount
<1>5. ThreadLeft(loc[r]) = 6 + 2 * Cardinality(loc[r].todo)
  BY <1>1, ThreadDistances
<1>6. \/ ThreadLeft(loc'[r]) = 6 + 2 * Cardinality(loc[r].todo \ {d})
      \/ ThreadLeft(loc'[r]) = 7 + 2 * Cardinality(loc[r].todo \ {d})
  BY <1>3, ThreadDistances
<1>7. ThreadLeft(loc'[r]) < ThreadLeft(loc[r])
  BY <1>4, <1>5, <1>6
<1> QED
  BY <1>7, ThreadNearer DEF MarkFailed, process

\* A thread that gives up has at most the devices of its run to mark.
LEMMA FailingLeft ==
  ASSUME IsFiniteSet(Devices), NEW r \in Runs
  PROVE  /\ ThreadLeft(Failing(r)) \in Nat
         /\ ThreadLeft(Failing(r)) <= 6 + 2 * Cardinality(Devices)
<1>1. Cardinality(TargetsOf(r)) \in Nat /\ Cardinality(TargetsOf(r)) <= Cardinality(Devices)
      /\ Cardinality(Devices) \in Nat
  BY DeviceCount DEF TargetsOf
<1>2. Failing(r).pc = "fail" /\ Failing(r).todo = TargetsOf(r)
  BY DEF Failing, Idle
<1>3. ThreadLeft(Failing(r)) = 6 + 2 * Cardinality(TargetsOf(r))
  BY <1>2, ThreadDistances
<1> QED
  BY <1>1, <1>3

\* A result is in the document, or cannot be written.
LEMMA SavingNearer ==
  ASSUME IsFiniteSet(Devices), TypeOK, TypeOK', NEW r \in Runs,
         SaveResult(r, "save", "listen") \/ SaveResult(r, "fail_save", "fail") \/ SaveResultFails(r)
  PROVE  Nearer(r)
<1>1. loc[r] \in Local /\ loc \in [Runs -> Local]
  BY DEF TypeOK
<1>2. child' = child /\ pipe' = pipe
  BY DEF SaveResult, SaveResultFails, process
<1>3. CASE SaveResult(r, "save", "listen")
  <2>1. loc[r].pc = "save" /\ loc'[r].pc = "listen"
    BY <1>1, <1>3, LabelSet DEF SaveResult, At
  <2> QED
    BY <1>2, <2>1, FollowsNearer DEF Follows
<1>4. CASE SaveResult(r, "fail_save", "fail")
  <2>1. loc[r].pc = "fail_save" /\ loc'[r].pc = "fail"
    BY <1>1, <1>4, LabelSet DEF SaveResult, At
  <2>2. loc'[r].todo = loc[r].todo
    BY <1>1, <1>4 DEF SaveResult, Local
  <2>3. Cardinality(loc[r].todo) \in Nat
    BY <1>1, DeviceCount DEF Local
  <2>4. ThreadLeft(loc'[r]) < ThreadLeft(loc[r])
    BY <2>1, <2>2, <2>3, ThreadDistances
  <2> QED
    BY <1>2, <2>4, ThreadNearer
<1>5. CASE SaveResultFails(r)
  <2>1. loc[r].pc = "save" /\ loc'[r] = Failing(r)
    BY <1>1, <1>5 DEF SaveResultFails, At
  <2>2. ThreadLeft(loc[r]) = 8 + 2 * Cardinality(Devices)
    BY <2>1, ThreadDistances
  <2>3. Cardinality(Devices) \in Nat
    BY DeviceCount
  <2>4. ThreadLeft(loc'[r]) < ThreadLeft(loc[r])
    BY <2>1, <2>2, <2>3, FailingLeft
  <2> QED
    BY <1>2, <2>4, ThreadNearer
<1> QED
  BY <1>3, <1>4, <1>5

\* The uploader's end is noticed.
LEMMA ChildEndedNearer ==
  ASSUME IsFiniteSet(Devices), TypeOK, TypeOK', NEW r \in Runs, ChildEnded(r)
  PROVE  Nearer(r)
<1>1. loc[r].pc = "listen" /\ child' = child /\ pipe' = pipe
  BY DEF ChildEnded, At, process
<1>2. loc'[r] = Failing(r) \/ loc'[r].pc = "finish"
  BY DEF ChildEnded, TypeOK, Finishing, Idle
<1>3. ThreadLeft(loc[r]) = 7 + 2 * Cardinality(Devices) /\ Cardinality(Devices) \in Nat
  BY <1>1, ThreadDistances, DeviceCount
<1>4. ThreadLeft(loc'[r]) < ThreadLeft(loc[r])
  BY <1>2, <1>3, FailingLeft, ThreadDistances
<1> QED
  BY <1>1, <1>4, ThreadNearer

\* The uploader is started with the devices of the run, or the run has failed.
LEMMA SpawnNearer ==
  ASSUME IsFiniteSet(Devices), TypeOK, TypeOK', NEW r \in Runs, Sound(r), SpawnUploader(r)
  PROVE  Nearer(r)
<1>1. /\ loc[r].pc = "stage" /\ loc[r] \in Local /\ loc \in [Runs -> Local] /\ pipe' = pipe
      /\ child \in [Runs -> Child] /\ pipe[r] = <<>> /\ child[r].pc = "none"
  BY DEF SpawnUploader, TypeOK, At, Sound, Fresh
<1>2. PICK N : N = Cardinality(Devices)
  OBVIOUS
<1>3. N \in Nat
  BY <1>2, DeviceCount
<1>4. ThreadLeft(loc[r]) = 9 + 7 * N /\ ChildLeft(child[r]) = 0
  BY <1>1, <1>2, ThreadDistances, ChildDistances
<1>5. ThreadLeft(loc'[r]) \in Nat /\ ChildLeft(child'[r]) \in Nat
  BY StepsLeftPrimed
<1>6. ThreadLeft(loc'[r]) + ChildLeft(child'[r]) < 9 + 7 * N
  <2>1. CASE /\ child' = [child EXCEPT ![r] =
                  [NoChild EXCEPT !.pc = "check", !.pem = run[r].target, !.todo = TargetsOf(r)]]
             /\ loc' = [loc EXCEPT ![r].pc = "listen"]
    <3>1. child'[r].pc = "check" /\ child'[r].todo = TargetsOf(r) /\ loc'[r].pc = "listen"
      BY <1>1, <2>1 DEF NoChild, Local
    <3>2. ChildLeft(child'[r]) = 1 + 5 * Cardinality(TargetsOf(r)) /\ ThreadLeft(loc'[r]) = 7 + 2 * N
      BY <1>2, <3>1, ThreadDistances, ChildDistances
    <3>3. Cardinality(TargetsOf(r)) \in Nat /\ Cardinality(TargetsOf(r)) <= N
      BY <1>2, DeviceCount DEF TargetsOf
    <3> QED
      BY <1>3, <3>2, <3>3
  <2>2. CASE child' = child /\ loc' = [loc EXCEPT ![r] = Failing(r)]
    <3>1. loc'[r] = Failing(r) /\ child'[r] = child[r]
      BY <1>1, <2>2
    <3> QED
      BY <1>2, <1>3, <1>4, <3>1, FailingLeft
  <2> QED
    BY <2>1, <2>2 DEF SpawnUploader, Goto
<1>7. StepsLeft(r)' = ThreadLeft(loc'[r]) + ChildLeft(child'[r]) + 3 * Len(pipe'[r])
  BY DEF StepsLeft
<1>8. StepsLeft(r) = ThreadLeft(loc[r]) + ChildLeft(child[r]) + 3 * Len(pipe[r])
  BY DEF StepsLeft
<1>9. Len(pipe'[r]) = 0 /\ Len(pipe[r]) = 0
  BY <1>1
<1> QED
  BY ONLY <1>3, <1>4, <1>5, <1>6, <1>7, <1>8, <1>9 DEF Nearer

\* A report is taken from the pipe, and is a result to be written or is not.
LEMMA HearNearer ==
  ASSUME IsFiniteSet(Devices), TypeOK, TypeOK', NEW r \in Runs, Hear(r)
  PROVE  Nearer(r)
<1>1. /\ loc[r].pc = "listen" /\ loc[r] \in Local /\ loc \in [Runs -> Local] /\ child' = child
      /\ pipe \in [Runs -> Seq(Event)] /\ pipe[r] \in Seq(Event) /\ pipe[r] # <<>>
      /\ pipe' = [pipe EXCEPT ![r] = Tail(@)]
  BY DEF Hear, TypeOK, At
<1>2. Len(pipe[r]) \in Nat /\ Len(pipe'[r]) + 1 = Len(pipe[r]) /\ Len(pipe'[r]) \in Nat
  <2>1. pipe'[r] = Tail(pipe[r])
    BY <1>1
  <2> QED
    BY <1>1, <2>1
<1>3. \/ loc' = [loc EXCEPT ![r] = [@ EXCEPT !.pc = "save", !.doc = results,
                       !.device = Head(pipe[r]).device, !.result = Head(pipe[r]).result]]
      \/ loc' = loc
  BY DEF Hear
<1>4. loc'[r].pc = "save" \/ loc'[r].pc = "listen"
  <2>1. \/ loc'[r] = [loc[r] EXCEPT !.pc = "save", !.doc = results,
                       !.device = Head(pipe[r]).device, !.result = Head(pipe[r]).result]
        \/ loc'[r] = loc[r]
    BY <1>1, <1>3
  <2>2. ASSUME loc'[r] = [loc[r] EXCEPT !.pc = "save", !.doc = results,
                       !.device = Head(pipe[r]).device, !.result = Head(pipe[r]).result]
        PROVE  loc'[r].pc = "save"
    BY ONLY <1>1, <2>2 DEF Local
  <2> QED
    BY <1>1, <2>1, <2>2
<1>5. Cardinality(Devices) \in Nat
  BY DeviceCount
<1>6. ThreadLeft(loc[r]) \in Nat /\ ThreadLeft(loc'[r]) \in Nat
      /\ ThreadLeft(loc'[r]) <= ThreadLeft(loc[r]) + 1
  BY <1>1, <1>4, <1>5, ThreadDistances
<1>7. ChildLeft(child[r]) \in Nat /\ ChildLeft(child'[r]) = ChildLeft(child[r])
  BY <1>1, StepsLeftNat
<1>8. StepsLeft(r)' = ThreadLeft(loc'[r]) + ChildLeft(child'[r]) + 3 * Len(pipe'[r])
  BY DEF StepsLeft
<1>9. StepsLeft(r) = ThreadLeft(loc[r]) + ChildLeft(child[r]) + 3 * Len(pipe[r])
  BY DEF StepsLeft
<1>10. 3 * Len(pipe[r]) = 3 * Len(pipe'[r]) + 3 /\ 3 * Len(pipe'[r]) \in Nat
  BY ONLY <1>2
<1>11. StepsLeft(r)' < StepsLeft(r)
  BY ONLY <1>6, <1>7, <1>8, <1>9, <1>10
<1> QED
  BY ONLY <1>11 DEF Nearer

\* The folder is removed and the pipe closed.
LEMMA RemoveNearer ==
  ASSUME IsFiniteSet(Devices), TypeOK, TypeOK', NEW r \in Runs, RemoveFolder(r)
  PROVE  Nearer(r)
<1>1. loc[r].pc = "remove_folder" /\ loc'[r].pc = "ended" /\ child' = child /\ pipe'[r] = <<>>
  BY DEF RemoveFolder, TypeOK, At, Forget, Ended, Idle
<1>2. ThreadLeft(loc[r]) = 1 /\ ThreadLeft(loc'[r]) = 0
  BY <1>1, ThreadDistances
<1>3. ChildLeft(child[r]) \in Nat /\ ChildLeft(child'[r]) = ChildLeft(child[r])
  BY <1>1, StepsLeftNat
<1>4. Len(pipe[r]) \in Nat /\ Len(pipe'[r]) = 0
  BY <1>1 DEF TypeOK
<1>5. StepsLeft(r)' = ThreadLeft(loc'[r]) + ChildLeft(child'[r]) + 3 * Len(pipe'[r])
  BY DEF StepsLeft
<1>6. StepsLeft(r) = ThreadLeft(loc[r]) + ChildLeft(child[r]) + 3 * Len(pipe[r])
  BY DEF StepsLeft
<1> QED
  BY ONLY <1>2, <1>3, <1>4, <1>5, <1>6 DEF Nearer

\* The uploader gets on, and the thread and the pipe are left alone.
LEMMA ChildNearer ==
  ASSUME IsFiniteSet(Devices), TypeOK, TypeOK', NEW r \in Runs,
         loc'[r] = loc[r], pipe'[r] = pipe[r],
         ChildLeft(child'[r]) < ChildLeft(child[r])
  PROVE  Nearer(r)
<1>1. /\ ThreadLeft(loc[r]) \in Nat /\ ChildLeft(child[r]) \in Nat /\ Len(pipe[r]) \in Nat
      /\ ChildLeft(child'[r]) \in Nat
  BY StepsLeftNat, StepsLeftPrimed
<1>2. StepsLeft(r)' = ThreadLeft(loc[r]) + ChildLeft(child'[r]) + 3 * Len(pipe[r])
  BY DEF StepsLeft
<1>3. StepsLeft(r) = ThreadLeft(loc[r]) + ChildLeft(child[r]) + 3 * Len(pipe[r])
  BY DEF StepsLeft
<1>4. ChildLeft(child'[r]) < ChildLeft(child[r])
  OBVIOUS
<1> QED
  BY ONLY <1>1, <1>2, <1>3, <1>4 DEF Nearer

\* A report is written, and the uploader gets on by more than it weighs.
LEMMA ReportNearer ==
  ASSUME IsFiniteSet(Devices), TypeOK, TypeOK', NEW r \in Runs,
         NEW d \in Devices, NEW v \in {"ok", "failed", "cancelled"}, Report(r, d, v),
         loc'[r] = loc[r], ChildLeft(child'[r]) + 3 < ChildLeft(child[r])
  PROVE  Nearer(r)
<1>1. /\ ThreadLeft(loc[r]) \in Nat /\ ChildLeft(child[r]) \in Nat /\ Len(pipe[r]) \in Nat
      /\ ChildLeft(child'[r]) \in Nat
  BY StepsLeftNat, StepsLeftPrimed
<1>2. Len(pipe'[r]) = Len(pipe[r]) + 1
  <2>1. pipe[r] \in Seq(Event) /\ pipe \in [Runs -> Seq(Event)]
    BY DEF TypeOK
  <2>2. pipe'[r] = Append(pipe[r], [device |-> d, result |-> v])
    BY <2>1 DEF Report
  <2> QED
    BY <2>1, <2>2 DEF Event
<1>3. StepsLeft(r)' = ThreadLeft(loc[r]) + ChildLeft(child'[r]) + 3 * Len(pipe'[r])
  BY DEF StepsLeft
<1>4. StepsLeft(r) = ThreadLeft(loc[r]) + ChildLeft(child[r]) + 3 * Len(pipe[r])
  BY DEF StepsLeft
<1>5. ChildLeft(child'[r]) + 3 < ChildLeft(child[r])
  OBVIOUS
<1> QED
  BY ONLY <1>1, <1>2, <1>3, <1>4, <1>5 DEF Nearer

\* An uploader that ends has nothing left to do.
LEMMA ChildEndsLeft ==
  ASSUME TypeOK, NEW r \in Runs, NEW how \in {"done", "dead"}, ChildEnds(r, how)
  PROVE  ChildLeft(child'[r]) = 0
<1>1. child'[r].pc = how
  BY DEF ChildEnds, TypeOK, NoChild
<1> QED
  BY <1>1, ChildDistances

\* A device is begun, or cancelled, or there is none left, or nobody listens.
LEMMA ChildStepNearer ==
  ASSUME IsFiniteSet(Devices), TypeOK, TypeOK', NEW r \in Runs, Sound(r),
         ChildStep(r)
  PROVE  Nearer(r)
<1> DEFINE k == Cardinality(child[r].todo)
<1>1. /\ loc' = loc /\ child[r] \in Child /\ child \in [Runs -> Child]
      /\ child[r].pc = "check" \/ child[r].pc = "device"
  BY DEF ChildStep, BeginDevice, EndDevice, CancelDevice, ChildDone, ChildUnheard, ChildDies, TypeOK
<1>2. child[r].todo \in SUBSET Devices /\ k \in Nat
  BY <1>1, DeviceCount DEF Child
<1>3. /\ child[r].pc = "check" => ChildLeft(child[r]) = 1 + 5 * k
      /\ child[r].pc = "device" => ChildLeft(child[r]) = 5 + 5 * k
  BY ChildDistances
<1> HIDE DEF k
<1>4. CASE BeginDevice(r)
  <2>1. PICK d \in child[r].todo :
          child' = [child EXCEPT ![r] = [@ EXCEPT !.pc = "device", !.device = d,
                                                   !.todo = child[r].todo \ {d}]]
    BY <1>4 DEF BeginDevice
  <2>2. child'[r].pc = "device" /\ child'[r].todo = child[r].todo \ {d}
    BY <1>1, <2>1 DEF Child
  <2>3. ChildLeft(child'[r]) = 5 + 5 * Cardinality(child[r].todo \ {d})
    BY <2>2, ChildDistances
  <2>4. Cardinality(child[r].todo \ {d}) + 1 = k
    BY <1>2, DeviceCount DEF k
  <2>5. Cardinality(child[r].todo \ {d}) \in Nat
    <3>1. child[r].todo \ {d} \in SUBSET Devices
      BY <1>2
    <3> QED
      BY <3>1, DeviceCount
  <2>6. child[r].pc = "check" /\ pipe' = pipe
    BY <1>4 DEF BeginDevice
  <2>7. ChildLeft(child'[r]) < ChildLeft(child[r])
    BY <1>2, <1>3, <2>3, <2>4, <2>5, <2>6
  <2> QED
    BY <1>1, <2>6, <2>7, ChildNearer
<1>5. CASE CancelDevice(r)
  <2>1. child[r].pc = "check" /\ child[r].todo # {} /\ ChildEnds(r, "done")
    BY <1>5 DEF CancelDevice
  <2>2. PICK d \in child[r].todo : Report(r, d, "cancelled")
    BY <1>5 DEF CancelDevice
  <2>3. Cardinality(child[r].todo \ {d}) + 1 = k
    BY <1>2, DeviceCount DEF k
  <2>4. Cardinality(child[r].todo \ {d}) \in Nat
    <3>1. child[r].todo \ {d} \in SUBSET Devices
      BY <1>2
    <3> QED
      BY <3>1, DeviceCount
  <2>5. PICK how \in {"done", "dead"} : ChildEnds(r, how)
    BY <2>1
  <2>6. ChildLeft(child'[r]) + 3 < ChildLeft(child[r])
    BY <1>2, <1>3, <2>1, <2>3, <2>4, <2>5, ChildEndsLeft
  <2>7. PICK v \in {"ok", "failed", "cancelled"} : Report(r, d, v)
    BY <2>2
  <2>8. d \in Devices /\ loc'[r] = loc[r]
    BY <1>1, <1>2
  <2> QED
    BY <2>6, <2>7, <2>8, ReportNearer
<1>6. CASE ChildDone(r) \/ ChildUnheard(r) \/ ChildDies(r)
  <2>1. PICK how \in {"done", "dead"} : ChildEnds(r, how)
    BY <1>6 DEF ChildDone, ChildUnheard, ChildDies
  <2>2. pipe' = pipe
    BY <1>6 DEF ChildDone, ChildUnheard, ChildDies
  <2>3. ChildLeft(child'[r]) < ChildLeft(child[r])
    BY <1>1, <1>2, <1>3, <2>1, ChildEndsLeft
  <2> QED
    BY <1>1, <2>2, <2>3, ChildNearer
<1>7. CASE EndDevice(r)
  <2>1. /\ child[r].pc = "device" /\ child[r].device \in Devices
    BY <1>7 DEF EndDevice, Sound, Supplied, HasPem
  <2>2. CASE Heard(r)
    <3>1. PICK v \in {"ok", "failed", "cancelled"} : Report(r, child[r].device, v)
      BY <1>7, <2>2 DEF EndDevice
    <3>2. child' = [child EXCEPT ![r] = [@ EXCEPT !.pc = "check", !.device = NoDevice]]
      BY <1>7, <2>2 DEF EndDevice
    <3>3. child'[r].pc = "check" /\ child'[r].todo = child[r].todo
      BY <1>1, <3>2 DEF Child
    <3>4. ChildLeft(child'[r]) = 1 + 5 * k
      BY <3>3, ChildDistances DEF k
    <3>5. ChildLeft(child'[r]) + 3 < ChildLeft(child[r])
      BY <1>2, <1>3, <2>1, <3>4
    <3>6. loc'[r] = loc[r]
      BY <1>1
    <3> QED
      BY <2>1, <3>1, <3>5, <3>6, ReportNearer
  <2>3. CASE ~Heard(r)
    <3>1. PICK how \in {"done", "dead"} : ChildEnds(r, how)
      BY <1>7, <2>3 DEF EndDevice
    <3>2. pipe' = pipe
      BY <1>7, <2>3 DEF EndDevice
    <3>3. ChildLeft(child'[r]) < ChildLeft(child[r])
      BY <1>2, <1>3, <2>1, <3>1, ChildEndsLeft
    <3> QED
      BY <1>1, <3>2, <3>3, ChildNearer
  <2> QED
    BY <2>2, <2>3
<1> QED
  BY <1>4, <1>5, <1>6, <1>7 DEF ChildStep

\* Every step of the thread or of the uploader brings the run nearer to its end.
LEMMA StepNearer ==
  ASSUME IsFiniteSet(Devices), TypeOK, TypeOK', NEW r \in Runs, Sound(r),
         RunStep(r) \/ ChildStep(r)
  PROVE  Nearer(r)
<1>1. ASSUME RunStep(r) PROVE Nearer(r)
  <2>1. CASE ReadStatuses(r) \/ ClearStatuses(r) \/ RefuseRun(r) \/ Register(r) \/ MakeFolder(r)
    BY <2>1, GettingReady
  <2>2. CASE SpawnUploader(r) \/ Hear(r) \/ ChildEnded(r) \/ MarkFailed(r) \/ RemoveFolder(r)
    BY <2>2, SpawnNearer, HearNearer, ChildEndedNearer, MarkNearer, RemoveNearer
  <2>3. CASE SaveResult(r, "save", "listen") \/ SaveResult(r, "fail_save", "fail") \/ SaveResultFails(r)
    BY <2>3, SavingNearer
  <2>4. CASE AllMarked(r) \/ ThreadDies(r) \/ AuditResults(r) \/ HideSuccessful(r) \/ RecordRun(r)
               \/ FinishFails(r) \/ Close(r)
    BY <2>4, GettingDone
  <2> QED
    BY <1>1, <2>1, <2>2, <2>3, <2>4 DEF RunStep
<1> QED
  BY <1>1, ChildStepNearer

\* A step of one run is no step of another.
LEMMA ApartFromOthers ==
  ASSUME TypeOK, NEW q \in Runs, RunStep(q) \/ ChildStep(q)
  PROVE  OnlyRun(q)
<1> USE DEF TypeOK, OnlyRun, process
<1>1. CASE ReadStatuses(q) \/ ClearStatuses(q) \/ RefuseRun(q) \/ Register(q)
  BY <1>1 DEF ReadStatuses, ClearStatuses, RefuseRun, Register
<1>2. CASE MakeFolder(q) \/ SpawnUploader(q) \/ Hear(q)
  BY <1>2 DEF MakeFolder, SpawnUploader, Hear, Goto
<1>3. CASE SaveResult(q, "save", "listen") \/ SaveResult(q, "fail_save", "fail")
             \/ SaveResultFails(q) \/ ChildEnded(q)
  BY <1>3 DEF SaveResult, SaveResultFails, ChildEnded
<1>4. CASE MarkFailed(q) \/ AllMarked(q) \/ ThreadDies(q)
  BY <1>4 DEF MarkFailed, AllMarked, ThreadDies
<1>5. CASE AuditResults(q) \/ HideSuccessful(q) \/ RecordRun(q) \/ FinishFails(q)
  BY <1>5 DEF AuditResults, HideSuccessful, RecordRun, FinishFails, Goto
<1>6. CASE Close(q) \/ RemoveFolder(q)
  BY <1>6 DEF Close, RemoveFolder, Forget
<1>7. CASE ChildStep(q)
  BY <1>7 DEF ChildStep, BeginDevice, EndDevice, CancelDevice, ChildDone, ChildUnheard, ChildDies,
     Report, ChildEnds
<1> QED
  BY <1>1, <1>2, <1>3, <1>4, <1>5, <1>6, <1>7 DEF RunStep

\* No step takes a thread back to where it has not been started, and only the start
\* of the uploader lets it listen.
LEMMA LabelsAfter ==
  ASSUME TypeOK, NEW r \in Runs, RunStep(r)
  PROVE  /\ loc'[r].pc # "idle"
         /\ loc'[r].pc \in {"listen", "save"} => loc[r].pc \in {"stage", "listen", "save"}
<1>1. loc[r] \in Local /\ loc \in [Runs -> Local]
  BY DEF TypeOK
<1>2. CASE ReadStatuses(r) \/ ClearStatuses(r)
  <2>1. ASSUME ReadStatuses(r) PROVE loc'[r].pc \in {"clear_write", "decide"}
    BY <1>1, <2>1, LabelSet DEF ReadStatuses
  <2>2. ASSUME ClearStatuses(r) PROVE loc'[r].pc = "decide"
    BY <1>1, <2>2, LabelSet DEF ClearStatuses
  <2> QED
    BY <1>2, <2>1, <2>2
<1>3. CASE RefuseRun(r) \/ Register(r) \/ MakeFolder(r)
  BY <1>1, <1>3 DEF RefuseRun, Register, MakeFolder, Goto, Ended, Idle, Local
<1>4. CASE SpawnUploader(r)
  BY <1>1, <1>4 DEF SpawnUploader, At, Goto, Failing, Idle, Local
<1>5. CASE Hear(r)
  <2>1. \/ loc'[r] = [loc[r] EXCEPT !.pc = "save", !.doc = results,
                       !.device = Head(pipe[r]).device, !.result = Head(pipe[r]).result]
        \/ loc'[r] = loc[r]
    BY <1>1, <1>5 DEF Hear
  <2>2. ASSUME loc'[r] = [loc[r] EXCEPT !.pc = "save", !.doc = results,
                       !.device = Head(pipe[r]).device, !.result = Head(pipe[r]).result]
        PROVE  loc'[r].pc = "save"
    BY ONLY <1>1, <2>2 DEF Local
  <2> QED
    BY <1>5, <2>1, <2>2 DEF Hear, At
<1>6. CASE SaveResult(r, "save", "listen") \/ SaveResult(r, "fail_save", "fail")
  <2>1. PICK next \in {"listen", "fail"} :
          /\ SaveResult(r, "save", next) \/ SaveResult(r, "fail_save", next)
          /\ next = "listen" => loc[r].pc = "save"
    BY <1>6 DEF SaveResult, At
  <2>2. loc'[r] = [loc[r] EXCEPT !.pc = next, !.doc = NoResults,
                                 !.device = NoDevice, !.result = "none"]
    BY <1>1, <2>1 DEF SaveResult
  <2>3. loc'[r].pc = next
    BY ONLY <1>1, <2>2 DEF Local
  <2> QED
    BY <2>1, <2>3
<1>7. CASE SaveResultFails(r) \/ ChildEnded(r) \/ AllMarked(r) \/ ThreadDies(r)
  <2>1. Failing(r).pc = "fail" /\ \A ending : Finishing(r, ending).pc = "finish"
    BY DEF Failing, Finishing, Idle
  <2>2. [Idle EXCEPT !.pc = "remove_folder"].pc = "remove_folder"
    BY DEF Idle
  <2>3. \/ loc'[r] = Failing(r)
        \/ \E ending : loc'[r] = Finishing(r, ending)
        \/ loc'[r] = [Idle EXCEPT !.pc = "remove_folder"]
    BY <1>1, <1>7 DEF SaveResultFails, ChildEnded, AllMarked, ThreadDies
  <2> QED
    BY ONLY <2>1, <2>2, <2>3
<1>8. CASE MarkFailed(r)
  <2>1. PICK d \in loc[r].todo :
          \/ loc'[r] = [loc[r] EXCEPT !.todo = loc[r].todo \ {d}]
          \/ loc'[r] = [loc[r] EXCEPT !.pc = "fail_save", !.doc = results,
                               !.device = d, !.result = "failed", !.todo = loc[r].todo \ {d}]
    BY <1>1, <1>8 DEF MarkFailed
  <2>2. ASSUME loc'[r] = [loc[r] EXCEPT !.pc = "fail_save", !.doc = results,
                               !.device = d, !.result = "failed", !.todo = loc[r].todo \ {d}]
        PROVE  loc'[r].pc = "fail_save"
    BY ONLY <1>1, <2>2 DEF Local
  <2>3. ASSUME loc'[r] = [loc[r] EXCEPT !.todo = loc[r].todo \ {d}]
        PROVE  loc'[r].pc = loc[r].pc
    BY ONLY <1>1, <2>3 DEF Local
  <2> QED
    BY <1>8, <2>1, <2>2, <2>3 DEF MarkFailed, At
<1>9. CASE AuditResults(r) \/ HideSuccessful(r) \/ RecordRun(r)
  <2>1. \E pc \in {"hide", "record", "close"} : loc' = [loc EXCEPT ![r].pc = pc]
    BY <1>9 DEF AuditResults, HideSuccessful, RecordRun, Goto
  <2> QED
    BY <1>1, <2>1 DEF Local
<1>10. CASE FinishFails(r)
  <2>1. loc'[r].pc = "close"
    BY <1>1, <1>10, LabelSet DEF FinishFails
  <2> QED
    BY <2>1
<1>11. CASE Close(r) \/ RemoveFolder(r)
  BY <1>1, <1>11 DEF Close, RemoveFolder, Forget, Ended, Idle
<1> QED
  BY <1>2, <1>3, <1>4, <1>5, <1>6, <1>7, <1>8, <1>9, <1>10, <1>11 DEF RunStep

\* A run that has been started stays so, and is not moved away from its end by
\* anything that happens, requests and crashes included.
LEMMA RunGoes ==
  ASSUME IsFiniteSet(Devices), RunsInvariant, [Next]_vars, NEW r \in Runs, loc[r].pc # "idle"
  PROVE  /\ StepsLeft(r) \in Nat /\ StepsLeft(r)' \in Nat /\ StepsLeft(r)' <= StepsLeft(r)
         /\ RunStep(r) \/ ChildStep(r) => StepsLeft(r)' < StepsLeft(r)
         /\ loc'[r].pc # "idle"
<1>1. TypeOK /\ TypeOK' /\ Sound(r)
  BY ToolbeltStep DEF RunsInvariant, ToolbeltInvariant
<1>2. StepsLeft(r) \in Nat
  BY <1>1, StepsLeftNat
<1>3. StepsLeft(r)' \in Nat
  <2>1. StepsLeft(r)' = ThreadLeft(loc'[r]) + ChildLeft(child'[r]) + 3 * Len(pipe'[r])
    BY DEF StepsLeft
  <2> QED
    BY <1>1, <2>1, StepsLeftPrimed
<1>4. CASE RunStep(r) \/ ChildStep(r)
  <2>1. StepsLeft(r)' < StepsLeft(r)
    BY <1>1, <1>4, StepNearer DEF Nearer
  <2>2. loc'[r].pc # "idle"
    <3>1. ChildStep(r) => loc' = loc
      BY DEF ChildStep, BeginDevice, EndDevice, CancelDevice, ChildDone, ChildUnheard, ChildDies
    <3> QED
      BY <1>1, <1>4, <3>1, LabelsAfter
  <2> QED
    BY <1>2, <1>3, <2>1, <2>2
<1>5. CASE loc'[r] = loc[r] /\ child'[r] = child[r] /\ pipe'[r] = pipe[r]
           /\ ~(RunStep(r) \/ ChildStep(r))
  <2>1. StepsLeft(r)' = StepsLeft(r)
    BY <1>5 DEF StepsLeft
  <2> QED
    BY <1>2, <1>5, <2>1
<1>6. CASE Crash /\ ~(RunStep(r) \/ ChildStep(r))
  <2>1. loc'[r].pc = "ended" /\ child'[r] = child[r] /\ pipe'[r] = <<>>
    BY <1>6 DEF Crash, Idle, Ended
  <2>2. ThreadLeft(loc'[r]) = 0 /\ Len(pipe'[r]) = 0
    BY <2>1, ThreadDistances
  <2>3. ThreadLeft(loc[r]) \in Nat /\ ChildLeft(child[r]) \in Nat /\ Len(pipe[r]) \in Nat
    BY <1>1, StepsLeftNat
  <2>4. StepsLeft(r)' = ThreadLeft(loc'[r]) + ChildLeft(child'[r]) + 3 * Len(pipe'[r])
    BY DEF StepsLeft
  <2>5. StepsLeft(r) = ThreadLeft(loc[r]) + ChildLeft(child[r]) + 3 * Len(pipe[r])
    BY DEF StepsLeft
  <2>6. StepsLeft(r)' <= StepsLeft(r)
    BY <2>1, <2>2, <2>3, <2>4, <2>5
  <2> QED
    BY <1>2, <1>3, <1>6, <2>1, <2>6
<1>7. CASE ~(RunStep(r) \/ ChildStep(r)) /\ ~Crash
  <2>1. CASE UNCHANGED vars
    BY <1>5, <1>7, <2>1 DEF vars
  <2>2. CASE Request
    <3>1. loc'[r] = loc[r] /\ child'[r] = child[r] /\ pipe'[r] = pipe[r]
      <4>1. ASSUME NEW c \in Certificates, NEW d \in Devices, Issue(c, d)
            PROVE  loc' = loc /\ child' = child /\ pipe' = pipe
        BY <4>1 DEF Issue, process
      <4>2. ASSUME NEW q \in Runs, NEW rows, Start(q, rows)
            PROVE  loc'[r] = loc[r] /\ child' = child /\ pipe' = pipe
        <5>1. q # r
          BY <4>2 DEF Start, At
        <5> QED
          BY <1>1, <4>2, <5>1 DEF Start, process, TypeOK
      <4>3. ASSUME NEW q \in Runs, Stop(q)
            PROVE  loc' = loc /\ child' = child /\ pipe' = pipe
        BY <4>3 DEF Stop, process
      <4> QED
        BY <2>2, <4>1, <4>2, <4>3 DEF Request
    <3> QED
      BY <1>5, <1>7, <3>1
  <2>3. CASE \E q \in Runs : RunStep(q) \/ ChildStep(q)
    <3>1. PICK q \in Runs : RunStep(q) \/ ChildStep(q)
      BY <2>3
    <3>2. q # r /\ OnlyRun(q)
      BY <1>1, <1>7, <3>1, ApartFromOthers
    <3>3. loc'[r] = loc[r] /\ child'[r] = child[r] /\ pipe'[r] = pipe[r]
      BY <3>2 DEF OnlyRun
    <3> QED
      BY <1>5, <1>7, <3>3
  <2> QED
    BY <1>7, <2>1, <2>2, <2>3 DEF Next
<1> QED
  BY <1>4, <1>6, <1>7

\* While the server runs, a started run has only so many steps to take, and each
\* of its thread or of its uploader is one of them: no result, death or lost write
\* sends it back, and neither does what another run does.
THEOREM RunsCountDown ==
  ASSUME IsFiniteSet(Devices)
  PROVE  Spec => [][\A r \in Runs : loc[r].pc # "idle" =>
                      /\ StepsLeft(r)' <= StepsLeft(r)
                      /\ RunStep(r) \/ ChildStep(r) => StepsLeft(r)' < StepsLeft(r)]_vars
<1>1. RunsInvariant /\ [Next]_vars =>
        [\A r \in Runs : loc[r].pc # "idle" =>
           /\ StepsLeft(r)' <= StepsLeft(r)
           /\ RunStep(r) \/ ChildStep(r) => StepsLeft(r)' < StepsLeft(r)]_vars
  BY RunGoes
<1> QED
  BY <1>1, RunsInvariantHolds, PTL DEF Spec

\* A thread that listens has an uploader that was started.
Attended(r) == loc[r].pc \in {"listen", "save"} => child[r].pc # "none"

\* An uploader that was started stays so; only SpawnUploader lets a thread listen.
LEMMA AttendedOwn ==
  ASSUME TypeOK, NEW r \in Runs, Attended(r), RunStep(r) \/ ChildStep(r)
  PROVE  Attended(r)'
<1>1. /\ loc[r] \in Local /\ loc \in [Runs -> Local]
      /\ child[r] \in Child /\ child \in [Runs -> Child]
  BY DEF TypeOK
<1>2. CASE ChildStep(r)
  <2>1. ASSUME NEW how \in {"done", "dead"}, ChildEnds(r, how) PROVE child'[r].pc # "none"
    BY <1>1, <2>1 DEF ChildEnds, NoChild
  <2>2. ASSUME BeginDevice(r) PROVE child'[r].pc # "none"
    BY <1>1, <2>2 DEF BeginDevice, Child
  <2>3. ASSUME EndDevice(r) PROVE child'[r].pc # "none"
    <3>1. \/ child' = [child EXCEPT ![r] = [@ EXCEPT !.pc = "check", !.device = NoDevice]]
          \/ \E how \in {"done", "dead"} : ChildEnds(r, how)
      BY <2>3 DEF EndDevice
    <3>2. CASE child' = [child EXCEPT ![r] = [@ EXCEPT !.pc = "check", !.device = NoDevice]]
      <4>1. child'[r].pc = "check"
        BY ONLY <1>1, <3>2, r \in Runs DEF Child
      <4> QED
        BY <4>1
    <3> QED
      BY <2>1, <3>1, <3>2
  <2> QED
    BY <1>2, <2>1, <2>2, <2>3
       DEF ChildStep, CancelDevice, ChildDone, ChildUnheard, ChildDies, Attended
<1>3. CASE SpawnUploader(r)
  <2>1. CASE child' = [child EXCEPT ![r] =
               [NoChild EXCEPT !.pc = "check", !.pem = run[r].target, !.todo = TargetsOf(r)]]
    BY <1>1, <2>1 DEF NoChild, Attended
  <2>2. CASE loc' = [loc EXCEPT ![r] = Failing(r)]
    BY <1>1, <2>2 DEF Failing, Idle, Attended
  <2> QED
    BY <1>3, <2>1, <2>2 DEF SpawnUploader
<1>4. CASE RunStep(r) /\ ~SpawnUploader(r)
  <2>1. child' = child
    BY <1>4 DEF RunStep, ReadStatuses, ClearStatuses, RefuseRun, Register, MakeFolder, Hear,
       SaveResult, SaveResultFails, ChildEnded, MarkFailed, AllMarked, ThreadDies, AuditResults,
       HideSuccessful, RecordRun, FinishFails, Close, RemoveFolder, process
  <2>2. CASE loc[r].pc \in {"listen", "save"}
    BY <2>1, <2>2 DEF Attended
  <2>3. CASE loc[r].pc \notin {"listen", "save"}
    <3>1. loc[r].pc # "stage"
      BY <1>4 DEF RunStep, ReadStatuses, ClearStatuses, RefuseRun, Register, MakeFolder, Hear,
         SaveResult, SaveResultFails, ChildEnded, MarkFailed, AllMarked, ThreadDies, AuditResults,
         HideSuccessful, RecordRun, FinishFails, Close, RemoveFolder, At
    <3>2. loc'[r].pc \notin {"listen", "save"}
      BY <1>4, <2>3, <3>1, LabelsAfter
    <3> QED
      BY <3>2 DEF Attended
  <2> QED
    BY <2>2, <2>3
<1> QED
  BY <1>2, <1>3, <1>4

\* What another run does leaves the uploader of a listening thread there.
LEMMA AttendedStep ==
  ASSUME TypeOK, [Next]_vars, NEW r \in Runs, Attended(r)
  PROVE  Attended(r)'
<1>1. CASE RunStep(r) \/ ChildStep(r)
  BY <1>1, AttendedOwn
<1>2. CASE Crash
  BY <1>2 DEF Crash, Attended, Idle, Ended
<1>3. CASE loc'[r] = loc[r] /\ child'[r] = child[r]
  BY <1>3 DEF Attended
<1>4. CASE Request
  <2>1. ASSUME NEW c \in Certificates, NEW d \in Devices, Issue(c, d) PROVE Attended(r)'
    BY <1>3, <2>1 DEF Issue, process
  <2>2. ASSUME NEW q \in Runs, NEW rows, Start(q, rows) PROVE Attended(r)'
    <3>1. CASE q # r
      BY <1>3, <2>2, <3>1 DEF Start, process, TypeOK
    <3>2. CASE q = r
      <4>1. loc[r] \in Local /\ loc \in [Runs -> Local]
        BY DEF TypeOK
      <4>2. PICK todo : loc'[r] = [loc[r] EXCEPT !.pc = "clear", !.todo = todo]
        BY <2>2, <3>2, <4>1 DEF Start
      <4>3. loc'[r].pc = "clear"
        BY ONLY <4>1, <4>2 DEF Local
      <4> QED
        BY <4>3 DEF Attended
    <3> QED
      BY <3>1, <3>2
  <2>3. ASSUME NEW q \in Runs, Stop(q) PROVE Attended(r)'
    BY <1>3, <2>3 DEF Stop, process
  <2> QED
    BY <1>4, <2>1, <2>2, <2>3 DEF Request
<1>5. ASSUME NEW q \in Runs, q # r, RunStep(q) \/ ChildStep(q) PROVE Attended(r)'
  <2>1. OnlyRun(q)
    BY <1>5, ApartFromOthers
  <2> QED
    BY <1>3, <1>5, <2>1 DEF OnlyRun
<1>6. CASE UNCHANGED vars
  BY <1>3, <1>6 DEF vars
<1> QED
  BY <1>1, <1>2, <1>4, <1>5, <1>6 DEF Next

\* A thread that waits for a report has an uploader that will write one or end: it
\* never waits for a process that was not started.
THEOREM UploaderThere ==
  Spec => [](\A r \in Runs : loc[r].pc \in {"listen", "save"} => child[r].pc # "none")
<1> DEFINE AllAttended == \A r \in Runs : Attended(r)
<1>1. Init => AllAttended
  BY DEF Init, Idle, Attended
<1>2. TypeOK /\ AllAttended /\ [Next]_vars => AllAttended'
  BY AttendedStep
<1>3. AllAttended => \A r \in Runs : loc[r].pc \in {"listen", "save"} => child[r].pc # "none"
  BY DEF Attended
<1> HIDE DEF AllAttended
<1> QED
  BY <1>1, <1>2, <1>3, ToolbeltTypes, PTL DEF Spec

\* What weak fairness of the thread and its uploader comes to, as one of the two can
\* always take a step until both are over.
KeepsGoing(r) == []<>(StepsLeft(r) = 0) \/ []<><<RunStep(r) \/ ChildStep(r)>>_vars

\* A started run that keeps going comes nearer to its end from wherever it is, and
\* at the end the thread is over, its pipe read or closed, and the uploader gone.
THEOREM RunComesNearer ==
  ASSUME IsFiniteSet(Devices), NEW r \in Runs, NEW n \in Nat
  PROVE  /\ Spec /\ []KeepsGoing(r) =>
              ((loc[r].pc # "idle" /\ StepsLeft(r) <= n + 1) ~> StepsLeft(r) <= n)
         /\ Spec => [](StepsLeft(r) = 0 => /\ loc[r].pc \in {"idle", "ended"} /\ pipe[r] = <<>>
                                           /\ child[r].pc \in {"none", "done", "dead"})
<1> DEFINE Within(m) == loc[r].pc # "idle" /\ StepsLeft(r) <= m
           Below == StepsLeft(r) <= n
<1>1. RunsInvariant /\ Within(n + 1) /\ [Next]_vars => Within(n + 1)'
  BY RunGoes
<1>2. RunsInvariant /\ Within(n + 1) /\ [Next]_vars /\ <<RunStep(r) \/ ChildStep(r)>>_vars => Below'
  BY RunGoes
<1>3. StepsLeft(r) = 0 => Below
  OBVIOUS
<1>4. RunsInvariant =>
        (StepsLeft(r) = 0 => /\ loc[r].pc \in {"idle", "ended"} /\ pipe[r] = <<>>
                             /\ child[r].pc \in {"none", "done", "dead"})
  BY StepsLeftNat DEF RunsInvariant, ToolbeltInvariant
<1>5. Spec => [](StepsLeft(r) = 0 => /\ loc[r].pc \in {"idle", "ended"} /\ pipe[r] = <<>>
                                     /\ child[r].pc \in {"none", "done", "dead"})
  BY <1>4, RunsInvariantHolds, PTL
<1>6. Spec /\ []KeepsGoing(r) => (Within(n + 1) ~> Below)
  <2> HIDE DEF Within, Below
  <2> QED
    BY <1>1, <1>2, <1>3, RunsInvariantHolds, PTL DEF Spec, KeepsGoing
<1> QED
  BY <1>5, <1>6

=============================================================================

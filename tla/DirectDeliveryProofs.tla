------------------------ MODULE DirectDeliveryProofs ------------------------
(***************************************************************************)
(* What is proved about DirectDelivery for every number of batches,         *)
(* targets, requests and staged PEMs: its safety, and, in the last section, *)
(* that whoever has the lock has only so many steps to take with it.        *)
(***************************************************************************)
EXTENDS DirectDelivery, FiniteSetTheorems, TLAPS

(***************************************************************************)
(* The inductive invariant                                                 *)
(***************************************************************************)

Closing == {"finish", "hide", "record", "close"}
Uploading == {"begin", "save", "stage", "ingest", "acknowledged", "rejected",
              "verify", "delete"}
UploadResults == {"verified", "unresolved", "upload_unconfirmed"}
RunResults == {"complete", "needs_attention", "stopped", "failed"}
UploadSteps == {"stage", "ingest", "acknowledged", "rejected", "verify", "returned"}
Labels == RunLabels \cup UploadLabels \cup {"remove", "release", "ended"}

Local == [pc : Labels, target : Targets \cup {NoTarget}, name : Names \cup {NoName},
          doc : [Names -> Record], rec : Record,
          then : UploadSteps \cup {"idle", "ended"},
          result : UploadResults \cup RunResults \cup {"none"}]

\* What a thread has in its locals at each label.
ThreadFits(t, l) ==
  /\ t \in Runs => l.pc \in RunLabels \cup UploadLabels
  /\ t \in Callers => l.pc \in UploadLabels \cup {"idle", "remove", "release", "ended"}
  /\ t \in Cleaners => l.pc \in {"idle", "delete", "save", "ended"}
  /\ l.pc = "begin" => l.name = NoName /\ l.result = "none"
  /\ l.pc \in Uploading \ {"begin"} => l.name \in Names
  /\ t \notin Cleaners /\ l.pc \in UploadLabels \cup {"probe", "remove"} => l.target \in Targets
  /\ l.pc = "save" => l.then \in IF t \in Cleaners THEN {"ended"} ELSE UploadSteps
  /\ t \notin Cleaners /\ (l.pc = "returned" \/ (l.pc = "save" /\ l.then = "returned"))
       => l.result \in UploadResults
  /\ l.pc \in Closing => l.result \in RunResults

LocalsOK == loc \in [Threads -> Local] /\ \A t \in Threads : ThreadFits(t, loc[t])

\* The lock is held by the batch or the request that is under way, and by no other.
Busy(l) == l.pc \notin {"idle", "ended"}
HolderOK == \A t \in Runs \cup Callers : Busy(loc[t]) <=> lock = t

StateTypes ==
  /\ lock \in Runs \cup Callers \cup {Nobody, Lost}
  /\ batch \in [Runs -> Batch] /\ saved \in [Runs -> Batch]
  /\ staged \in [Names -> Record]
  /\ onDevice \in [Names -> Targets \cup {NoTarget}]
  /\ serves \subseteq Targets /\ completed \subseteq Targets
  /\ audited \subseteq Runs \X Targets \X BOOLEAN
  /\ astray \subseteq Names
  /\ touched \in [Runs -> SUBSET Targets]

\* A record of a PEM that is on device d, if it is recorded at all.
Known(d, rec) ==
  rec = NoRecord \/ (rec.target = d /\ rec.status \notin {"absent", "deleted"})

\* If PEM n were on device d: then it is listed, or it has gone astray, and no
\* document that is about to be written calls it deleted or another's.
SentTo(n, d) ==
  d # NoTarget /\ n \notin astray =>
    /\ Known(d, staged[n])
    /\ staged[n] # NoRecord
    /\ \A t \in Threads : loc[t].pc = "save" =>
         Known(d, loc[t].doc[n]) /\ (loc[t].name = n => Known(d, loc[t].rec))

\* A thread about to write the document of staged PEMs read it when no record was
\* there that is not there now, but for PEMs gone astray.
Editing(t) ==
  loc[t].pc = "save" =>
    /\ loc[t].rec # NoRecord
    /\ \A n \in Names : loc[t].doc[n] # NoRecord => staged[n] # NoRecord \/ n \in astray

\* Until a PEM is transferred its name is known to its upload alone, unless it has
\* gone astray, and every document has either no record of it or the first one.
BeforeTransfer(l) == l.pc = "stage" \/ (l.pc = "save" /\ l.then = "stage")
Fresh(t) ==
  BeforeTransfer(loc[t]) /\ loc[t].name \notin astray =>
    LET n == loc[t].name
        new == NewRecord(loc[t].target)
    IN /\ \A u \in Threads \ {t} : loc[u].name # n
       /\ staged[n] \in {NoRecord, new}
       /\ \A u \in Threads : loc[u].pc = "save" => loc[u].doc[n] \in {NoRecord, new}
       /\ loc[t].pc = "save" => loc[t].rec = new
       /\ loc[t].pc = "stage" => staged[n] # NoRecord

PemsOK ==
  /\ \A n \in Names : SentTo(n, onDevice[n])
  /\ \A t \in Threads : Editing(t) /\ Fresh(t)

Goal(b) == {"none", IF b.mode = "upload" THEN "verified" ELSE "ready"}
AllGood(b) == \A t \in Targets : b.dev[t] \in Goal(b)
Begun == {"uploading", "verified", "unresolved", "upload_unconfirmed"}
Tested == {"none", "pending", "ready", "not_ready"}
Proven == {"none", "ready", "verified"}

\* What a batch has found out about its targets at each label.
Running(r) ==
  LET l == loc[r]
      b == batch[r]
  IN
  /\ l.pc # "idle" => b.status = "running" /\ b.mode \in {"test", "upload"}
  /\ l.pc = "test" => \A t \in Targets : b.dev[t] \in Tested
  /\ l.pc = "probe" => /\ b.dev[l.target] = "testing"
                       /\ \A t \in Targets \ {l.target} : b.dev[t] \in Tested
  /\ l.pc = "upload" => b.mode = "upload" /\ (b.stop \/ \A t \in Targets : b.dev[t] \in Proven)
  /\ l.pc \in UploadLabels =>
       /\ b.mode = "upload"
       /\ b.dev[l.target] = "uploading" /\ saved[r].dev[l.target] = "uploading"
       /\ \A t \in Targets \ {l.target} : b.dev[t] \in Proven
  /\ l.pc = "wrap_up" /\ Ready(r) => b.stop \/ AllGood(b)
  /\ l.pc \in Closing /\ l.result = "complete" => AllGood(b)
  /\ l.pc = "hide" => Outcomes(r) \subseteq audited

\* What stays true of a batch in memory and of the saved one, also after its end.
Recorded(r) ==
  /\ \A t \in touched[r] : batch[r].dev[t] \in Begun /\ saved[r].dev[t] \in Begun
  /\ batch[r].status = "complete" => AllGood(batch[r])
  /\ saved[r].status = "complete" => AllGood(saved[r])

\* A batch that holds the lock: on a target it has proven ready there is no PEM but
\* the one it has just put there.
Holding(r) ==
  lock = r =>
    /\ batch[r].mode = "upload" =>
         \A t \in With(r, "ready"), n \in Names : onDevice[n] = t => n \in astray
    /\ loc[r].pc \in Uploading =>
         \A n \in Names : onDevice[n] = loc[r].target => n = loc[r].name \/ n \in astray

RunOK(r) == Running(r) /\ Recorded(r) /\ Holding(r)

Invariant ==
  /\ StateTypes /\ LocalsOK /\ HolderOK
  /\ PemsOK
  /\ \A r \in Runs : RunOK(r)

(***************************************************************************)
(* Locals                                                                  *)
(***************************************************************************)

\* The three kinds of threads are different ones.
LEMMA Kinds ==
  /\ Runs \cap Callers = {} /\ Runs \cap Cleaners = {} /\ Callers \cap Cleaners = {}
  /\ Runs \subseteq Threads /\ Callers \subseteq Threads /\ Cleaners \subseteq Threads
  /\ Nobody \notin Threads /\ Lost \notin Threads
BY ThreadAssumption DEF Threads

\* A missing record and a new one are records, and different ones.
LEMMA RecordTypes ==
  /\ NoRecord \in Record /\ NoRecords \in [Names -> Record]
  /\ \A t \in Targets : NewRecord(t) \in Record /\ NewRecord(t) # NoRecord
                          /\ NewRecord(t).target = t /\ NewRecord(t).status = "staged"
BY DEF NoRecord, NoRecords, NewRecord, Record

\* Blank locals, and those that hold a target, a name or a result only.
LEMMA IdleLocal == Idle \in Local
BY RecordTypes DEF Idle, Local, Labels, RunLabels

\* The fields of blank locals.
LEMMA IdleFields ==
  /\ Idle.pc = "idle" /\ Idle.target = NoTarget /\ Idle.name = NoName /\ Idle.doc = NoRecords
  /\ Idle.rec = NoRecord /\ Idle.then = "idle" /\ Idle.result = "none"
BY DEF Idle

\* The locals of a thread that has just been sent to label p.
LEMMA IdleAt ==
  ASSUME NEW p \in Labels
  PROVE  LET l == [Idle EXCEPT !.pc = p] IN
         l \in Local /\ l.pc = p /\ l.name = NoName /\ l.target = NoTarget /\ l.result = "none"
BY ONLY IdleLocal, IdleFields, p \in Labels DEF Local

\* The locals of a thread that has just been given a target.
LEMMA IdleTarget ==
  ASSUME NEW p \in Labels, NEW t \in Targets
  PROVE  LET l == [Idle EXCEPT !.pc = p, !.target = t] IN
         l \in Local /\ l.pc = p /\ l.name = NoName /\ l.target = t /\ l.result = "none"
BY ONLY IdleLocal, IdleFields, p \in Labels, t \in Targets DEF Local

\* The locals of a thread that has just been given a staged PEM.
LEMMA IdleName ==
  ASSUME NEW p \in Labels, NEW n \in Names
  PROVE  LET l == [Idle EXCEPT !.pc = p, !.name = n] IN
         l \in Local /\ l.pc = p /\ l.name = n /\ l.target = NoTarget /\ l.result = "none"
BY ONLY IdleLocal, IdleFields, p \in Labels, n \in Names DEF Local

ReturnedWith(t, x) == [Idle EXCEPT !.pc = "returned", !.target = t, !.result = x]

\* The locals of an upload that is over, with its result.
LEMMA IdleReturned ==
  ASSUME NEW t \in Targets, NEW x \in UploadResults
  PROVE  LET l == ReturnedWith(t, x) IN
         l \in Local /\ l.pc = "returned" /\ l.name = NoName /\ l.target = t /\ l.result = x
<1>1. "returned" \in Labels
  BY DEF Labels, UploadLabels
<1> QED
  BY ONLY IdleLocal, IdleFields, <1>1, t \in Targets, x \in UploadResults DEF Local, ReturnedWith

\* What an upload or a clean-up is left with when it raises or is refused.
LEMMA RaisedLocals ==
  ASSUME LocalsOK, NEW t \in Threads, loc[t].pc \in UploadLabels
  PROVE  /\ Raised(t) \in Local /\ ThreadFits(t, Raised(t))
         /\ Raised(t).name = NoName /\ Raised(t).pc \in {"returned", "release", "ended"}
         /\ t \in Runs => /\ Raised(t).pc = "returned" /\ Raised(t).target = loc[t].target
                          /\ Raised(t).result = "upload_unconfirmed"
         /\ t \notin Cleaners => Busy(Raised(t))
<1>1. ThreadFits(t, loc[t])
  BY DEF LocalsOK
<1>2. CASE t \in Runs
  <2>1. loc[t].target \in Targets /\ t \notin Cleaners /\ t \notin Callers
    BY <1>1, <1>2, Kinds DEF ThreadFits
  <2>2. "returned" \in Labels /\ "upload_unconfirmed" \in UploadResults
    BY DEF Labels, UploadLabels, UploadResults
  <2>3. Raised(t) = ReturnedWith(loc[t].target, "upload_unconfirmed")
    BY <1>2 DEF Raised, ReturnedWith
  <2>4. /\ Raised(t) \in Local /\ Raised(t).pc = "returned" /\ Raised(t).name = NoName
        /\ Raised(t).target = loc[t].target /\ Raised(t).result = "upload_unconfirmed"
    BY <2>1, <2>2, <2>3, IdleReturned
  <2> QED
    BY <1>2, <2>1, <2>2, <2>4 DEF ThreadFits, UploadLabels, Uploading, Closing, Busy
<1>3. CASE t \in Callers
  <2>1. t \notin Runs /\ "release" \in Labels
    BY <1>3, Kinds DEF Labels
  <2>2. Raised(t) = [Idle EXCEPT !.pc = "release"]
    BY <1>3, <2>1 DEF Raised
  <2>3. Raised(t) \in Local /\ Raised(t).pc = "release" /\ Raised(t).name = NoName
    BY <2>1, <2>2, IdleAt
  <2> QED
    BY <1>3, <2>1, <2>3, Kinds DEF ThreadFits, UploadLabels, Uploading, Closing, Busy
<1>4. CASE t \in Cleaners
  <2>1. t \notin Runs /\ t \notin Callers /\ "ended" \in Labels
    BY <1>4, Kinds DEF Labels
  <2>2. Raised(t) = [Idle EXCEPT !.pc = "ended"]
    BY <2>1 DEF Raised, Ended
  <2>3. Raised(t) \in Local /\ Raised(t).pc = "ended" /\ Raised(t).name = NoName
    BY <2>1, <2>2, IdleAt
  <2> QED
    BY <1>4, <2>1, <2>3 DEF ThreadFits, UploadLabels, Uploading, Closing, Busy
<1> QED
  BY <1>2, <1>3, <1>4 DEF Threads

\* What an upload that is refused is left with.
LEMMA DoneLocals ==
  ASSUME LocalsOK, NEW t \in Threads \ Cleaners, loc[t].pc \in UploadLabels, NEW x \in UploadResults
  PROVE  /\ Done(t, x) \in Local /\ ThreadFits(t, Done(t, x))
         /\ Done(t, x).name = NoName /\ Done(t, x).pc = "returned"
         /\ Done(t, x).target = loc[t].target /\ Done(t, x).result = x
<1>1. loc[t].target \in Targets
  BY DEF LocalsOK, ThreadFits
<1>2. "returned" \in Labels
  BY DEF Labels, UploadLabels
<1>3. Done(t, x) = ReturnedWith(loc[t].target, x)
  BY DEF Done, ReturnedWith
<1>4. /\ Done(t, x) \in Local /\ Done(t, x).pc = "returned" /\ Done(t, x).name = NoName
      /\ Done(t, x).target = loc[t].target /\ Done(t, x).result = x
  BY <1>1, <1>2, <1>3, IdleReturned
<1> QED
  BY <1>1, <1>4 DEF ThreadFits, UploadLabels, Uploading, Closing

\* A thread moves on while it keeps the lock, or while it has none.
LEMMA Moves ==
  ASSUME LocalsOK, HolderOK, NEW t \in Threads, NEW l \in Local, ThreadFits(t, l),
         loc' = [loc EXCEPT ![t] = l], lock' = lock,
         t \notin Cleaners => (Busy(l) <=> Busy(loc[t]))
  PROVE  LocalsOK' /\ HolderOK'
<1>1. loc' \in [Threads -> Local] /\ loc'[t] = l /\ \A u \in Threads : u # t => loc'[u] = loc[u]
  BY DEF LocalsOK
<1>2. LocalsOK'
  BY <1>1 DEF LocalsOK
<1>3. ASSUME NEW u \in Runs \cup Callers PROVE Busy(loc[u])' <=> lock' = u
  <2>1. u \in Threads /\ u \notin Cleaners
    BY Kinds
  <2>2. Busy(loc'[u]) <=> Busy(loc[u])
    BY <1>1, <2>1
  <2>3. Busy(loc[u]) <=> lock = u
    BY DEF HolderOK
  <2> QED
    BY <2>2, <2>3 DEF Busy
<1> QED
  BY <1>2, <1>3 DEF HolderOK

\* What a look at the record of a staged PEM comes to: the thread goes on to save
\* the changed document, or it raises because the record is gone.
Saving(t, rec, then, result) ==
  [loc[t] EXCEPT !.pc = "save", !.doc = staged, !.rec = rec, !.then = then, !.result = result]
Edited(t, rec, then, result) ==
  IF staged[loc[t].name] = NoRecord THEN Raised(t) ELSE Saving(t, rec, then, result)

\* What the caller of Edit gives it.
EditArguments(t, rec, then, result) ==
  /\ rec \in Record \/ staged[loc[t].name] = NoRecord
  /\ then \in IF t \in Cleaners THEN {"ended"} ELSE UploadSteps
  /\ result \in UploadResults \cup {"none"}
  /\ then = "returned" => result \in UploadResults

\* The locals after Edit, for either outcome.
LEMMA EditedLocals ==
  ASSUME LocalsOK, staged \in [Names -> Record], NEW t \in Threads,
         loc[t].pc \in Uploading \ {"begin", "save"},
         NEW rec, NEW then, NEW result, EditArguments(t, rec, then, result)
  PROVE  /\ Edit(t, rec, then, result) => loc' = [loc EXCEPT ![t] = Edited(t, rec, then, result)]
         /\ Edited(t, rec, then, result) \in Local
         /\ ThreadFits(t, Edited(t, rec, then, result))
         /\ t \notin Cleaners => Busy(Edited(t, rec, then, result)) /\ Busy(loc[t])
         /\ \/ /\ Edited(t, rec, then, result) = Raised(t)
               /\ staged[loc[t].name] = NoRecord
            \/ /\ staged[loc[t].name] # NoRecord
               /\ Edited(t, rec, then, result).pc = "save"
               /\ Edited(t, rec, then, result).doc = staged
               /\ Edited(t, rec, then, result).rec = rec
               /\ Edited(t, rec, then, result).then = then
               /\ Edited(t, rec, then, result).result = result
               /\ Edited(t, rec, then, result).name = loc[t].name
               /\ Edited(t, rec, then, result).target = loc[t].target
<1> DEFINE l == loc[t]
           m == Edited(t, rec, then, result)
<1>1. l \in Local /\ ThreadFits(t, l) /\ l.pc \in UploadLabels
  BY DEF LocalsOK, Uploading, UploadLabels
<1>2. Edit(t, rec, then, result) => loc' = [loc EXCEPT ![t] = m]
  BY DEF Edit, Edited, Saving
<1>3. t \notin Cleaners => Busy(l)
  BY DEF Busy, Uploading
<1>4. CASE staged[l.name] = NoRecord
  <2>1. m = Raised(t)
    BY <1>4 DEF Edited
  <2> QED
    BY <1>1, <1>2, <1>3, <1>4, <2>1, RaisedLocals
<1>5. CASE staged[l.name] # NoRecord
  <2>1. /\ m = [loc[t] EXCEPT !.pc = "save", !.doc = staged, !.rec = rec, !.then = then,
                              !.result = result]
        /\ rec \in Record /\ "save" \in Labels /\ then \in UploadSteps \cup {"idle", "ended"}
        /\ result \in UploadResults \cup {"none"}
    BY <1>5 DEF Edited, Saving, Labels, UploadLabels, EditArguments
  <2> HIDE DEF m
  <2>2. /\ m \in Local /\ m.pc = "save" /\ m.doc = staged /\ m.rec = rec /\ m.then = then
        /\ m.result = result /\ m.name = l.name /\ m.target = l.target
    BY ONLY <1>1, <2>1, staged \in [Names -> Record] DEF Local
  <2>3. ThreadFits(t, m)
    BY <1>1, <2>2 DEF ThreadFits, UploadLabels, Uploading, Closing, EditArguments
  <2>4. Busy(m)
    BY <2>2 DEF Busy
  <2> QED
    BY <1>2, <1>3, <1>5, <2>2, <2>3, <2>4 DEF m
<1> QED
  BY <1>4, <1>5

\* A marked record is one of the same PEM.
LEMMA Marked ==
  ASSUME LocalsOK, staged \in [Names -> Record], NEW t \in Threads, loc[t].name \in Names,
         NEW status \in {"staged", "cleanup_pending", "delete_failed", "deleted"}
  PROVE  LET rec == Mark(t, status) IN
         /\ rec \in Record /\ rec # NoRecord
         /\ rec.target = staged[loc[t].name].target /\ rec.status = status
<1> DEFINE old == staged[loc[t].name]
<1>1. old \in Record
  OBVIOUS
<1>2. Mark(t, status) = [old EXCEPT !.status = status]
  BY DEF Mark
<1> HIDE DEF old
<1>3. /\ Mark(t, status) \in Record /\ Mark(t, status).target = old.target
      /\ Mark(t, status).status = status
  BY ONLY <1>1, <1>2, status \in {"staged", "cleanup_pending", "delete_failed", "deleted"}
     DEF Record
<1>4. NoRecord.status = "absent"
  BY DEF NoRecord
<1> QED
  BY <1>3, <1>4 DEF old

(***************************************************************************)
(* Staged PEMs and their records                                           *)
(***************************************************************************)

\* A thread that has not transferred its PEM yet has a name for it.
LEMMA FreshName ==
  ASSUME LocalsOK, NEW t \in Threads, BeforeTransfer(loc[t])
  PROVE  loc[t].name \in Names /\ loc[t].name # NoName /\ loc[t].pc \in {"stage", "save"}
BY NullAssumption DEF LocalsOK, ThreadFits, BeforeTransfer, Uploading

\* Threads that go on without looking at records, and without a new name.
LEMMA QuietPems ==
  ASSUME PemsOK, LocalsOK, UNCHANGED <<staged, astray>>,
         \A n \in Names : SentTo(n, onDevice'[n]),
         \A u \in Threads : \/ loc'[u] = loc[u]
                            \/ /\ loc'[u].pc \notin {"save", "stage"}
                               /\ loc'[u].name \in {NoName, loc[u].name}
  PROVE  PemsOK'
<1>1. ASSUME NEW n \in Names PROVE SentTo(n, onDevice[n])'
  BY DEF SentTo, Known
<1>2. ASSUME NEW t \in Threads PROVE Editing(t)'
  BY DEF Editing, PemsOK
<1>3. ASSUME NEW t \in Threads PROVE Fresh(t)'
  <2>1. SUFFICES ASSUME BeforeTransfer(loc'[t]), loc'[t].name \notin astray PROVE Fresh(t)'
    BY DEF Fresh, BeforeTransfer
  <2>2. loc'[t] = loc[t]
    BY <2>1 DEF BeforeTransfer
  <2>3. Fresh(t) /\ BeforeTransfer(loc[t])
    BY <2>1, <2>2 DEF PemsOK
  <2>4. loc[t].name # NoName
    BY <2>3, FreshName
  <2>5. \A u \in Threads \ {t} : loc'[u].name # loc[t].name
    BY <2>1, <2>2, <2>3, <2>4 DEF Fresh
  <2>6. \A u \in Threads : loc'[u].pc = "save" => loc'[u] = loc[u]
    OBVIOUS
  <2> QED
    BY <2>2, <2>3, <2>5, <2>6 DEF Fresh
<1> QED
  BY <1>1, <1>2, <1>3 DEF PemsOK

\* A thread has looked at the record of its PEM and goes on to save it changed.
LEMMA EditPems ==
  ASSUME PemsOK, LocalsOK, UNCHANGED <<staged, astray>>, NEW t \in Threads, NEW m,
         loc' = [loc EXCEPT ![t] = m],
         m.pc = "save" /\ m.doc = staged /\ m.then # "stage" /\ m.name = loc[t].name,
         staged[m.name] # NoRecord, m.rec # NoRecord,
         \A n \in Names : SentTo(n, onDevice'[n]),
         onDevice'[m.name] # NoTarget /\ m.name \notin astray => Known(onDevice'[m.name], m.rec)
  PROVE  PemsOK'
<1>1. loc'[t] = m /\ \A u \in Threads : u # t => loc'[u] = loc[u]
  BY DEF LocalsOK
<1>2. ASSUME NEW n \in Names PROVE SentTo(n, onDevice[n])'
  <2>1. SUFFICES ASSUME onDevice'[n] # NoTarget, n \notin astray,
                        NEW u \in Threads, loc'[u].pc = "save"
                 PROVE  /\ Known(onDevice'[n], loc'[u].doc[n])
                        /\ loc'[u].name = n => Known(onDevice'[n], loc'[u].rec)
    BY DEF SentTo, Known
  <2>2. SentTo(n, onDevice'[n])
    OBVIOUS
  <2>3. CASE u = t
    BY <1>1, <2>1, <2>2, <2>3 DEF SentTo
  <2>4. CASE u # t
    BY <1>1, <2>1, <2>2, <2>4 DEF SentTo
  <2> QED
    BY <2>3, <2>4
<1>3. ASSUME NEW u \in Threads PROVE Editing(u)'
  BY <1>1 DEF Editing, PemsOK
<1>4. ASSUME NEW u \in Threads PROVE Fresh(u)'
  <2>1. SUFFICES ASSUME BeforeTransfer(loc'[u]), loc'[u].name \notin astray PROVE Fresh(u)'
    BY DEF Fresh, BeforeTransfer
  <2>2. u # t /\ loc'[u] = loc[u]
    BY <1>1, <2>1 DEF BeforeTransfer
  <2>3. Fresh(u) /\ BeforeTransfer(loc[u])
    BY <2>1, <2>2 DEF PemsOK
  <2>4. \A v \in Threads \ {u} : loc'[v].name # loc[u].name
    BY <1>1, <2>1, <2>2, <2>3 DEF Fresh
  <2>5. \A v \in Threads : loc'[v].pc = "save" =>
          loc'[v].doc[loc[u].name] \in {NoRecord, NewRecord(loc[u].target)}
    BY <1>1, <2>1, <2>2, <2>3 DEF Fresh
  <2> QED
    BY <2>2, <2>3, <2>4, <2>5 DEF Fresh
<1> QED
  BY <1>2, <1>3, <1>4 DEF PemsOK

\* A name is taken for a PEM that is to be transferred, and its first record made.
LEMMA RecordPems ==
  ASSUME PemsOK, LocalsOK, NEW t \in Threads, loc[t].target \in Targets, RecordStaged(t)
  PROVE  PemsOK'
<1>1. PICK n \in Names :
        /\ staged[n] = NoRecord
        /\ \A u \in Threads : loc[u].name # n
        /\ n \notin astray
        /\ loc' = [loc EXCEPT ![t] = [@ EXCEPT !.pc = "save", !.name = n, !.doc = staged,
                                        !.rec = NewRecord(loc[t].target), !.then = "stage"]]
  BY DEF RecordStaged
<1>2. UNCHANGED <<staged, astray, onDevice>>
  BY DEF RecordStaged, device
<1> DEFINE m == [loc[t] EXCEPT !.pc = "save", !.name = n, !.doc = staged,
                               !.rec = NewRecord(loc[t].target), !.then = "stage"]
<1>3. loc'[t] = m /\ \A u \in Threads : u # t => loc'[u] = loc[u]
  BY <1>1 DEF LocalsOK
<1>4. /\ m.pc = "save" /\ m.name = n /\ m.doc = staged /\ m.rec = NewRecord(loc[t].target)
      /\ m.then = "stage" /\ m.target = loc[t].target /\ m.rec # NoRecord
  <2>1. loc[t] \in Local
    BY DEF LocalsOK
  <2> QED
    BY <2>1, RecordTypes DEF Local
<1> HIDE DEF m
<1>5. onDevice[n] = NoTarget
  BY <1>1 DEF PemsOK, SentTo
<1>6. \A u \in Threads : loc[u].pc = "save" => loc[u].doc[n] = NoRecord
  BY <1>1 DEF PemsOK, Editing
<1>7. ASSUME NEW k \in Names PROVE SentTo(k, onDevice[k])'
  <2>1. SentTo(k, onDevice[k])
    BY DEF PemsOK
  <2>2. CASE k = n
    BY <1>2, <1>5, <2>2 DEF SentTo
  <2>3. CASE k # n
    <3>1. SUFFICES ASSUME onDevice[k] # NoTarget, k \notin astray,
                          NEW u \in Threads, loc'[u].pc = "save"
                   PROVE  /\ Known(onDevice[k], loc'[u].doc[k])
                          /\ loc'[u].name = k => Known(onDevice[k], loc'[u].rec)
      BY <1>2, <2>1 DEF SentTo, Known
    <3>2. CASE u = t
      BY <1>3, <1>4, <2>1, <2>3, <3>1, <3>2 DEF SentTo
    <3>3. CASE u # t
      BY <1>3, <2>1, <3>1, <3>3 DEF SentTo
    <3> QED
      BY <3>2, <3>3
  <2> QED
    BY <2>2, <2>3
<1>8. ASSUME NEW u \in Threads PROVE Editing(u)'
  BY <1>2, <1>3, <1>4 DEF Editing, PemsOK
<1>9. ASSUME NEW u \in Threads PROVE Fresh(u)'
  <2>1. CASE u = t
    BY <1>1, <1>2, <1>3, <1>4, <1>6, <2>1 DEF Fresh
  <2>2. CASE u # t
    <3>1. SUFFICES ASSUME BeforeTransfer(loc[u]), loc[u].name \notin astray PROVE Fresh(u)'
      BY <1>2, <1>3, <2>2 DEF Fresh, BeforeTransfer
    <3>2. Fresh(u) /\ loc'[u] = loc[u] /\ loc[u].name # n
      BY <1>1, <1>3, <2>2 DEF PemsOK
    <3>3. \A v \in Threads \ {u} : loc'[v].name # loc[u].name
      BY <1>3, <1>4, <3>1, <3>2 DEF Fresh
    <3>4. \A v \in Threads : loc'[v].pc = "save" =>
            loc'[v].doc[loc[u].name] \in {NoRecord, NewRecord(loc[u].target)}
      BY <1>3, <1>4, <3>1, <3>2 DEF Fresh
    <3> QED
      BY <1>2, <3>1, <3>2, <3>3, <3>4 DEF Fresh
  <2> QED
    BY <2>1, <2>2
<1> QED
  BY <1>7, <1>8, <1>9 DEF PemsOK

\* A clean-up begins with a PEM that has been transferred, or that goes astray.
LEMMA CleanupPems ==
  ASSUME PemsOK, LocalsOK, NEW t \in Cleaners, NEW n \in Names, CleanupOne(t, n)
  PROVE  PemsOK'
<1>1. /\ Transferring(n) => n \in astray'
      /\ loc' = [loc EXCEPT ![t] = [Idle EXCEPT !.pc = "delete", !.name = n]]
      /\ UNCHANGED <<staged, onDevice>> /\ astray \subseteq astray'
  BY DEF CleanupOne, device
<1> DEFINE m == [Idle EXCEPT !.pc = "delete", !.name = n]
<1>2. t \in Threads /\ m.pc = "delete" /\ m.name = n
  BY Kinds, IdleName DEF Labels, UploadLabels
<1>3. loc'[t] = m /\ \A u \in Threads : u # t => loc'[u] = loc[u]
  BY <1>1, <1>2 DEF LocalsOK
<1> HIDE DEF m
<1>4. ASSUME NEW k \in Names PROVE SentTo(k, onDevice[k])'
  <2>1. SentTo(k, onDevice[k])
    BY DEF PemsOK
  <2>2. \A u \in Threads : loc'[u].pc = "save" => loc'[u] = loc[u]
    BY <1>2, <1>3
  <2> QED
    BY <1>1, <2>1, <2>2 DEF SentTo, Known
<1>5. ASSUME NEW u \in Threads PROVE Editing(u)'
  BY <1>1, <1>2, <1>3 DEF Editing, PemsOK
<1>6. ASSUME NEW u \in Threads, BeforeTransfer(loc'[u]), loc'[u].name \notin astray'
      PROVE  Fresh(u)'
  <2>1. u # t /\ loc'[u] = loc[u] /\ Fresh(u)
    BY <1>2, <1>3, <1>6 DEF BeforeTransfer, PemsOK
  <2>2. loc[u].name # n
    <3>1. loc[u].name = n => Transferring(n)
      BY <1>6, <2>1 DEF Transferring, BeforeTransfer, At
    <3> QED
      BY <1>1, <1>6, <2>1, <3>1
  <2>3. \A v \in Threads \ {u} : loc'[v].name # loc[u].name
    BY <1>1, <1>2, <1>3, <1>6, <2>1, <2>2 DEF Fresh
  <2>4. \A v \in Threads : loc'[v].pc = "save" => loc'[v] = loc[v]
    BY <1>2, <1>3
  <2> QED
    BY <1>1, <1>6, <2>1, <2>3, <2>4 DEF Fresh
<1>7. ASSUME NEW u \in Threads PROVE Fresh(u)'
  BY <1>6 DEF Fresh, BeforeTransfer
<1> QED
  BY <1>4, <1>5, <1>7 DEF PemsOK

\* A thread writes the document it has read, with its record changed; what others
\* have added to it since is overwritten.
LEMMA SavePems ==
  ASSUME PemsOK, LocalsOK, staged \in [Names -> Record], NEW t \in Threads, SaveRecords(t),
         NEW m, loc' = [loc EXCEPT ![t] = m], m.pc # "save", m.name \in {NoName, loc[t].name},
         m.pc = "stage" => loc[t].then = "stage" /\ m.name = loc[t].name /\ m.target = loc[t].target
  PROVE  PemsOK'
<1> DEFINE name == loc[t].name
           doc == loc[t].doc
           rec == loc[t].rec
           lost == {n \in Names \ {name} : staged[n] # NoRecord /\ doc[n] = NoRecord}
<1>1. /\ loc[t].pc = "save" /\ staged' = [doc EXCEPT ![name] = rec]
      /\ astray' = astray \cup lost /\ onDevice' = onDevice
  BY DEF SaveRecords, At, device
<1>2. loc[t] \in Local /\ name \in Names /\ ThreadFits(t, loc[t])
  BY <1>1 DEF LocalsOK, ThreadFits, Uploading
<1>3. doc \in [Names -> Record] /\ rec # NoRecord /\ Editing(t)
  BY <1>1, <1>2 DEF Local, PemsOK, Editing
<1>4. staged'[name] = rec /\ \A n \in Names : n # name => staged'[n] = doc[n]
  BY <1>1, <1>2, <1>3
<1>5. loc'[t] = m /\ \A u \in Threads : u # t => loc'[u] = loc[u]
  BY DEF LocalsOK
<1>6. \A n \in Names : n # name /\ staged[n] # NoRecord /\ doc[n] = NoRecord => n \in astray'
  BY <1>1
<1>7. \A n \in astray : n \in astray'
  BY <1>1
<1>8. \A n \in Names : staged[n] # NoRecord \/ n \in astray
                         => staged'[n] # NoRecord \/ n \in astray'
  BY <1>3, <1>4, <1>6, <1>7
<1> HIDE DEF lost, name, doc, rec
<1>9. ASSUME NEW n \in Names PROVE SentTo(n, onDevice[n])'
  <2>1. SentTo(n, onDevice[n])
    BY DEF PemsOK
  <2>2. SUFFICES ASSUME onDevice[n] # NoTarget, n \notin astray' PROVE SentTo(n, onDevice[n])'
    BY <1>1 DEF SentTo
  <2>3. Known(onDevice[n], staged'[n])
    <3>1. Known(onDevice[n], doc[n]) /\ (name = n => Known(onDevice[n], rec))
      BY <1>1, <1>7, <2>1, <2>2 DEF SentTo, name, doc, rec
    <3> QED
      BY <1>4, <3>1
  <2>4. staged'[n] # NoRecord
    BY <1>7, <1>8, <2>1, <2>2 DEF SentTo
  <2>5. \A u \in Threads : loc'[u].pc = "save" => loc'[u] = loc[u]
    BY <1>5
  <2> QED
    BY <1>1, <1>7, <2>1, <2>2, <2>3, <2>4, <2>5 DEF SentTo, Known
<1>10. ASSUME NEW u \in Threads PROVE Editing(u)'
  <2>1. SUFFICES ASSUME loc'[u].pc = "save" PROVE Editing(u)'
    BY DEF Editing
  <2>2. loc'[u] = loc[u] /\ Editing(u)
    BY <1>5, <2>1 DEF PemsOK
  <2> QED
    BY <1>8, <2>1, <2>2 DEF Editing
<1>11. ASSUME NEW u \in Threads PROVE Fresh(u)'
  <2>1. SUFFICES ASSUME BeforeTransfer(loc'[u]), loc'[u].name \notin astray' PROVE Fresh(u)'
    BY DEF Fresh, BeforeTransfer
  <2> DEFINE n == loc[u].name
             new == NewRecord(loc[u].target)
  <2>2. BeforeTransfer(loc[u]) /\ loc'[u].name = n /\ loc'[u].target = loc[u].target
    BY <1>1, <1>5, <2>1 DEF BeforeTransfer
  <2>3. Fresh(u) /\ n \in Names /\ n # NoName /\ n \notin astray'
        /\ loc[u].name \notin astray
    BY <1>7, <2>1, <2>2, FreshName DEF PemsOK
  <2> HIDE DEF n, new
  <2>4. \A v \in Threads \ {u} : loc'[v].name # n
    <3>1. \A v \in Threads \ {u} : loc[v].name # n
      BY <2>2, <2>3 DEF Fresh, n
    <3>2. \A v \in Threads : loc'[v].name \in {NoName, loc[v].name}
      BY <1>5 DEF name
    <3> QED
      BY <2>3, <3>1, <3>2
  <2>5. staged'[n] \in {NoRecord, new}
    <3>1. CASE u = t
      <4>1. rec = new /\ n = name
        BY <1>1, <2>2, <2>3, <3>1 DEF Fresh, n, new, rec, name
      <4> QED
        BY <1>4, <4>1
    <3>2. CASE u # t
      <4>1. doc[n] \in {NoRecord, new} /\ n # name
        BY <1>1, <2>2, <2>3, <3>2 DEF Fresh, n, new, doc, name
      <4> QED
        BY <1>4, <2>3, <4>1
    <3> QED
      BY <3>1, <3>2
  <2>6. \A v \in Threads : loc'[v].pc = "save" => loc'[v].doc[n] \in {NoRecord, new}
    BY <1>5, <2>2, <2>3 DEF Fresh, n, new
  <2>7. loc'[u].pc = "save" => loc'[u].rec = new
    BY <1>5, <2>2, <2>3 DEF Fresh, new
  <2>8. loc'[u].pc = "stage" => staged'[n] # NoRecord
    <3>1. CASE u = t
      BY <1>3, <1>4, <3>1 DEF n, name
    <3>2. CASE u # t
      BY <1>1, <1>5, <1>8, <2>2, <2>3, <3>2 DEF Fresh, n
    <3> QED
      BY <3>1, <3>2
  <2>9. loc'[u].name = n /\ NewRecord(loc'[u].target) = new
    BY <2>2 DEF new
  <2> QED
    BY <2>4, <2>5, <2>6, <2>7, <2>8, <2>9 DEF Fresh
<1> QED
  BY <1>9, <1>10, <1>11 DEF PemsOK

(***************************************************************************)
(* Batches                                                                 *)
(***************************************************************************)

\* What a step of another thread may do to batch r: ask it to stop, save it, and
\* work on other devices.
LEMMA Bystander ==
  ASSUME StateTypes, LocalsOK, HolderOK, NEW r \in Runs, RunOK(r),
         loc'[r] = loc[r], lock' = r => lock = r, touched'[r] = touched[r],
         batch'[r].status = batch[r].status, batch'[r].mode = batch[r].mode,
         batch'[r].dev = batch[r].dev, batch[r].stop => batch'[r].stop,
         saved'[r] \in {saved[r], batch'[r]},
         audited \subseteq audited', astray \subseteq astray',
         lock = r => \A n \in Names : onDevice'[n] \in {onDevice[n], NoTarget}
  PROVE  RunOK(r)'
<1> DEFINE l == loc[r]
<1>1. Running(r) /\ Recorded(r) /\ Holding(r) /\ ThreadFits(r, l) /\ r \notin Cleaners
  BY Kinds DEF RunOK, LocalsOK
<1>2. l.pc # "idle" /\ l.pc # "ended" => lock = r
  BY DEF HolderOK, Busy
<1>3. /\ Ready(r)' <=> Ready(r)
      /\ Outcomes(r)' = Outcomes(r)
      /\ \A x : With(r, x)' = With(r, x)
      /\ AllGood(batch'[r]) <=> AllGood(batch[r])
  BY DEF Ready, Outcomes, TargetsOf, With, AllGood, Goal
<1>4. l.pc \in UploadLabels => l.target \in Targets
  BY <1>1 DEF ThreadFits
<1>5. Running(r)'
  <2>2. l.pc \in UploadLabels => saved'[r].dev[l.target] = "uploading"
    BY <1>1 DEF Running
  <2>3. l.pc = "hide" => Outcomes(r)' \subseteq audited'
    BY <1>1, <1>3 DEF Running
  <2>4. /\ l.pc = "wrap_up" /\ Ready(r)' => batch'[r].stop \/ AllGood(batch'[r])
        /\ l.pc \in Closing /\ l.result = "complete" => AllGood(batch'[r])
    BY <1>1, <1>3 DEF Running
  <2>5. /\ l.pc # "idle" => batch'[r].status = "running" /\ batch'[r].mode \in {"test", "upload"}
        /\ l.pc = "test" => \A t \in Targets : batch'[r].dev[t] \in Tested
        /\ l.pc = "probe" => /\ batch'[r].dev[l.target] = "testing"
                             /\ \A t \in Targets \ {l.target} : batch'[r].dev[t] \in Tested
        /\ l.pc = "upload" => /\ batch'[r].mode = "upload"
                              /\ batch'[r].stop \/ \A t \in Targets : batch'[r].dev[t] \in Proven
        /\ l.pc \in UploadLabels =>
             /\ batch'[r].mode = "upload" /\ batch'[r].dev[l.target] = "uploading"
             /\ \A t \in Targets \ {l.target} : batch'[r].dev[t] \in Proven
    BY <1>1 DEF Running
  <2> QED
    BY <2>2, <2>3, <2>4, <2>5 DEF Running
<1>6. Recorded(r)'
  <2>1. \A t \in touched[r] : batch'[r].dev[t] \in Begun /\ saved'[r].dev[t] \in Begun
    BY <1>1 DEF Recorded
  <2>2. /\ batch'[r].status = "complete" => AllGood(batch'[r])
        /\ saved'[r].status = "complete" => AllGood(saved'[r])
    BY <1>1, <1>3 DEF Recorded
  <2> QED
    BY <2>1, <2>2 DEF Recorded, AllGood, Goal
<1>7. Holding(r)'
  <2>1. SUFFICES ASSUME lock' = r PROVE Holding(r)'
    BY DEF Holding
  <2>2. lock = r
    BY <2>1
  <2>4. ASSUME batch[r].mode = "upload", NEW t \in With(r, "ready"), NEW n \in Names,
               onDevice'[n] = t
        PROVE  n \in astray'
    BY <1>1, <2>2, <2>4, NullAssumption DEF Holding, With
  <2>5. ASSUME l.pc \in Uploading, NEW n \in Names, onDevice'[n] = l.target
        PROVE  n = l.name \/ n \in astray'
    BY <1>1, <1>4, <2>2, <2>5, NullAssumption DEF Holding, Uploading, UploadLabels
  <2> QED
    BY <1>3, <2>2, <2>4, <2>5 DEF Holding
<1> QED
  BY <1>5, <1>6, <1>7 DEF RunOK

\* A step of the upload of a batch itself.
LEMMA OwnUpload ==
  ASSUME StateTypes, LocalsOK, HolderOK, NEW r \in Runs, RunOK(r), loc[r].pc \in UploadLabels,
         NEW m \in Local, loc'[r] = m, m.pc \in UploadLabels, m.target = loc[r].target,
         UNCHANGED <<lock, batch, saved, audited>>,
         touched'[r] \in {touched[r], touched[r] \cup {m.target}},
         astray \subseteq astray',
         \A n \in Names : \/ onDevice'[n] \in {onDevice[n], NoTarget}
                          \/ n = loc[r].name /\ onDevice'[n] = m.target,
         m.pc # "returned" =>
           /\ loc[r].pc # "returned"
           /\ m.name = loc[r].name \/ loc[r].name \notin Names
  PROVE  RunOK(r)'
<1> DEFINE l == loc[r]
<1>1. Running(r) /\ Recorded(r) /\ Holding(r) /\ ThreadFits(r, l) /\ r \notin Cleaners
  BY Kinds DEF RunOK, LocalsOK
<1>2. lock = r
  BY DEF HolderOK, Busy, UploadLabels
<1>3. l.target \in Targets
  BY <1>1 DEF ThreadFits
<1>4. /\ batch[r].status = "running" /\ batch[r].mode = "upload"
      /\ batch[r].dev[m.target] = "uploading" /\ saved[r].dev[m.target] = "uploading"
      /\ \A t \in Targets \ {m.target} : batch[r].dev[t] \in Proven
  BY <1>1 DEF Running, UploadLabels
<1>5. m.pc \notin {"idle", "test", "probe", "upload", "wrap_up", "hide"} \cup Closing
  BY DEF UploadLabels, Closing
<1>6. Running(r)'
  BY <1>4, <1>5 DEF Running
<1>7. Recorded(r)'
  BY <1>1, <1>4 DEF Recorded, Begun
<1>8. Holding(r)'
  <2>2. ASSUME NEW t \in With(r, "ready"), NEW n \in Names, onDevice'[n] = t
        PROVE  n \in astray'
    <3>1. t \in Targets /\ t # m.target
      BY <1>4, <2>2 DEF With
    <3>2. onDevice[n] = t
      BY <2>2, <3>1, NullAssumption
    <3> QED
      BY <1>1, <1>2, <1>4, <3>2 DEF Holding
  <2>3. ASSUME m.pc \in Uploading, NEW n \in Names, onDevice'[n] = m.target
        PROVE  n = m.name \/ n \in astray'
    <3>1. m.pc # "returned" /\ l.pc \in Uploading
      BY <2>3 DEF Uploading, UploadLabels
    <3>2. n = l.name \/ n \in astray
      BY <1>1, <1>2, <1>3, <2>3, <3>1, NullAssumption DEF Holding
    <3> QED
      BY <3>1, <3>2
  <2> QED
    BY <2>2, <2>3 DEF Holding, With
<1> QED
  BY <1>6, <1>7, <1>8 DEF RunOK

(***************************************************************************)
(* Steps of an upload or a clean-up                                        *)
(***************************************************************************)

\* What such a step has to do to keep the invariant: the thread keeps the lock it
\* has, and transfers only its own PEM and only to its own target.
LEMMA UploadMove ==
  ASSUME Invariant, NEW t \in Threads, loc[t].pc \in UploadLabels, NEW m \in Local,
         ThreadFits(t, m), loc' = [loc EXCEPT ![t] = m],
         t \notin Cleaners => Busy(m),
         UNCHANGED <<lock, batch, saved, audited, completed>>,
         staged' \in [Names -> Record], PemsOK',
         serves' \subseteq Targets, astray \subseteq astray', astray' \subseteq Names,
         onDevice' \in [Names -> Targets \cup {NoTarget}],
         \A n \in Names : \/ onDevice'[n] \in {onDevice[n], NoTarget}
                          \/ t \notin Cleaners /\ n = loc[t].name /\ onDevice'[n] = loc[t].target,
         \/ touched' = touched
         \/ t \in Runs /\ touched' = [touched EXCEPT ![t] = @ \cup {loc[t].target}],
         t \in Runs =>
           /\ m.pc \in UploadLabels /\ m.target = loc[t].target
           /\ m.pc # "returned" =>
                /\ loc[t].pc # "returned"
                /\ m.name = loc[t].name \/ loc[t].name \notin Names
  PROVE  Invariant'
<1>1. StateTypes /\ LocalsOK /\ HolderOK /\ \A r \in Runs : RunOK(r)
  BY DEF Invariant
<1>2. LocalsOK' /\ HolderOK'
  <2>1. t \notin Cleaners => Busy(loc[t])
    BY DEF Busy, UploadLabels
  <2> QED
    BY <1>1, <2>1, Moves
<1>3. /\ loc'[t] = m /\ \A u \in Threads : u # t => loc'[u] = loc[u]
      /\ t \in Runs => touched'[t] \in {touched[t], touched[t] \cup {m.target}}
      /\ \A r \in Runs : r # t => touched'[r] = touched[r]
  BY <1>1 DEF LocalsOK, StateTypes
<1>4. StateTypes'
  <2>1. t \in Runs => loc[t].target \in Targets
    BY <1>1, Kinds DEF LocalsOK, ThreadFits
  <2>2. touched' \in [Runs -> SUBSET Targets]
    BY <1>1, <2>1 DEF StateTypes
  <2> QED
    BY <1>1, <2>2 DEF StateTypes
<1>5. ASSUME NEW r \in Runs PROVE RunOK(r)'
  <2>1. CASE r = t
    BY <1>1, <1>3, <2>1, OwnUpload
  <2>2. CASE r # t
    <3>1. r \in Threads /\ loc'[r] = loc[r]
      BY <1>3, <2>2, Kinds
    <3>2. lock = r => t \in Cleaners
      BY <1>1, <2>2 DEF HolderOK, Busy, UploadLabels, Threads
    <3>3. lock = r => \A n \in Names : onDevice'[n] \in {onDevice[n], NoTarget}
      BY <3>2
    <3> QED
      BY <1>1, <1>3, <2>2, <3>1, <3>3, Bystander
  <2> QED
    BY <2>1, <2>2
<1> QED
  BY <1>2, <1>4, <1>5 DEF Invariant

\* A thread at one of these labels: its locals, and what is known of its PEM.
LEMMA Uploader ==
  ASSUME Invariant, NEW t \in Threads, loc[t].pc \in UploadLabels
  PROVE  /\ StateTypes /\ LocalsOK /\ PemsOK /\ loc[t] \in Local /\ ThreadFits(t, loc[t])
         /\ t \notin Cleaners => loc[t].target \in Targets
         /\ t \in Runs => t \notin Cleaners /\ Running(t)
         /\ loc[t].pc \in Uploading \ {"begin"} => loc[t].name \in Names
<1>1. StateTypes /\ LocalsOK /\ PemsOK /\ loc[t] \in Local /\ ThreadFits(t, loc[t])
  BY DEF Invariant, LocalsOK
<1>2. t \notin Cleaners => loc[t].target \in Targets
  BY <1>1 DEF ThreadFits
<1>3. t \in Runs => t \notin Cleaners /\ Running(t)
  BY Kinds DEF Invariant, RunOK
<1>4. loc[t].pc \in Uploading \ {"begin"} => loc[t].name \in Names
  BY <1>1 DEF ThreadFits
<1> QED
  BY <1>1, <1>2, <1>3, <1>4

\* Nothing is transferred.
LEMMA RefuseStep ==
  ASSUME Invariant, NEW t \in Threads, Refuse(t) \/ SaveRecordsFails(t) PROVE Invariant'
<1>1. /\ loc[t].pc \in {"begin", "save"}
      /\ UNCHANGED <<lock, batch, saved, staged, onDevice, serves, touched, audited, completed,
                     astray>>
  BY DEF Refuse, SaveRecordsFails, At, device, store
<1>2. loc[t].pc \in UploadLabels
  BY <1>1 DEF UploadLabels
<1>3. /\ StateTypes /\ LocalsOK /\ PemsOK /\ ThreadFits(t, loc[t])
      /\ t \in Runs => t \notin Cleaners
  BY <1>2, Uploader
<1>4. PICK m : /\ loc' = [loc EXCEPT ![t] = m] /\ m \in Local /\ ThreadFits(t, m)
               /\ m.name = NoName /\ m.pc \in {"returned", "release", "ended"}
               /\ t \notin Cleaners => Busy(m)
               /\ t \in Runs => /\ m.pc = "returned" /\ m.target = loc[t].target
                                /\ m.result # "verified"
  <2>1. CASE loc' = [loc EXCEPT ![t] = Raised(t)]
    BY <1>2, <1>3, <2>1, RaisedLocals
  <2>2. CASE t \notin Cleaners /\ loc' = [loc EXCEPT ![t] = Done(t, "unresolved")]
    <3>1. "unresolved" \in UploadResults
      BY DEF UploadResults
    <3>2. /\ Done(t, "unresolved") \in Local /\ ThreadFits(t, Done(t, "unresolved"))
          /\ Done(t, "unresolved").name = NoName /\ Done(t, "unresolved").pc = "returned"
          /\ Done(t, "unresolved").target = loc[t].target
          /\ Done(t, "unresolved").result = "unresolved"
      BY <1>2, <1>3, <2>2, <3>1, DoneLocals
    <3> QED
      BY <2>2, <3>2 DEF Busy
  <2>3. At(t, "begin") => t \notin Cleaners
    BY <1>3 DEF At, ThreadFits
  <2> QED
    BY <2>1, <2>2, <2>3 DEF Refuse, SaveRecordsFails
<1>5. PemsOK'
  <2>1. \A n \in Names : SentTo(n, onDevice'[n])
    BY <1>1, <1>3 DEF PemsOK
  <2>2. \A u \in Threads : \/ loc'[u] = loc[u]
                           \/ loc'[u].pc \notin {"save", "stage"} /\ loc'[u].name = NoName
    BY <1>3, <1>4 DEF LocalsOK
  <2> QED
    BY <1>1, <1>3, <2>1, <2>2, QuietPems
<1>6. t \in Runs => m.pc \in UploadLabels
  BY <1>4 DEF UploadLabels
<1>7. /\ staged' \in [Names -> Record] /\ onDevice' \in [Names -> Targets \cup {NoTarget}]
      /\ serves' \subseteq Targets /\ astray' \subseteq Names
  BY <1>1, <1>3 DEF StateTypes
<1> QED
  BY <1>1, <1>2, <1>4, <1>5, <1>6, <1>7, UploadMove

\* The name and the first record of a PEM.
LEMMA RecordStagedStep ==
  ASSUME Invariant, NEW t \in Threads, RecordStaged(t) PROVE Invariant'
<1>1. /\ loc[t].pc = "begin"
      /\ UNCHANGED <<lock, batch, saved, staged, onDevice, serves, touched, audited, completed,
                     astray>>
  BY DEF RecordStaged, At, device, store
<1>2. loc[t].pc \in UploadLabels
  BY <1>1 DEF UploadLabels
<1>3. /\ StateTypes /\ LocalsOK /\ PemsOK /\ loc[t] \in Local /\ ThreadFits(t, loc[t])
      /\ t \notin Cleaners /\ loc[t].target \in Targets
  BY <1>1, <1>2, Uploader DEF ThreadFits
<1> DEFINE new == NewRecord(loc[t].target)
<1>4. PICK n \in Names :
        loc' = [loc EXCEPT ![t] = [@ EXCEPT !.pc = "save", !.name = n, !.doc = staged,
                                     !.rec = new, !.then = "stage"]]
  BY DEF RecordStaged
<1>5. "save" \in Labels /\ new \in Record /\ staged \in [Names -> Record]
        /\ "stage" \in UploadSteps
  BY <1>3, RecordTypes DEF Labels, UploadLabels, UploadSteps, StateTypes
<1> HIDE DEF new
<1> DEFINE m == [loc[t] EXCEPT !.pc = "save", !.name = n, !.doc = staged, !.rec = new,
                               !.then = "stage"]
<1>6. m = [loc[t] EXCEPT !.pc = "save", !.name = n, !.doc = staged, !.rec = new,
                         !.then = "stage"]
  OBVIOUS
<1>7. loc' = [loc EXCEPT ![t] = m]
  BY <1>4
<1> HIDE DEF m
<1>8. /\ m \in Local /\ m.pc = "save" /\ m.name = n /\ m.then = "stage"
      /\ m.target = loc[t].target /\ m.result = loc[t].result
  <2>1. loc[t] \in Local
    BY <1>3
  <2> QED
    BY ONLY <1>5, <1>6, <2>1, n \in Names DEF Local
<1>9. ThreadFits(t, m)
  BY <1>3, <1>5, <1>8 DEF ThreadFits, UploadLabels, Uploading, Closing
<1>10. PemsOK'
  BY <1>3, RecordPems
<1>11. /\ Busy(m) /\ m.pc \in UploadLabels /\ m.pc # "delete" /\ m.pc # "returned"
       /\ m.result # "verified" /\ loc[t].name \notin Names /\ loc[t].pc # "returned"
  BY <1>1, <1>3, <1>8, NullAssumption DEF Busy, UploadLabels, ThreadFits
<1>12. /\ staged' \in [Names -> Record] /\ onDevice' \in [Names -> Targets \cup {NoTarget}]
       /\ serves' \subseteq Targets /\ astray' \subseteq Names
  BY <1>1, <1>3 DEF StateTypes
<1> QED
  BY <1>1, <1>2, <1>7, <1>8, <1>9, <1>10, <1>11, <1>12, UploadMove

\* The thread has looked at its record and changes it, or raises: whatever happened
\* on the device, its PEM is there only where the record says so.
LEMMA EditStep ==
  ASSUME Invariant, NEW t \in Threads, loc[t].pc \in Uploading \ {"begin", "save"},
         NEW rec, NEW then \in IF t \in Cleaners THEN {"ended"} ELSE UploadSteps \ {"stage"},
         NEW result \in UploadResults \cup {"none"}, Edit(t, rec, then, result),
         then = "returned" => result \in UploadResults,
         staged[loc[t].name] # NoRecord => rec \in Record /\ rec # NoRecord,
         UNCHANGED <<lock, batch, saved, staged, audited, completed, astray>>,
         serves' \subseteq Targets,
         onDevice' \in [Names -> Targets \cup {NoTarget}],
         \A n \in Names : \/ onDevice'[n] \in {onDevice[n], NoTarget}
                          \/ t \notin Cleaners /\ n = loc[t].name /\ onDevice'[n] = loc[t].target,
         \A n \in Names : SentTo(n, onDevice'[n]),
         onDevice'[loc[t].name] # NoTarget /\ loc[t].name \notin astray
           => Known(onDevice'[loc[t].name], rec),
         \/ touched' = touched
         \/ t \in Runs /\ touched' = [touched EXCEPT ![t] = @ \cup {loc[t].target}]
  PROVE  Invariant'
<1> DEFINE m == Edited(t, rec, then, result)
<1>1. loc[t].pc \in UploadLabels /\ loc[t].pc # "returned"
  BY DEF Uploading, UploadLabels
<1>2. /\ StateTypes /\ LocalsOK /\ PemsOK /\ loc[t].name \in Names
      /\ staged \in [Names -> Record] /\ astray' \subseteq Names
      /\ t \in Runs => t \notin Cleaners
  BY <1>1, Uploader DEF StateTypes
<1>3. /\ loc' = [loc EXCEPT ![t] = m] /\ m \in Local /\ ThreadFits(t, m)
      /\ t \notin Cleaners => Busy(m)
      /\ \/ m = Raised(t) /\ staged[loc[t].name] = NoRecord
         \/ /\ staged[loc[t].name] # NoRecord
            /\ m.pc = "save" /\ m.doc = staged /\ m.rec = rec /\ m.then = then
            /\ m.result = result /\ m.name = loc[t].name /\ m.target = loc[t].target
  <2>1. EditArguments(t, rec, then, result)
    BY DEF EditArguments
  <2> QED
    BY <1>2, <2>1, EditedLocals
<1>4. m = Raised(t) => /\ m.name = NoName /\ m.pc \in {"returned", "release", "ended"}
                       /\ t \in Runs => /\ m.pc = "returned" /\ m.target = loc[t].target
                                        /\ m.result = "upload_unconfirmed"
  BY <1>1, <1>2, RaisedLocals
<1> HIDE DEF m
<1>5. CASE m = Raised(t)
  <2>1. \A u \in Threads : \/ loc'[u] = loc[u]
                           \/ loc'[u].pc \notin {"save", "stage"} /\ loc'[u].name = NoName
    BY <1>2, <1>3, <1>4, <1>5 DEF LocalsOK
  <2>2. PemsOK'
    BY <1>2, <2>1, QuietPems
  <2>3. t \in Runs => m.pc \in UploadLabels
    BY <1>4, <1>5 DEF UploadLabels
  <2> QED
    BY <1>1, <1>2, <1>3, <1>4, <1>5, <2>2, <2>3, UploadMove
<1>6. CASE m # Raised(t)
  <2>1. /\ staged[loc[t].name] # NoRecord
        /\ m.pc = "save" /\ m.doc = staged /\ m.rec = rec /\ m.then = then
        /\ m.result = result /\ m.name = loc[t].name /\ m.target = loc[t].target
        /\ m.pc \in UploadLabels
    BY <1>3, <1>6 DEF UploadLabels
  <2>2. PemsOK'
    BY <1>2, <1>3, <2>1, EditPems
  <2> QED
    BY <1>1, <1>2, <1>3, <2>1, <2>2, UploadMove
<1> QED
  BY <1>5, <1>6

\* A PEM that is on a device, or just being put there, is known by the record its
\* upload writes, unless that calls it deleted.
LEMMA MarkedKnown ==
  ASSUME Invariant, NEW t \in Threads, loc[t].pc \in Uploading \ {"begin", "save"},
         NEW status \in {"staged", "cleanup_pending", "delete_failed"},
         NEW d, SentTo(loc[t].name, d), d # NoTarget, loc[t].name \notin astray
  PROVE  Known(d, Mark(t, status)) /\ Known(d, staged[loc[t].name])
<1>1. loc[t].pc \in UploadLabels
  BY DEF Uploading, UploadLabels
<1>2. LocalsOK /\ loc[t].name \in Names /\ staged \in [Names -> Record]
  BY <1>1, Uploader DEF StateTypes
<1>3. Known(d, staged[loc[t].name])
  BY DEF SentTo
<1>4. /\ Mark(t, status).target = staged[loc[t].name].target
      /\ Mark(t, status).status = status
  BY <1>2, Marked
<1>5. staged[loc[t].name] # NoRecord
  BY DEF SentTo
<1> QED
  BY <1>3, <1>4, <1>5 DEF Known

\* A record that is there can be marked, or kept as it is.
LEMMA RecordsToSave ==
  ASSUME Invariant, NEW t \in Threads, loc[t].pc \in Uploading \ {"begin", "save"},
         staged[loc[t].name] # NoRecord
  PROVE  /\ staged[loc[t].name] \in Record
         /\ \A status \in {"staged", "cleanup_pending", "delete_failed", "deleted"} :
              Mark(t, status) \in Record /\ Mark(t, status) # NoRecord
<1>1. loc[t].pc \in UploadLabels
  BY DEF Uploading, UploadLabels
<1>2. LocalsOK /\ loc[t].name \in Names /\ staged \in [Names -> Record]
  BY <1>1, Uploader DEF StateTypes
<1> QED
  BY <1>2, Marked

\* The transfer: the PEM may be on the device from now on.
LEMMA StageStep ==
  ASSUME Invariant, NEW t \in Threads, Stage(t) PROVE Invariant'
<1> DEFINE l == loc[t]
<1>1. /\ l.pc = "stage"
      /\ UNCHANGED <<lock, batch, saved, staged, serves, audited, completed, astray>>
      /\ touched' = IF t \in Runs THEN [touched EXCEPT ![t] = @ \cup {l.target}] ELSE touched
  BY DEF Stage, At, store
<1>2. l.pc \in UploadLabels /\ l.pc \in Uploading \ {"begin", "save"}
  BY <1>1 DEF UploadLabels, Uploading
<1>3. /\ StateTypes /\ LocalsOK /\ PemsOK /\ l \in Local /\ ThreadFits(t, l)
      /\ l.name \in Names
  BY <1>2, Uploader
<1>4. t \notin Cleaners /\ l.target \in Targets /\ l.target # NoTarget
  BY <1>1, <1>3, <1>2, NullAssumption DEF ThreadFits
<1>5. ASSUME l.name \notin astray PROVE SentTo(l.name, l.target)
  <2>1. Fresh(t) /\ BeforeTransfer(l)
    BY <1>1, <1>3 DEF PemsOK, BeforeTransfer
  <2>2. Known(l.target, NoRecord) /\ Known(l.target, NewRecord(l.target))
    BY <1>4, RecordTypes DEF Known
  <2>3. \A u \in Threads : loc[u].pc = "save" => loc[u].name # l.name
    BY <1>1, <1>5, <2>1 DEF Fresh
  <2> QED
    BY <1>1, <1>5, <2>1, <2>2, <2>3 DEF Fresh, SentTo
<1> DEFINE moved == [onDevice EXCEPT ![l.name] = l.target]
<1>6. ASSUME onDevice' \in {onDevice, moved}
      PROVE  /\ onDevice' \in [Names -> Targets \cup {NoTarget}]
             /\ \A n \in Names : \/ onDevice'[n] \in {onDevice[n], NoTarget}
                                 \/ n = l.name /\ onDevice'[n] = l.target
             /\ \A n \in Names : SentTo(n, onDevice'[n])
  <2>1. onDevice \in [Names -> Targets \cup {NoTarget}]
    BY <1>3 DEF StateTypes
  <2>2. l.name \in astray => \A d : SentTo(l.name, d)
    BY DEF SentTo
  <2>3. \A n \in Names : \/ onDevice'[n] = onDevice[n]
                         \/ n = l.name /\ onDevice'[n] = l.target
    BY <1>3, <1>6, <2>1
  <2>4. onDevice' \in [Names -> Targets \cup {NoTarget}]
    BY <1>3, <1>4, <1>6, <2>1
  <2> QED
    BY <1>3, <1>5, <2>2, <2>3, <2>4 DEF PemsOK
<1>7. SUFFICES ASSUME onDevice' \in {onDevice, moved},
                      NEW rec, NEW then \in {"ingest", "returned"},
                      NEW result \in {"none", "unresolved"},
                      then = "returned" => result = "unresolved",
                      Edit(t, rec, then, result),
                      rec \in {staged[l.name], Mark(t, "cleanup_pending")}
               PROVE  Invariant'
  BY DEF Stage
<1> HIDE DEF moved
<1>8. /\ then \in UploadSteps \ {"stage"} /\ result \in UploadResults \cup {"none"}
      /\ then = "returned" => result \in UploadResults
  BY <1>7 DEF UploadSteps, UploadResults
<1>9. staged[l.name] # NoRecord => rec \in Record /\ rec # NoRecord
  BY <1>2, <1>7, RecordsToSave
<1>10. onDevice'[l.name] # NoTarget /\ l.name \notin astray => Known(onDevice'[l.name], rec)
  <2>1. SentTo(l.name, onDevice'[l.name])
    BY <1>3, <1>6, <1>7
  <2> QED
    BY <1>2, <1>7, <2>1, MarkedKnown
<1>11. then \in IF t \in Cleaners THEN {"ended"} ELSE UploadSteps \ {"stage"}
  BY <1>4, <1>8
<1>12. serves' \subseteq Targets
  BY <1>1, <1>3 DEF StateTypes
<1> QED
  BY <1>1, <1>2, <1>4, <1>6, <1>7, <1>8, <1>9, <1>10, <1>11, <1>12, EditStep

\* The import command and its answer: the device may serve the certificate, whatever
\* it answers.
LEMMA AnswerStep ==
  ASSUME Invariant, NEW t \in Threads, Ingest(t) \/ Answered(t) PROVE Invariant'
<1> DEFINE l == loc[t]
<1>1. /\ l.pc \in {"ingest", "acknowledged", "rejected"}
      /\ UNCHANGED <<lock, batch, saved, staged, onDevice, touched, audited, completed, astray>>
      /\ serves' \in {serves, serves \cup {l.target}}
  BY DEF Ingest, Answered, At, store, device
<1>2. l.pc \in UploadLabels /\ l.pc \in Uploading \ {"begin", "save"}
  BY <1>1 DEF UploadLabels, Uploading
<1>3. /\ StateTypes /\ LocalsOK /\ PemsOK /\ ThreadFits(t, l) /\ l.name \in Names
  BY <1>2, Uploader
<1>4. t \notin Cleaners /\ l.target \in Targets
  BY <1>1, <1>2, <1>3 DEF ThreadFits
<1>5. SUFFICES ASSUME NEW rec, NEW then \in {"acknowledged", "rejected", "verify", "returned"},
                      NEW result \in {"none", "unresolved"},
                      then = "returned" => result = "unresolved",
                      Edit(t, rec, then, result),
                      rec \in {staged[l.name], Mark(t, "cleanup_pending"),
                               Mark(t, "staged")}
               PROVE  Invariant'
  BY DEF Ingest, Answered
<1>6. /\ then \in UploadSteps \ {"stage"} /\ result \in UploadResults \cup {"none"}
      /\ then = "returned" => result \in UploadResults
  BY <1>5 DEF UploadSteps, UploadResults
<1>7. staged[l.name] # NoRecord => rec \in Record /\ rec # NoRecord
  BY <1>2, <1>5, RecordsToSave
<1>8. \A n \in Names : SentTo(n, onDevice'[n])
  BY <1>1, <1>3 DEF PemsOK
<1>9. onDevice'[l.name] # NoTarget /\ l.name \notin astray => Known(onDevice'[l.name], rec)
  BY <1>2, <1>3, <1>5, <1>8, MarkedKnown
<1>10. then \in IF t \in Cleaners THEN {"ended"} ELSE UploadSteps \ {"stage"}
  BY <1>4, <1>6
<1>11. /\ serves' \subseteq Targets
       /\ onDevice' \in [Names -> Targets \cup {NoTarget}]
  BY <1>1, <1>3, <1>4 DEF StateTypes
<1> QED
  BY <1>1, <1>2, <1>5, <1>6, <1>7, <1>8, <1>9, <1>10, <1>11, EditStep

\* The read-back: the upload goes on to delete the PEM when the certificate is served.
LEMMA VerifyStep ==
  ASSUME Invariant, NEW t \in Threads, Verify(t) PROVE Invariant'
<1> DEFINE l == loc[t]
<1>1. /\ l.pc = "verify"
      /\ UNCHANGED <<lock, batch, saved, staged, onDevice, serves, touched, audited, completed,
                     astray>>
  BY DEF Verify, At, store, device
<1>2. l.pc \in UploadLabels /\ l.pc \in Uploading \ {"begin", "save"} /\ l.pc # "returned"
  BY <1>1 DEF UploadLabels, Uploading
<1>3. /\ StateTypes /\ LocalsOK /\ PemsOK /\ l \in Local /\ ThreadFits(t, l) /\ l.name \in Names
      /\ t \in Runs => t \notin Cleaners
  BY <1>2, Uploader
<1>4. t \notin Cleaners /\ l.target \in Targets
  BY <1>1, <1>2, <1>3 DEF ThreadFits
<1>5. /\ serves' \subseteq Targets /\ staged' \in [Names -> Record]
      /\ onDevice' \in [Names -> Targets \cup {NoTarget}] /\ astray' \subseteq Names
      /\ \A n \in Names : SentTo(n, onDevice'[n])
  BY <1>1, <1>3 DEF StateTypes, PemsOK
<1>6. CASE l.target \in serves /\ Goto(t, "delete")
  <2> DEFINE m == [l EXCEPT !.pc = "delete"]
  <2>1. loc' = [loc EXCEPT ![t] = m]
    BY <1>6 DEF Goto
  <2>2. /\ m \in Local /\ m.pc = "delete" /\ m.name = l.name /\ m.target = l.target
        /\ m.result = l.result /\ m.then = l.then
    <3>1. "delete" \in Labels
      BY DEF Labels, UploadLabels
    <3> QED
      BY <1>3, <3>1 DEF Local
  <2> HIDE DEF m
  <2>3. ThreadFits(t, m) /\ Busy(m) /\ m.pc \in UploadLabels /\ m.pc # "returned"
    BY <1>3, <1>4, <2>2 DEF ThreadFits, Busy, UploadLabels, Uploading, Closing, Labels
  <2>4. \A u \in Threads : \/ loc'[u] = loc[u]
                           \/ /\ loc'[u].pc \notin {"save", "stage"}
                              /\ loc'[u].name \in {NoName, loc[u].name}
    BY <1>3, <2>1, <2>2 DEF LocalsOK
  <2>5. PemsOK'
    BY <1>1, <1>3, <1>5, <2>4, QuietPems
  <2> QED
    BY <1>1, <1>2, <1>5, <1>6, <2>1, <2>2, <2>3, <2>5, UploadMove
<1>7. CASE Edit(t, Mark(t, "cleanup_pending"), "returned", "unresolved")
  <2> DEFINE rec == Mark(t, "cleanup_pending")
  <2>1. staged[l.name] # NoRecord => rec \in Record /\ rec # NoRecord
    BY <1>2, RecordsToSave
  <2>2. onDevice'[l.name] # NoTarget /\ l.name \notin astray => Known(onDevice'[l.name], rec)
    BY <1>2, <1>3, <1>5, MarkedKnown
  <2>3. /\ "returned" \in IF t \in Cleaners THEN {"ended"} ELSE UploadSteps \ {"stage"}
        /\ "unresolved" \in UploadResults
    BY <1>4 DEF UploadSteps, UploadResults
  <2> HIDE DEF rec
  <2>4. Edit(t, rec, "returned", "unresolved")
    BY <1>7 DEF rec
  <2> QED
    BY <1>1, <1>2, <1>5, <2>1, <2>2, <2>3, <2>4, EditStep
<1> QED
  BY <1>6, <1>7 DEF Verify

\* The deletion: a record says deleted only when the PEM is gone.
LEMMA DeleteStep ==
  ASSUME Invariant, NEW t \in Threads, DeleteStaged(t) PROVE Invariant'
<1> DEFINE l == loc[t]
           moved == [onDevice EXCEPT ![l.name] = NoTarget]
           next == IF t \in Cleaners THEN "ended" ELSE "returned"
<1>1. /\ l.pc = "delete"
      /\ UNCHANGED <<lock, batch, saved, staged, serves, touched, audited, completed, astray>>
  BY DEF DeleteStaged, At, store
<1>2. l.pc \in UploadLabels /\ l.pc \in Uploading \ {"begin", "save"} /\ l.pc # "returned"
  BY <1>1 DEF UploadLabels, Uploading
<1>3. /\ StateTypes /\ LocalsOK /\ PemsOK /\ l \in Local /\ ThreadFits(t, l) /\ l.name \in Names
      /\ t \in Runs => t \notin Cleaners
  BY <1>1, <1>2, Uploader
<1>4. /\ serves' \subseteq Targets /\ staged' \in [Names -> Record] /\ astray' \subseteq Names
  BY <1>1, <1>3 DEF StateTypes
<1>5. ASSUME onDevice' \in {onDevice, moved}
      PROVE  /\ onDevice' \in [Names -> Targets \cup {NoTarget}]
             /\ \A n \in Names : onDevice'[n] \in {onDevice[n], NoTarget}
             /\ \A n \in Names : SentTo(n, onDevice'[n])
  <2>1. onDevice \in [Names -> Targets \cup {NoTarget}]
    BY <1>3 DEF StateTypes
  <2>2. \A n \in Names : onDevice'[n] \in {onDevice[n], NoTarget}
    BY <1>3, <1>5, <2>1
  <2>3. onDevice' \in [Names -> Targets \cup {NoTarget}]
    BY <1>3, <1>5, <2>1
  <2> QED
    BY <1>3, <2>2, <2>3 DEF PemsOK, SentTo
<1>6. /\ next \in IF t \in Cleaners THEN {"ended"} ELSE UploadSteps \ {"stage"}
      /\ "unresolved" \in UploadResults /\ "verified" \in UploadResults
  BY DEF UploadSteps, UploadResults
<1>7. onDevice \in [Names -> Targets \cup {NoTarget}]
  BY <1>3 DEF StateTypes
<1>8. CASE onDevice' = moved /\ Edit(t, Mark(t, "deleted"), next, "verified")
  <2> DEFINE rec == Mark(t, "deleted")
  <2>1. onDevice' \in {onDevice, moved} /\ onDevice'[l.name] = NoTarget
    BY <1>3, <1>7, <1>8
  <2>2. staged[l.name] # NoRecord => rec \in Record /\ rec # NoRecord
    BY <1>2, RecordsToSave
  <2>3. Edit(t, rec, next, "verified")
    BY <1>8
  <2> HIDE DEF rec, next, moved
  <2> QED
    BY <1>1, <1>2, <1>3, <1>4, <1>5, <1>6, <2>1, <2>2, <2>3, EditStep
<1>9. CASE /\ onDevice' \in {onDevice, moved}
           /\ Edit(t, Mark(t, "delete_failed"), next, "unresolved")
  <2> DEFINE rec == Mark(t, "delete_failed")
  <2>1. staged[l.name] # NoRecord => rec \in Record /\ rec # NoRecord
    BY <1>2, RecordsToSave
  <2>2. onDevice'[l.name] # NoTarget /\ l.name \notin astray => Known(onDevice'[l.name], rec)
    BY <1>2, <1>3, <1>5, <1>9, MarkedKnown
  <2>3. Edit(t, rec, next, "unresolved")
    BY <1>9
  <2> HIDE DEF rec, next, moved
  <2> QED
    BY <1>1, <1>2, <1>4, <1>5, <1>6, <1>9, <2>1, <2>2, <2>3, EditStep
<1>10. CASE loc' = [loc EXCEPT ![t] = Raised(t)] /\ onDevice' = onDevice
  <2>1. PICK m : /\ loc' = [loc EXCEPT ![t] = m] /\ m \in Local /\ ThreadFits(t, m)
                 /\ m.name = NoName /\ m.pc \in {"returned", "release", "ended"}
                 /\ t \notin Cleaners => Busy(m)
                 /\ t \in Runs => /\ m.pc = "returned" /\ m.target = l.target
                                  /\ m.result = "upload_unconfirmed"
    BY <1>2, <1>3, <1>10, RaisedLocals
  <2>3. \A u \in Threads : \/ loc'[u] = loc[u]
                           \/ loc'[u].pc \notin {"save", "stage"} /\ loc'[u].name = NoName
    BY <1>3, <2>1 DEF LocalsOK
  <2>4. PemsOK'
    BY <1>1, <1>3, <1>5, <1>10, <2>3, QuietPems
  <2>5. t \in Runs => m.pc \in UploadLabels
    BY <2>1 DEF UploadLabels
  <2> QED
    BY <1>1, <1>2, <1>4, <1>5, <1>10, <2>1, <2>4, <2>5, UploadMove
<1> QED
  BY <1>8, <1>9, <1>10 DEF DeleteStaged

\* The document is written: the upload goes on, or the clean-up is over.
LEMMA SaveStep ==
  ASSUME Invariant, NEW t \in Threads, SaveRecords(t) PROVE Invariant'
<1> DEFINE l == loc[t]
<1>1. /\ l.pc = "save"
      /\ staged' = [l.doc EXCEPT ![l.name] = l.rec]
      /\ astray' = astray \cup
           {n \in Names \ {l.name} : staged[n] # NoRecord /\ l.doc[n] = NoRecord}
      /\ UNCHANGED <<lock, batch, saved, onDevice, serves, touched, audited, completed>>
  BY DEF SaveRecords, At, store, device
<1>2. l.pc \in UploadLabels
  BY <1>1 DEF UploadLabels
<1>3. /\ StateTypes /\ LocalsOK /\ PemsOK /\ l \in Local /\ ThreadFits(t, l)
      /\ t \in Runs => t \notin Cleaners
  BY <1>1, <1>2, Uploader
<1>4. l.name \in Names
  BY <1>1, <1>2, Uploader DEF Uploading
<1>5. PICK m : /\ loc' = [loc EXCEPT ![t] = m] /\ m \in Local /\ ThreadFits(t, m)
               /\ m.pc # "save" /\ m.name \in {NoName, l.name}
               /\ m.pc = "stage" => l.then = "stage" /\ m.name = l.name /\ m.target = l.target
               /\ t \notin Cleaners => Busy(m)
               /\ t \in Runs => /\ m.pc \in UploadLabels /\ m.target = l.target /\ m.name = l.name
                                /\ m.pc # "delete" /\ m.result = l.result
  <2>1. CASE l.then = "ended"
    <3>1. loc' = [loc EXCEPT ![t] = Ended]
      BY <2>1 DEF SaveRecords
    <3>2. t \in Cleaners
      BY <1>1, <1>3, <2>1 DEF ThreadFits, UploadSteps
    <3>3. "ended" \in Labels
      BY DEF Labels
    <3>4. Ended \in Local /\ Ended.pc = "ended" /\ Ended.name = NoName
      BY <3>3, IdleAt DEF Ended
    <3>5. ThreadFits(t, Ended)
      BY <3>2, <3>4, Kinds DEF ThreadFits, UploadLabels, Uploading, Closing
    <3> QED
      BY <1>3, <3>1, <3>2, <3>4, <3>5
  <2>2. CASE l.then # "ended"
    <3> DEFINE m == [l EXCEPT !.pc = l.then, !.doc = NoRecords, !.rec = NoRecord, !.then = "idle"]
    <3>1. loc' = [loc EXCEPT ![t] = m]
      BY <2>2 DEF SaveRecords
    <3>2. t \notin Cleaners /\ l.then \in UploadSteps /\ l.target \in Targets
      BY <1>1, <1>2, <1>3, <2>2 DEF ThreadFits
    <3>3. l.then \in UploadLabels /\ l.then \in Labels /\ l.then \notin {"save", "delete", "begin"}
      BY <3>2 DEF UploadSteps, UploadLabels, Labels
    <3>4. /\ m \in Local /\ m.pc = l.then /\ m.name = l.name /\ m.target = l.target
          /\ m.result = l.result
      BY <1>3, <3>3, RecordTypes DEF Local
    <3> HIDE DEF m
    <3>5. ThreadFits(t, m) /\ Busy(m)
      <4>1. m.pc = "returned" => m.result \in UploadResults
        BY <1>1, <1>3, <3>2, <3>4 DEF ThreadFits
      <4>2. t \in Runs \/ t \in Callers
        BY <3>2 DEF Threads
      <4>3. m.pc \in UploadLabels /\ m.pc \notin {"save", "delete", "begin"}
        BY <3>3, <3>4
      <4>4. m.pc \notin Closing /\ m.pc \notin {"idle", "ended"}
        BY <4>3 DEF UploadLabels, Closing
      <4> QED
        BY <1>4, <3>2, <3>4, <4>1, <4>3, <4>4 DEF ThreadFits, Busy
    <3> QED
      BY <3>1, <3>3, <3>4, <3>5
  <2> QED
    BY <2>1, <2>2
<1>6. staged \in [Names -> Record]
  BY <1>3 DEF StateTypes
<1>7. PemsOK'
  BY <1>3, <1>5, <1>6, SavePems
<1>8. staged' \in [Names -> Record]
  BY <1>1, <1>3, <1>4 DEF Local
<1>9. /\ astray \subseteq astray' /\ astray' \subseteq Names /\ serves' \subseteq Targets
      /\ onDevice' \in [Names -> Targets \cup {NoTarget}]
  BY <1>1, <1>3 DEF StateTypes
<1>10. l.pc # "returned"
  BY <1>1
<1> QED
  BY <1>1, <1>2, <1>3, <1>5, <1>7, <1>8, <1>9, <1>10, UploadMove

(***************************************************************************)
(* Steps of an individual request and the beginning of a clean-up          *)
(***************************************************************************)

\* What such a step has to do: take or give back the lock for its own thread only,
\* and leave the staged PEMs alone.
LEMMA RequestMove ==
  ASSUME Invariant, NEW t \in Threads \ Runs, NEW m \in Local, ThreadFits(t, m),
         loc' = [loc EXCEPT ![t] = m],
         \/ lock' = lock
         \/ t \in Callers /\ lock \in {t, Nobody} /\ lock' \in {t, Nobody},
         t \in Callers => (Busy(m) <=> lock' = t),
         serves' \subseteq Targets, completed' \subseteq Targets, PemsOK',
         astray \subseteq astray', astray' \subseteq Names,
         UNCHANGED <<batch, saved, staged, onDevice, touched, audited>>
  PROVE  Invariant'
<1>1. StateTypes /\ LocalsOK /\ HolderOK /\ \A r \in Runs : RunOK(r)
  BY DEF Invariant
<1>2. loc' \in [Threads -> Local] /\ loc'[t] = m /\ \A u \in Threads : u # t => loc'[u] = loc[u]
  BY <1>1 DEF LocalsOK
<1>3. LocalsOK'
  BY <1>1, <1>2 DEF LocalsOK
<1>4. ASSUME NEW u \in Runs \cup Callers PROVE Busy(loc'[u]) <=> lock' = u
  <2>1. u \in Threads /\ u # Nobody
    BY Kinds
  <2>2. CASE u = t
    BY <1>2, <1>4, <2>1, <2>2
  <2>3. CASE u # t
    <3>1. lock' = u <=> lock = u
      BY <2>1, <2>3
    <3>2. Busy(loc[u]) <=> lock = u
      BY <1>1 DEF HolderOK
    <3> QED
      BY <1>2, <2>1, <2>3, <3>1, <3>2
  <2> QED
    BY <2>2, <2>3
<1>5. HolderOK'
  BY <1>4 DEF HolderOK, Busy
<1>6. StateTypes'
  <2>1. lock' \in Runs \cup Callers \cup {Nobody, Lost}
    BY <1>1 DEF StateTypes
  <2> QED
    BY <1>1, <2>1 DEF StateTypes
<1>7. ASSUME NEW r \in Runs PROVE RunOK(r)'
  <2>1. r # t /\ r \in Threads /\ r # Nobody
    BY Kinds
  <2>2. lock' = r => lock = r
    BY <2>1
  <2>3. loc'[r] = loc[r]
    BY <1>2, <2>1
  <2> QED
    BY <1>1, <2>2, <2>3, Bystander
<1> QED
  BY <1>3, <1>5, <1>6, <1>7 DEF Invariant

\* A request begins with the lock, and blank locals but for its target.
LEMMA RequestStep ==
  ASSUME Invariant, NEW t \in Callers, NEW u \in Targets,
         ActivateOne(t, u) \/ RemoveCertificate(t, u)
  PROVE  Invariant'
<1>1. PICK p \in {"begin", "remove"} : loc' = [loc EXCEPT ![t] = [Idle EXCEPT !.pc = p, !.target = u]]
  BY DEF ActivateOne, RemoveCertificate
<1>2. /\ lock = Nobody /\ lock' = t
      /\ UNCHANGED <<batch, saved, staged, onDevice, serves, touched, audited, completed, astray>>
  BY DEF ActivateOne, RemoveCertificate, store, device
<1>3. t \in Threads \ Runs /\ t \notin Cleaners
  BY Kinds
<1> DEFINE m == [Idle EXCEPT !.pc = p, !.target = u]
<1>4. /\ m \in Local /\ m.pc = p /\ m.name = NoName /\ m.target = u /\ m.result = "none"
      /\ p \in Labels
  <2>1. p \in Labels
    BY DEF Labels, UploadLabels
  <2> QED
    BY <2>1, IdleTarget
<1>5. loc' = [loc EXCEPT ![t] = m]
  BY <1>1
<1> HIDE DEF m
<1>6. ThreadFits(t, m) /\ Busy(m)
  BY <1>3, <1>4 DEF ThreadFits, Busy, UploadLabels, Uploading, Closing
<1>7. StateTypes /\ LocalsOK /\ PemsOK
  BY DEF Invariant
<1>8. \A v \in Threads : \/ loc'[v] = loc[v]
                         \/ loc'[v].pc \notin {"save", "stage"} /\ loc'[v].name = NoName
  BY <1>4, <1>5, <1>7 DEF LocalsOK
<1>9. PemsOK'
  <2>1. \A n \in Names : SentTo(n, onDevice'[n])
    BY <1>2, <1>7 DEF PemsOK
  <2> QED
    BY <1>2, <1>7, <1>8, <2>1, QuietPems
<1>10. serves' \subseteq Targets /\ completed' \subseteq Targets /\ astray' \subseteq Names
  BY <1>2, <1>7 DEF StateTypes
<1> QED
  BY <1>2, <1>3, <1>4, <1>5, <1>6, <1>9, <1>10, RequestMove

\* It ends: the result is recorded, or the removal sent, and the lock given back.
LEMMA CallerStepKeeps ==
  ASSUME Invariant, NEW t \in Callers, CallerStep(t) PROVE Invariant'
<1> DEFINE l == loc[t]
<1>1. StateTypes /\ LocalsOK /\ HolderOK /\ PemsOK /\ ThreadFits(t, l)
  BY Kinds DEF Invariant, LocalsOK
<1>2. t \in Threads \ Runs /\ t \notin Cleaners /\ t # Nobody
  BY Kinds
<1>3. /\ l.pc \in {"returned", "remove", "release"}
      /\ UNCHANGED <<batch, saved, staged, onDevice, touched, audited, astray>>
  BY DEF CallerStep, RecordOne, SendRemoval, Release, At, store, device
<1>4. lock = t
  BY <1>1, <1>3 DEF HolderOK, Busy
<1>5. serves' \subseteq Targets /\ completed' \subseteq Targets /\ astray' \subseteq Names
  <2>1. CASE RecordOne(t)
    <3>1. l.target \in Targets
      BY <1>1, <1>2, <2>1 DEF ThreadFits, RecordOne, At, UploadLabels
    <3> QED
      BY <1>1, <1>3, <2>1, <3>1 DEF StateTypes, RecordOne, device
  <2>2. CASE SendRemoval(t) \/ Release(t)
    BY <1>1, <1>3, <2>2 DEF StateTypes, SendRemoval, Release, device, store
  <2> QED
    BY <2>1, <2>2 DEF CallerStep
<1>6. PICK m \in Local :
        /\ loc' = [loc EXCEPT ![t] = m] /\ ThreadFits(t, m)
        /\ m.pc \notin {"save", "stage"} /\ m.name = NoName
        /\ lock' \in {t, Nobody} /\ (Busy(m) <=> lock' = t)
  <2>1. CASE /\ loc' = [loc EXCEPT ![t] = [Idle EXCEPT !.pc = "release"]] /\ lock' = lock
    <3> DEFINE m == [Idle EXCEPT !.pc = "release"]
    <3>1. /\ m \in Local /\ m.pc = "release" /\ m.name = NoName
      <4>1. "release" \in Labels
        BY DEF Labels
      <4> QED
        BY <4>1, IdleAt
    <3>2. loc' = [loc EXCEPT ![t] = m]
      BY <2>1
    <3> HIDE DEF m
    <3>3. ThreadFits(t, m) /\ Busy(m)
      BY <1>2, <3>1 DEF ThreadFits, Busy, UploadLabels, Uploading, Closing
    <3> QED
      BY <1>4, <2>1, <3>1, <3>2, <3>3
  <2>2. CASE loc' = [loc EXCEPT ![t] = Ended] /\ lock' = Nobody
    <3> DEFINE m == Ended
    <3>1. /\ m \in Local /\ m.pc = "ended" /\ m.name = NoName
      <4>1. "ended" \in Labels
        BY DEF Labels
      <4> QED
        BY <4>1, IdleAt DEF Ended
    <3>2. ThreadFits(t, m) /\ ~Busy(m)
      BY <1>2, <3>1 DEF ThreadFits, Busy, UploadLabels, Uploading, Closing
    <3> QED
      BY <1>2, <2>2, <3>1, <3>2
  <2> QED
    BY <2>1, <2>2 DEF CallerStep, RecordOne, SendRemoval, Release
<1>7. PemsOK'
  <2>1. \A v \in Threads : \/ loc'[v] = loc[v]
                           \/ loc'[v].pc \notin {"save", "stage"} /\ loc'[v].name = NoName
    BY <1>1, <1>6 DEF LocalsOK
  <2>2. \A n \in Names : SentTo(n, onDevice'[n])
    BY <1>1, <1>3 DEF PemsOK
  <2> QED
    BY <1>1, <1>3, <2>1, <2>2, QuietPems
<1> QED
  BY <1>2, <1>3, <1>4, <1>5, <1>6, <1>7, RequestMove

\* A clean-up begins, without the lock.
LEMMA CleanupStep ==
  ASSUME Invariant, NEW t \in Cleaners, NEW n \in Names, CleanupOne(t, n) PROVE Invariant'
<1>1. StateTypes /\ LocalsOK /\ PemsOK
  BY DEF Invariant
<1>2. t \in Threads \ Runs /\ t \notin Callers
  BY Kinds
<1>3. /\ loc' = [loc EXCEPT ![t] = [Idle EXCEPT !.pc = "delete", !.name = n]]
      /\ UNCHANGED <<lock, batch, saved, staged, onDevice, serves, touched, audited, completed>>
      /\ astray' \in {astray, astray \cup {n}}
  BY DEF CleanupOne, store, device
<1> DEFINE m == [Idle EXCEPT !.pc = "delete", !.name = n]
<1>4. m \in Local /\ m.pc = "delete" /\ m.name = n
  <2>1. "delete" \in Labels
    BY DEF Labels, UploadLabels
  <2> QED
    BY <2>1, IdleName
<1>5. loc' = [loc EXCEPT ![t] = m]
  BY <1>3
<1> HIDE DEF m
<1>6. ThreadFits(t, m)
  BY <1>2, <1>4 DEF ThreadFits, UploadLabels, Uploading, Closing
<1>7. PemsOK'
  BY <1>1, CleanupPems
<1>8. /\ serves' \subseteq Targets /\ completed' \subseteq Targets
      /\ astray \subseteq astray' /\ astray' \subseteq Names
  BY <1>1, <1>3 DEF StateTypes
<1> QED
  BY <1>2, <1>3, <1>4, <1>5, <1>6, <1>7, <1>8, RequestMove

\* Nothing is under way that the Toolbelt, or a start that fails with the lock taken,
\* could disturb: no thread moves and no record changes.
LEMMA AsideStep ==
  ASSUME Invariant, StartLosesLock \/ \E u \in Targets : ToolbeltUploads(u)
  PROVE  Invariant'
<1>1. StateTypes /\ LocalsOK /\ HolderOK /\ PemsOK /\ \A r \in Runs : RunOK(r)
  BY DEF Invariant
<1>2. /\ UNCHANGED <<batch, saved, staged, loc, onDevice, touched, audited, completed, astray>>
      /\ lock' = lock \/ (lock = Nobody /\ lock' = Lost)
  BY DEF StartLosesLock, ToolbeltUploads, device, store
<1>3. serves' \subseteq Targets
  <2>1. CASE StartLosesLock
    BY <1>1, <2>1 DEF StartLosesLock, device, StateTypes
  <2>2. CASE \E u \in Targets : ToolbeltUploads(u)
    BY <1>1, <2>2 DEF ToolbeltUploads, StateTypes
  <2> QED
    BY <2>1, <2>2
<1>4. StateTypes' /\ LocalsOK'
  BY <1>1, <1>2, <1>3 DEF StateTypes, LocalsOK
<1>5. \A t \in Runs \cup Callers : t # Nobody /\ t # Lost
  BY Kinds
<1>6. HolderOK'
  BY <1>1, <1>2, <1>5 DEF HolderOK, Busy
<1>7. PemsOK'
  <2>1. \A n \in Names : SentTo(n, onDevice'[n])
    BY <1>1, <1>2 DEF PemsOK
  <2> QED
    BY <1>1, <1>2, <2>1, QuietPems
<1>8. ASSUME NEW r \in Runs PROVE RunOK(r)'
  <2>1. lock' = r => lock = r
    BY <1>2, <1>5
  <2> QED
    BY <1>1, <1>2, <2>1, Bystander
<1> QED
  BY <1>4, <1>6, <1>7, <1>8 DEF Invariant

(***************************************************************************)
(* Steps of a batch                                                        *)
(***************************************************************************)

\* What such a step has to do: take or give back the lock for its own batch, leave
\* the devices alone, keep what it says of a target it has begun to transfer to, and
\* call a target ready only when it is.
LEMMA RunMove ==
  ASSUME Invariant, NEW r \in Runs, NEW m \in Local, loc' = [loc EXCEPT ![r] = m],
         m.pc \in RunLabels \cup {"begin"}, m.name \in {NoName, loc[r].name},
         m.pc \in {"probe", "begin"} => m.target \in Targets,
         m.pc = "begin" => m.name = NoName /\ m.result = "none",
         m.pc \in Closing => m.result \in RunResults,
         NEW b \in Batch, batch' = [batch EXCEPT ![r] = b], saved' \in {saved, batch'},
         lock' = lock \/ (lock \in {r, Nobody} /\ lock' \in {r, Nobody}),
         Busy(m) <=> lock' = r,
         UNCHANGED <<staged, onDevice, serves, touched, astray>>,
         audited \subseteq audited', audited' \subseteq Runs \X Targets \X BOOLEAN,
         completed' \subseteq Targets,
         Running(r)',
         \A t \in touched[r] : b.dev[t] \in Begun,
         b.status = "complete" => AllGood(b),
         lock' = r /\ b.mode = "upload" =>
           \A t \in Targets, n \in Names : b.dev[t] = "ready" /\ onDevice[n] = t => n \in astray,
         m.pc = "begin" => \A n \in Names : onDevice[n] = m.target => n \in astray
  PROVE  Invariant'
<1>1. StateTypes /\ LocalsOK /\ HolderOK /\ PemsOK /\ \A q \in Runs : RunOK(q)
  BY DEF Invariant
<1>2. r \in Threads /\ r \notin Callers /\ r \notin Cleaners
  BY Kinds
<1>3. loc' \in [Threads -> Local] /\ loc'[r] = m /\ \A u \in Threads : u # r => loc'[u] = loc[u]
  BY <1>1, <1>2 DEF LocalsOK
<1>4. m.pc \notin {"save", "stage"} /\ m.pc \notin Uploading \ {"begin"}
      /\ m.pc \notin UploadLabels \ {"begin"}
  BY DEF RunLabels, Uploading, UploadLabels
<1>5. LocalsOK'
  <2>1. ThreadFits(r, m)
    BY <1>2, <1>4 DEF ThreadFits, UploadLabels, RunLabels
  <2> QED
    BY <1>1, <1>3, <2>1 DEF LocalsOK
<1>6. HolderOK'
  <2>1. ASSUME NEW u \in Runs \cup Callers PROVE Busy(loc'[u]) <=> lock' = u
    <3>1. u \in Threads /\ u # Nobody
      BY Kinds
    <3>2. CASE u = r
      BY <1>3, <3>1, <3>2
    <3>3. CASE u # r
      <4>1. lock' = u <=> lock = u
        BY <3>1, <3>3
      <4>2. Busy(loc[u]) <=> lock = u
        BY <1>1 DEF HolderOK
      <4> QED
        BY <1>3, <3>1, <3>3, <4>1, <4>2
    <3> QED
      BY <3>2, <3>3
  <2> QED
    BY <2>1 DEF HolderOK, Busy
<1>7. batch' \in [Runs -> Batch] /\ batch'[r] = b /\ \A q \in Runs : q # r => batch'[q] = batch[q]
  BY <1>1 DEF StateTypes
<1>8. saved' \in [Runs -> Batch] /\ \A q \in Runs : saved'[q] \in {saved[q], batch'[q]}
  BY <1>1, <1>7 DEF StateTypes
<1>9. StateTypes'
  <2>1. lock' \in Runs \cup Callers \cup {Nobody, Lost}
    BY <1>1 DEF StateTypes
  <2> QED
    BY <1>1, <1>7, <1>8, <2>1 DEF StateTypes
<1>10. PemsOK'
  <2>1. \A n \in Names : SentTo(n, onDevice'[n])
    BY <1>1 DEF PemsOK
  <2>2. \A u \in Threads : \/ loc'[u] = loc[u]
                           \/ /\ loc'[u].pc \notin {"save", "stage"}
                              /\ loc'[u].name \in {NoName, loc[u].name}
    BY <1>3, <1>4
  <2> QED
    BY <1>1, <2>1, <2>2, QuietPems
<1>11. RunOK(r)'
  <2>1. Recorded(r)'
    <3>1. Recorded(r)
      BY <1>1 DEF RunOK
    <3>2. \A t \in touched[r] : batch'[r].dev[t] \in Begun /\ saved'[r].dev[t] \in Begun
      BY <1>7, <1>8, <3>1 DEF Recorded
    <3>3. /\ batch'[r].status = "complete" => AllGood(batch'[r])
          /\ saved'[r].status = "complete" => AllGood(saved'[r])
      BY <1>7, <1>8, <3>1 DEF Recorded
    <3> QED
      BY <3>2, <3>3 DEF Recorded, AllGood, Goal
  <2>2. Holding(r)'
    BY <1>3, <1>4, <1>7 DEF Holding, With
  <2> QED
    BY <2>1, <2>2 DEF RunOK
<1>12. ASSUME NEW q \in Runs, q # r PROVE RunOK(q)'
  <2>1. q \in Threads /\ q # Nobody
    BY Kinds
  <2>2. loc'[q] = loc[q] /\ batch'[q] = batch[q] /\ saved'[q] \in {saved[q], batch'[q]}
    BY <1>3, <1>7, <1>8, <1>12, <2>1
  <2>3. lock' = q => lock = q
    BY <1>12, <2>1
  <2> QED
    BY <1>1, <2>2, <2>3, Bystander
<1> QED
  BY <1>5, <1>6, <1>9, <1>10, <1>11, <1>12 DEF Invariant

\* The locals after a jump.
LEMMA GotoLocals ==
  ASSUME LocalsOK, NEW t \in Threads, NEW p \in Labels, Goto(t, p)
  PROVE  \E m \in Local : /\ loc' = [loc EXCEPT ![t] = m]
                          /\ m.pc = p /\ m.name = loc[t].name /\ m.target = loc[t].target
                          /\ m.result = loc[t].result
<1> DEFINE m == [loc[t] EXCEPT !.pc = p]
<1>1. loc' = [loc EXCEPT ![t] = m]
  BY DEF Goto
<1>2. /\ m \in Local /\ m.pc = p /\ m.name = loc[t].name /\ m.target = loc[t].target
      /\ m.result = loc[t].result
  <2>1. loc[t] \in Local
    BY DEF LocalsOK
  <2> QED
    BY ONLY <2>1, p \in Labels DEF Local
<1> QED
  BY <1>1, <1>2

\* A batch that has given up: on its way to the end, with the result failed.
LEMMA FailedLocals ==
  ASSUME NEW p \in Closing
  PROVE  LET m == [Idle EXCEPT !.pc = p, !.result = "failed"] IN
         m \in Local /\ m.pc = p /\ m.name = NoName /\ m.result = "failed" /\ Busy(m)
<1>1. p \in Labels /\ p \notin {"idle", "ended"}
  BY DEF Closing, Labels, RunLabels
<1> DEFINE m == [Idle EXCEPT !.pc = p, !.result = "failed"]
<1>2. m \in Local /\ m.pc = p /\ m.name = NoName /\ m.result = "failed"
  <2>1. "failed" \in UploadResults \cup RunResults \cup {"none"}
    BY DEF RunResults
  <2> QED
    BY ONLY <1>1, <2>1, IdleLocal, IdleFields DEF Local
<1> QED
  BY <1>1, <1>2 DEF Busy

\* A batch whose result for one target is replaced.
WithDev(b, u, x) == [b EXCEPT !.dev[u] = x]

\* It is a batch again, and says the same of every other target.
LEMMA DevSet ==
  ASSUME NEW b \in Batch, NEW u \in Targets, NEW x \in Statuses
  PROVE  /\ WithDev(b, u, x) \in Batch
         /\ WithDev(b, u, x).status = b.status /\ WithDev(b, u, x).mode = b.mode
         /\ WithDev(b, u, x).stop = b.stop /\ WithDev(b, u, x).dev[u] = x
         /\ \A t \in Targets : t # u => WithDev(b, u, x).dev[t] = b.dev[t]
<1> HIDE DEF Statuses
<1>1. b.dev \in [Targets -> Statuses]
  BY DEF Batch
<1>2. WithDev(b, u, x) = [b EXCEPT !.dev = [b.dev EXCEPT ![u] = x]]
  BY DEF WithDev
<1> DEFINE dev == [b.dev EXCEPT ![u] = x]
<1>3. dev \in [Targets -> Statuses] /\ dev[u] = x /\ \A t \in Targets : t # u => dev[t] = b.dev[t]
  BY <1>1
<1> HIDE DEF dev
<1>4. /\ WithDev(b, u, x) \in Batch /\ WithDev(b, u, x).dev = dev
      /\ WithDev(b, u, x).status = b.status /\ WithDev(b, u, x).mode = b.mode
      /\ WithDev(b, u, x).stop = b.stop
  <2>1. WithDev(b, u, x) = [b EXCEPT !.dev = dev]
    BY <1>2 DEF dev
  <2> QED
    BY ONLY <1>3, <2>1, b \in Batch DEF Batch
<1> QED
  BY <1>3, <1>4

\* What is known of a batch that is under way.
LEMMA OwnRun ==
  ASSUME Invariant, NEW r \in Runs, Busy(loc[r])
  PROVE  /\ StateTypes /\ LocalsOK /\ PemsOK /\ Running(r) /\ Recorded(r) /\ Holding(r)
         /\ r \in Threads /\ r \notin Cleaners /\ r # Nobody /\ lock = r
         /\ loc[r] \in Local /\ ThreadFits(r, loc[r]) /\ batch[r] \in Batch
BY Kinds DEF Invariant, StateTypes, LocalsOK, HolderOK, RunOK

\* What a batch may say of its targets at a step that is not an upload's.
Says(r, b) ==
  /\ \A t \in touched[r] : b.dev[t] \in Begun
  /\ b.mode = "upload" =>
       \A t \in Targets, n \in Names : b.dev[t] = "ready" /\ onDevice[n] = t => n \in astray

\* What it says now is such.
LEMMA SaysNow ==
  ASSUME Invariant, NEW r \in Runs, Busy(loc[r]) PROVE Says(r, batch[r])
BY OwnRun DEF Recorded, Holding, Says, With

\* With one target changed a batch says no more than it may, if the change does not.
LEMMA SaysWithDev ==
  ASSUME Invariant, NEW r \in Runs, Busy(loc[r]), NEW u \in Targets, NEW x \in Statuses,
         u \in touched[r] => x \in Begun,
         x = "ready" /\ batch[r].mode = "upload" =>
           \A n \in Names : onDevice[n] = u => n \in astray
  PROVE  LET b == WithDev(batch[r], u, x) IN
         /\ b \in Batch /\ Says(r, b) /\ b.status = batch[r].status /\ b.mode = batch[r].mode
         /\ b.stop = batch[r].stop /\ b.dev[u] = x
         /\ \A t \in Targets : t # u => b.dev[t] = batch[r].dev[t]
<1> HIDE DEF Statuses
<1> DEFINE b == WithDev(batch[r], u, x)
<1>1. /\ b \in Batch /\ b.status = batch[r].status /\ b.mode = batch[r].mode
      /\ b.stop = batch[r].stop /\ b.dev[u] = x
      /\ \A t \in Targets : t # u => b.dev[t] = batch[r].dev[t]
  BY OwnRun, DevSet
<1>2. Says(r, batch[r]) /\ touched[r] \subseteq Targets
  BY OwnRun, SaysNow DEF StateTypes
<1> HIDE DEF b
<1>3. Says(r, b)
  BY <1>1, <1>2 DEF Says
<1> QED
  BY <1>1, <1>3 DEF b

\* A batch moves on with the lock.
LEMMA RunGoesOn ==
  ASSUME Invariant, NEW r \in Runs, Busy(loc[r]), NEW m \in Local, Busy(m),
         loc' = [loc EXCEPT ![r] = m],
         m.pc \in RunLabels \cup {"begin"}, m.name \in {NoName, loc[r].name},
         m.pc \in {"probe", "begin"} => m.target \in Targets,
         m.pc = "begin" => m.name = NoName /\ m.result = "none",
         m.pc \in Closing => m.result \in RunResults,
         NEW b \in Batch, batch' = [batch EXCEPT ![r] = b], saved' \in {saved, batch'},
         UNCHANGED <<lock, staged, onDevice, serves, touched, astray>>,
         audited \subseteq audited', audited' \subseteq Runs \X Targets \X BOOLEAN,
         completed' \subseteq Targets,
         Running(r)', Says(r, b), b.status # "complete",
         m.pc = "begin" => \A n \in Names : onDevice[n] = m.target => n \in astray
  PROVE  Invariant'
<1>1. lock = r
  BY OwnRun
<1> QED
  BY <1>1, RunMove DEF Says

\* The loop of a batch ends with an error.
LEMMA FailedMove ==
  ASSUME Invariant, NEW r \in Runs, Busy(loc[r]), NEW p \in {"finish", "close"},
         loc' = [loc EXCEPT ![r] = [Idle EXCEPT !.pc = p, !.result = "failed"]],
         NEW b \in Batch, batch' = [batch EXCEPT ![r] = b], saved' \in {saved, batch'},
         UNCHANGED <<lock, staged, onDevice, serves, touched, completed, astray>>,
         audited \subseteq audited', audited' \subseteq Runs \X Targets \X BOOLEAN,
         Says(r, b), b.status = "running", b.mode \in {"test", "upload"}
  PROVE  Invariant'
<1> DEFINE m == [Idle EXCEPT !.pc = p, !.result = "failed"]
<1>1. /\ m \in Local /\ m.pc = p /\ m.name = NoName /\ m.result = "failed" /\ Busy(m)
      /\ p \in Closing
  <2>1. p \in Closing
    BY DEF Closing
  <2> QED
    BY <2>1, FailedLocals
<1>2. loc' = [loc EXCEPT ![r] = m]
  OBVIOUS
<1> HIDE DEF m
<1>3. loc'[r] = m /\ batch'[r] = b /\ completed' \subseteq Targets
  BY <1>2, OwnRun DEF LocalsOK, StateTypes
<1>4. Running(r)'
  BY <1>1, <1>3 DEF Running, UploadLabels, Closing
<1>5. m.pc \in RunLabels \cup {"begin"} /\ m.pc \notin {"probe", "begin"} /\ m.result \in RunResults
  BY <1>1 DEF RunLabels, RunResults
<1> QED
  BY <1>1, <1>2, <1>3, <1>4, <1>5, RunGoesOn

\* The next target is taken up for its test.
LEMMA BeginTestStep ==
  ASSUME Invariant, NEW r \in Runs, BeginTest(r) PROVE Invariant'
<1>1. loc[r].pc = "test" /\ Busy(loc[r])
  BY DEF BeginTest, At, Busy
<1>2. /\ StateTypes /\ LocalsOK /\ Running(r) /\ Recorded(r) /\ r \in Threads
  BY <1>1, OwnRun
<1>3. PICK u \in With(r, "pending") :
        /\ SetDev(r, u, "testing")
        /\ \/ Persist /\ loc' = [loc EXCEPT ![r] = [Idle EXCEPT !.pc = "probe", !.target = u]]
           \/ PersistFails /\ Failed(r)
  BY DEF BeginTest
<1>4. /\ u \in Targets /\ u \notin touched[r] /\ "testing" \in Statuses
      /\ UNCHANGED <<lock, staged, onDevice, serves, touched, audited, completed, astray>>
      /\ saved' \in {saved, batch'}
  BY <1>2, <1>3 DEF With, Recorded, Begun, Statuses, BeginTest, device, store, Persist, PersistFails
<1> DEFINE b == WithDev(batch[r], u, "testing")
<1>5. /\ b \in Batch /\ Says(r, b) /\ b.status = batch[r].status /\ b.mode = batch[r].mode
      /\ b.dev[u] = "testing" /\ \A t \in Targets : t # u => b.dev[t] = batch[r].dev[t]
  BY <1>1, <1>4, SaysWithDev
<1>6. batch' = [batch EXCEPT ![r] = b]
  BY <1>3 DEF SetDev, WithDev
<1> HIDE DEF b
<1>7. batch'[r] = b /\ audited' \subseteq Runs \X Targets \X BOOLEAN /\ completed' \subseteq Targets
  BY <1>2, <1>4, <1>6 DEF StateTypes
<1>8. /\ b.status = "running" /\ b.mode \in {"test", "upload"}
      /\ \A t \in Targets \ {u} : b.dev[t] \in Tested
  BY <1>1, <1>2, <1>5 DEF Running
<1>9. CASE loc' = [loc EXCEPT ![r] = [Idle EXCEPT !.pc = "probe", !.target = u]]
  <2> DEFINE m == [Idle EXCEPT !.pc = "probe", !.target = u]
  <2>1. m \in Local /\ m.pc = "probe" /\ m.name = NoName /\ m.target = u
    <3>1. "probe" \in Labels
      BY DEF Labels, RunLabels
    <3>2. u \in Targets
      BY <1>4
    <3> QED
      BY ONLY <3>1, <3>2, IdleLocal, IdleFields DEF Local
  <2>2. loc' = [loc EXCEPT ![r] = m]
    BY <1>9
  <2> HIDE DEF m
  <2>3. loc'[r] = m
    BY <1>2, <2>2 DEF LocalsOK
  <2>4. Running(r)'
    BY <1>5, <1>7, <1>8, <2>1, <2>3 DEF Running, UploadLabels, Closing
  <2>5. Busy(m) /\ m.pc \in RunLabels \cup {"begin"} /\ m.pc # "begin" /\ m.pc \notin Closing
    BY <2>1 DEF Busy, RunLabels, Closing
  <2> QED
    BY <1>1, <1>4, <1>5, <1>6, <1>7, <1>8, <2>1, <2>2, <2>4, <2>5, RunGoesOn
<1>10. CASE Failed(r)
  <2>1. loc' = [loc EXCEPT ![r] = [Idle EXCEPT !.pc = "finish", !.result = "failed"]]
    BY <1>10 DEF Failed
  <2> QED
    BY <1>1, <1>4, <1>5, <1>6, <1>7, <1>8, <2>1, FailedMove
<1> QED
  BY <1>3, <1>9, <1>10

\* A target that is not blocked holds no PEM that is still listed.
LEMMA UnblockedIsClear ==
  ASSUME PemsOK, NEW r \in Runs, batch[r].mode = "upload", NEW u \in Targets, ~Blocked(r, u),
         NEW n \in Names, onDevice[n] = u
  PROVE  n \in astray
<1>1. SentTo(n, u) /\ u # NoTarget
  BY NullAssumption DEF PemsOK
<1>2. SUFFICES ASSUME n \notin astray PROVE FALSE
  OBVIOUS
<1>3. Known(u, staged[n]) /\ staged[n] # NoRecord
  BY <1>1, <1>2 DEF SentTo
<1> QED
  BY <1>3 DEF Known, Blocked, Unresolved

\* The result of the test.
LEMMA ProbeStep ==
  ASSUME Invariant, NEW r \in Runs, Probe(r) PROVE Invariant'
<1> DEFINE u == loc[r].target
<1>1. loc[r].pc = "probe" /\ Busy(loc[r])
  BY DEF Probe, At, Busy
<1>2. /\ StateTypes /\ LocalsOK /\ PemsOK /\ Running(r) /\ Recorded(r) /\ r \in Threads
      /\ ThreadFits(r, loc[r]) /\ r \notin Cleaners
  BY <1>1, OwnRun
<1>3. PICK result \in {"ready", "not_ready"} :
        /\ result = "ready" => ~Blocked(r, u)
        /\ SetDev(r, u, result)
        /\ \/ Persist /\ loc' = [loc EXCEPT ![r] = [Idle EXCEPT !.pc = "test"]]
           \/ PersistFails /\ Failed(r)
  BY DEF Probe
<1>4. /\ result \in Statuses
      /\ UNCHANGED <<lock, staged, onDevice, serves, touched, audited, completed, astray>>
      /\ saved' \in {saved, batch'}
  BY <1>3 DEF Statuses, Probe, device, store, Persist, PersistFails
<1>5. u \in Targets /\ u \notin touched[r]
  BY <1>1, <1>2 DEF ThreadFits, Running, Recorded, Begun
<1>6. result = "ready" /\ batch[r].mode = "upload" => \A n \in Names : onDevice[n] = u => n \in astray
  BY <1>2, <1>3, <1>5, UnblockedIsClear
<1> DEFINE b == WithDev(batch[r], u, result)
<1>7. /\ b \in Batch /\ Says(r, b) /\ b.status = batch[r].status /\ b.mode = batch[r].mode
      /\ b.dev[u] = result /\ \A t \in Targets : t # u => b.dev[t] = batch[r].dev[t]
  <2> HIDE DEF u
  <2> QED
    BY <1>1, <1>4, <1>5, <1>6, SaysWithDev
<1>8. batch' = [batch EXCEPT ![r] = b]
  BY <1>3 DEF SetDev, WithDev
<1> HIDE DEF b
<1>9. batch'[r] = b /\ audited' \subseteq Runs \X Targets \X BOOLEAN /\ completed' \subseteq Targets
  BY <1>2, <1>4, <1>8 DEF StateTypes
<1>10. /\ b.status = "running" /\ b.mode \in {"test", "upload"}
       /\ \A t \in Targets : b.dev[t] \in Tested
  BY <1>1, <1>2, <1>3, <1>7 DEF Running, Tested
<1>11. CASE loc' = [loc EXCEPT ![r] = [Idle EXCEPT !.pc = "test"]]
  <2> DEFINE m == [Idle EXCEPT !.pc = "test"]
  <2>1. m \in Local /\ m.pc = "test" /\ m.name = NoName
    <3>1. "test" \in Labels
      BY DEF Labels, RunLabels
    <3> QED
      BY <3>1, IdleAt
  <2>2. loc' = [loc EXCEPT ![r] = m]
    BY <1>11
  <2> HIDE DEF m
  <2>3. loc'[r] = m
    BY <1>2, <2>2 DEF LocalsOK
  <2>4. Running(r)'
    BY <1>9, <1>10, <2>1, <2>3 DEF Running, UploadLabels, Closing
  <2>5. /\ Busy(m) /\ m.pc \in RunLabels \cup {"begin"} /\ m.pc \notin {"begin", "probe"}
        /\ m.pc \notin Closing
    BY <2>1 DEF Busy, RunLabels, Closing
  <2> QED
    BY <1>1, <1>4, <1>7, <1>8, <1>9, <1>10, <2>1, <2>2, <2>4, <2>5, RunGoesOn
<1>12. CASE Failed(r)
  <2>1. loc' = [loc EXCEPT ![r] = [Idle EXCEPT !.pc = "finish", !.result = "failed"]]
    BY <1>12 DEF Failed
  <2> QED
    BY <1>1, <1>4, <1>7, <1>8, <1>9, <1>10, <2>1, FailedMove
<1> QED
  BY <1>3, <1>11, <1>12

\* The tests are over: a batch uploads only when all its targets are ready.
LEMMA EndTestsStep ==
  ASSUME Invariant, NEW r \in Runs, EndTests(r) PROVE Invariant'
<1> DEFINE next == IF batch[r].mode = "upload" /\ Ready(r) THEN "upload" ELSE "wrap_up"
<1>1. loc[r].pc = "test" /\ Busy(loc[r])
  BY DEF EndTests, At, Busy
<1>2. /\ StateTypes /\ LocalsOK /\ Running(r) /\ r \in Threads /\ batch[r] \in Batch
  BY <1>1, OwnRun
<1>3. /\ Goto(r, next) /\ (batch[r].stop \/ With(r, "pending") = {})
      /\ UNCHANGED <<lock, batch, saved, staged, onDevice, serves, touched, audited, completed,
                     astray>>
  BY DEF EndTests, device, store
<1>4. next \in Labels /\ next \in {"upload", "wrap_up"}
  BY DEF Labels, RunLabels
<1>5. PICK m \in Local : loc' = [loc EXCEPT ![r] = m] /\ m.pc = next /\ m.name = loc[r].name
  BY <1>2, <1>3, <1>4, GotoLocals
<1>6. /\ batch[r].status = "running" /\ batch[r].mode \in {"test", "upload"}
      /\ \A t \in Targets : batch[r].dev[t] \in Tested
  BY <1>1, <1>2 DEF Running
<1>7. batch[r].stop \/ \A t \in Targets : batch[r].dev[t] \in {"none", "ready", "not_ready"}
  BY <1>3, <1>6 DEF With, Tested
<1>8. next = "upload" => /\ batch[r].mode = "upload"
                         /\ batch[r].stop \/ \A t \in Targets : batch[r].dev[t] \in Proven
  BY <1>7 DEF Ready, Bad, Proven
<1>9. next = "wrap_up" /\ Ready(r) => batch[r].stop \/ AllGood(batch[r])
  BY <1>6, <1>7 DEF Ready, Bad, AllGood, Goal
<1> HIDE DEF next
<1>10. loc'[r] = m /\ batch' = batch
  BY <1>2, <1>3, <1>5 DEF LocalsOK
<1>11. Ready(r)' <=> Ready(r)
  BY <1>10 DEF Ready
<1>12. Running(r)'
  BY <1>4, <1>5, <1>6, <1>8, <1>9, <1>10, <1>11 DEF Running, UploadLabels, Closing
<1>13. /\ Busy(m) /\ m.pc \in RunLabels \cup {"begin"} /\ m.pc \notin {"begin", "probe"}
       /\ m.pc \notin Closing
  BY <1>4, <1>5 DEF Busy, RunLabels, Closing
<1>14. batch' = [batch EXCEPT ![r] = batch[r]] /\ Says(r, batch[r])
  BY <1>1, <1>2, <1>3, SaysNow DEF StateTypes
<1>15. audited' \subseteq Runs \X Targets \X BOOLEAN /\ completed' \subseteq Targets
  BY <1>2, <1>3 DEF StateTypes
<1> QED
  BY <1>1, <1>2, <1>3, <1>5, <1>6, <1>12, <1>13, <1>14, <1>15, RunGoesOn

\* The uploads are over.
LEMMA EndUploadsStep ==
  ASSUME Invariant, NEW r \in Runs, EndUploads(r) PROVE Invariant'
<1>1. loc[r].pc = "upload" /\ Busy(loc[r])
  BY DEF EndUploads, At, Busy
<1>2. /\ StateTypes /\ LocalsOK /\ Running(r) /\ r \in Threads /\ batch[r] \in Batch
  BY <1>1, OwnRun
<1>3. /\ Goto(r, "wrap_up") /\ (batch[r].stop \/ With(r, "ready") = {})
      /\ UNCHANGED <<lock, batch, saved, staged, onDevice, serves, touched, audited, completed,
                     astray>>
  BY DEF EndUploads, device, store
<1>4. "wrap_up" \in Labels
  BY DEF Labels, RunLabels
<1>5. PICK m \in Local : loc' = [loc EXCEPT ![r] = m] /\ m.pc = "wrap_up" /\ m.name = loc[r].name
  BY <1>2, <1>3, <1>4, GotoLocals
<1>6. /\ batch[r].status = "running" /\ batch[r].mode = "upload"
      /\ batch[r].stop \/ AllGood(batch[r])
  BY <1>1, <1>2, <1>3 DEF Running, Proven, With, AllGood, Goal
<1>7. loc'[r] = m /\ batch' = batch
  BY <1>2, <1>3, <1>5 DEF LocalsOK
<1>8. Running(r)'
  BY <1>5, <1>6, <1>7 DEF Running, UploadLabels, Closing, AllGood, Goal
<1>9. /\ Busy(m) /\ m.pc \in RunLabels \cup {"begin"} /\ m.pc \notin {"begin", "probe"}
      /\ m.pc \notin Closing
  BY <1>5 DEF Busy, RunLabels, Closing
<1>10. batch' = [batch EXCEPT ![r] = batch[r]] /\ Says(r, batch[r])
  BY <1>1, <1>2, <1>3, SaysNow DEF StateTypes
<1>11. audited' \subseteq Runs \X Targets \X BOOLEAN /\ completed' \subseteq Targets
  BY <1>2, <1>3 DEF StateTypes
<1> QED
  BY <1>1, <1>2, <1>3, <1>5, <1>6, <1>8, <1>9, <1>10, <1>11, RunGoesOn

\* The next target is taken up for its upload, which is saved before it begins.
LEMMA BeginUploadStep ==
  ASSUME Invariant, NEW r \in Runs, BeginUpload(r) PROVE Invariant'
<1>1. loc[r].pc = "upload" /\ Busy(loc[r])
  BY DEF BeginUpload, At, Busy
<1>2. /\ StateTypes /\ LocalsOK /\ Running(r) /\ Recorded(r) /\ Holding(r) /\ r \in Threads
      /\ lock = r
  BY <1>1, OwnRun
<1>3. PICK u \in With(r, "ready") :
        /\ SetDev(r, u, "uploading")
        /\ \/ Persist /\ loc' = [loc EXCEPT ![r] = [Idle EXCEPT !.pc = "begin", !.target = u]]
           \/ PersistFails /\ Failed(r)
  BY DEF BeginUpload
<1>4. /\ u \in Targets /\ "uploading" \in Statuses /\ "uploading" \in Begun
      /\ UNCHANGED <<lock, staged, onDevice, serves, touched, audited, completed, astray>>
      /\ saved' \in {saved, batch'}
  BY <1>3 DEF With, Begun, Statuses, BeginUpload, device, store, Persist, PersistFails
<1>5. /\ batch[r].mode = "upload" /\ ~batch[r].stop
      /\ \A t \in Targets : batch[r].dev[t] \in Proven
      /\ \A n \in Names : onDevice[n] = u => n \in astray
  BY <1>1, <1>2, <1>3 DEF Running, Holding, BeginUpload
<1> DEFINE b == WithDev(batch[r], u, "uploading")
<1>6. /\ b \in Batch /\ Says(r, b) /\ b.status = batch[r].status /\ b.mode = batch[r].mode
      /\ b.dev[u] = "uploading" /\ \A t \in Targets : t # u => b.dev[t] = batch[r].dev[t]
  BY <1>1, <1>4, SaysWithDev
<1>7. batch' = [batch EXCEPT ![r] = b]
  BY <1>3 DEF SetDev, WithDev
<1> HIDE DEF b
<1>8. batch'[r] = b /\ audited' \subseteq Runs \X Targets \X BOOLEAN /\ completed' \subseteq Targets
  BY <1>2, <1>4, <1>7 DEF StateTypes
<1>9. /\ b.status = "running" /\ b.mode = "upload"
      /\ \A t \in Targets \ {u} : b.dev[t] \in Proven
  BY <1>1, <1>2, <1>5, <1>6 DEF Running
<1>10. CASE Persist /\ loc' = [loc EXCEPT ![r] = [Idle EXCEPT !.pc = "begin", !.target = u]]
  <2> DEFINE m == [Idle EXCEPT !.pc = "begin", !.target = u]
  <2>1. m \in Local /\ m.pc = "begin" /\ m.name = NoName /\ m.target = u /\ m.result = "none"
    <3>1. "begin" \in Labels
      BY DEF Labels, UploadLabels
    <3>2. u \in Targets
      BY <1>4
    <3> QED
      BY ONLY <3>1, <3>2, IdleLocal, IdleFields DEF Local
  <2>2. loc' = [loc EXCEPT ![r] = m]
    BY <1>10
  <2> HIDE DEF m
  <2>3. loc'[r] = m /\ saved'[r] = b
    BY <1>2, <1>8, <1>10, <2>2 DEF LocalsOK, Persist
  <2>4. Running(r)'
    BY <1>6, <1>8, <1>9, <2>1, <2>3 DEF Running, UploadLabels, Closing
  <2>5. Busy(m) /\ m.pc \in RunLabels \cup {"begin"} /\ m.pc \notin Closing
    BY <2>1 DEF Busy, Closing
  <2>6. \A n \in Names : onDevice[n] = m.target => n \in astray
    BY <1>5, <2>1
  <2> QED
    BY <1>1, <1>4, <1>6, <1>7, <1>8, <1>9, <2>1, <2>2, <2>4, <2>5, <2>6, RunGoesOn
<1>11. CASE Failed(r)
  <2>1. loc' = [loc EXCEPT ![r] = [Idle EXCEPT !.pc = "finish", !.result = "failed"]]
    BY <1>11 DEF Failed
  <2> QED
    BY <1>1, <1>4, <1>6, <1>7, <1>8, <1>9, <2>1, FailedMove
<1> QED
  BY <1>3, <1>10, <1>11

\* The result of an upload: verified, the batch goes on, and else it wraps up.
LEMMA UploadedStep ==
  ASSUME Invariant, NEW r \in Runs, Uploaded(r) PROVE Invariant'
<1> DEFINE u == loc[r].target
           x == loc[r].result
<1>1. loc[r].pc = "returned" /\ Busy(loc[r])
  BY DEF Uploaded, At, Busy
<1>2. /\ StateTypes /\ LocalsOK /\ Running(r) /\ Recorded(r) /\ r \in Threads /\ r \notin Cleaners
      /\ ThreadFits(r, loc[r])
  BY <1>1, OwnRun
<1>3. /\ SetDev(r, u, x)
      /\ \/ /\ Persist
            /\ loc' = [loc EXCEPT ![r] = [Idle EXCEPT !.pc = IF x = "verified" THEN "upload"
                                                            ELSE "wrap_up"]]
         \/ PersistFails /\ Failed(r)
  BY DEF Uploaded
<1>4. /\ UNCHANGED <<lock, staged, onDevice, serves, touched, audited, completed, astray>>
      /\ saved' \in {saved, batch'}
  BY <1>3 DEF Uploaded, device, store, Persist, PersistFails
<1>5. u \in Targets /\ x \in UploadResults
  BY <1>1, <1>2 DEF ThreadFits, UploadLabels
<1>6. x \in Statuses /\ x \in Begun /\ x # "ready" /\ (x # "verified" => x \in Bad)
  BY <1>5 DEF UploadResults, Statuses, Begun, Bad
<1> DEFINE b == WithDev(batch[r], u, x)
<1>7. /\ b \in Batch /\ Says(r, b) /\ b.status = batch[r].status /\ b.mode = batch[r].mode
      /\ b.dev[u] = x /\ \A t \in Targets : t # u => b.dev[t] = batch[r].dev[t]
  <2> HIDE DEF u, x
  <2> QED
    BY <1>1, <1>5, <1>6, SaysWithDev
<1>8. batch' = [batch EXCEPT ![r] = b]
  BY <1>3 DEF SetDev, WithDev
<1> HIDE DEF b, u, x
<1>9. batch'[r] = b /\ audited' \subseteq Runs \X Targets \X BOOLEAN /\ completed' \subseteq Targets
  BY <1>2, <1>4, <1>8 DEF StateTypes
<1>10. /\ b.status = "running" /\ b.mode = "upload"
       /\ \A t \in Targets \ {u} : b.dev[t] \in Proven
  BY <1>1, <1>2, <1>7 DEF Running, UploadLabels, u
<1>11. ASSUME NEW p \in {"upload", "wrap_up"}, (p = "upload") <=> (x = "verified"),
              loc' = [loc EXCEPT ![r] = [Idle EXCEPT !.pc = p]]
       PROVE  Invariant'
  <2> DEFINE m == [Idle EXCEPT !.pc = p]
  <2>1. m \in Local /\ m.pc = p /\ m.name = NoName
    <3>1. p \in Labels
      BY DEF Labels, RunLabels
    <3> QED
      BY <3>1, IdleAt
  <2>2. loc' = [loc EXCEPT ![r] = m]
    BY <1>11
  <2> HIDE DEF m
  <2>3. loc'[r] = m
    BY <1>2, <2>2 DEF LocalsOK
  <2>4. p = "upload" => \A t \in Targets : b.dev[t] \in Proven
    BY <1>7, <1>10, <1>11 DEF Proven
  <2>5. p = "wrap_up" => ~Ready(r)'
    BY <1>5, <1>6, <1>7, <1>9, <1>11 DEF Ready
  <2>6. Running(r)'
    BY <1>9, <1>10, <1>11, <2>1, <2>3, <2>4, <2>5 DEF Running, UploadLabels, Closing
  <2>7. /\ Busy(m) /\ m.pc \in RunLabels \cup {"begin"} /\ m.pc \notin {"begin", "probe"}
        /\ m.pc \notin Closing
    BY <2>1 DEF Busy, RunLabels, Closing
  <2> QED
    BY <1>1, <1>4, <1>7, <1>8, <1>9, <1>10, <2>1, <2>2, <2>6, <2>7, RunGoesOn
<1>12. CASE Failed(r)
  <2>1. loc' = [loc EXCEPT ![r] = [Idle EXCEPT !.pc = "finish", !.result = "failed"]]
    BY <1>12 DEF Failed
  <2> QED
    BY <1>1, <1>4, <1>7, <1>8, <1>9, <1>10, <2>1, FailedMove
<1> QED
  BY <1>3, <1>11, <1>12 DEF u, x

\* What was never reached is called skipped; what was begun keeps its result.
LEMMA SkippedDev ==
  ASSUME NEW b \in Batch
  PROVE  /\ Skipped(b) \in [Targets -> Statuses]
         /\ \A t \in Targets : b.dev[t] \in Begun => Skipped(b)[t] = b.dev[t]
         /\ \A t \in Targets : Skipped(b)[t] \in {"verified", "ready"} => Skipped(b)[t] = b.dev[t]
         /\ \A t \in Targets : b.mode = "upload" => Skipped(b)[t] # "ready"
         /\ b.mode \in {"test", "upload"} /\ AllGood(b) => Skipped(b) = b.dev
<1>1. b.dev \in [Targets -> Statuses] /\ "skipped" \in Statuses
  BY DEF Batch, Statuses
<1>2. Skipped(b) \in [Targets -> Statuses]
  <2> HIDE DEF Statuses
  <2> QED
    BY <1>1 DEF Skipped
<1>3. \A t \in Targets : Skipped(b)[t] = IF b.dev[t] = "pending" \/ (b.mode = "upload" /\ b.dev[t] = "ready")
                                         THEN "skipped" ELSE b.dev[t]
  BY DEF Skipped
<1>4. ASSUME b.mode \in {"test", "upload"}, AllGood(b) PROVE Skipped(b) = b.dev
  <2>1. \A t \in Targets : Skipped(b)[t] = b.dev[t]
    BY <1>3, <1>4 DEF AllGood, Goal
  <2> HIDE DEF Statuses
  <2> QED
    BY <1>1, <1>2, <2>1
<1> QED
  BY <1>2, <1>3, <1>4 DEF Begun

\* The outcome is decided: complete is only what has every target at its goal.
LEMMA WrapUpStep ==
  ASSUME Invariant, NEW r \in Runs, WrapUp(r) PROVE Invariant'
<1>1. loc[r].pc = "wrap_up" /\ Busy(loc[r])
  BY DEF WrapUp, At, Busy
<1>2. /\ StateTypes /\ LocalsOK /\ Running(r) /\ r \in Threads /\ batch[r] \in Batch
      /\ Says(r, batch[r])
  BY <1>1, OwnRun, SaysNow
<1>3. /\ batch' = [batch EXCEPT ![r].dev = Skipped(batch[r])]
      /\ UNCHANGED <<lock, saved, staged, onDevice, serves, touched, audited, completed, astray>>
  BY DEF WrapUp, device, store
<1>4. PICK x \in {"stopped", "complete", "needs_attention"} :
        /\ x = "complete" => ~batch[r].stop /\ Ready(r)
        /\ loc' = [loc EXCEPT ![r] = [Idle EXCEPT !.pc = "finish", !.result = x]]
  BY DEF WrapUp
<1>5. /\ batch[r].status = "running" /\ batch[r].mode \in {"test", "upload"}
      /\ x = "complete" => AllGood(batch[r])
  BY <1>1, <1>2, <1>4 DEF Running
<1> DEFINE dev == Skipped(batch[r])
           b == [batch[r] EXCEPT !.dev = dev]
<1>6. dev \in [Targets -> Statuses]
  BY <1>2, SkippedDev
<1>7. batch' = [batch EXCEPT ![r] = b]
  BY <1>3
<1> HIDE DEF dev
<1>8. /\ b \in Batch /\ b.dev = dev /\ b.status = "running" /\ b.mode = batch[r].mode
      /\ b.stop = batch[r].stop
  <2> HIDE DEF Statuses
  <2> QED
    BY <1>2, <1>5, <1>6 DEF Batch
<1> HIDE DEF b
<1>9. Says(r, b)
  <2>1. touched[r] \subseteq Targets
    BY <1>2 DEF StateTypes
  <2> QED
    BY <1>2, <1>8, <2>1, SkippedDev DEF Says, dev
<1>10. x = "complete" => AllGood(b)
  BY <1>2, <1>5, <1>8, SkippedDev DEF AllGood, Goal, dev
<1> DEFINE m == [Idle EXCEPT !.pc = "finish", !.result = x]
<1>11. m \in Local /\ m.pc = "finish" /\ m.name = NoName /\ m.result = x /\ x \in RunResults
  <2>1. "finish" \in Labels /\ x \in UploadResults \cup RunResults \cup {"none"}
    BY DEF Labels, RunLabels, RunResults
  <2>2. x \in RunResults
    BY DEF RunResults
  <2> QED
    BY ONLY <2>1, <2>2, IdleLocal, IdleFields DEF Local
<1>12. loc' = [loc EXCEPT ![r] = m]
  BY <1>4
<1> HIDE DEF m
<1>13. /\ loc'[r] = m /\ batch'[r] = b /\ audited' \subseteq Runs \X Targets \X BOOLEAN
       /\ completed' \subseteq Targets
  BY <1>2, <1>3, <1>7, <1>12 DEF LocalsOK, StateTypes
<1>14. Running(r)'
  BY <1>5, <1>8, <1>10, <1>11, <1>13 DEF Running, UploadLabels, Closing, AllGood, Goal
<1>15. Busy(m) /\ m.pc \in RunLabels \cup {"begin"} /\ m.pc \notin {"begin", "probe"}
  BY <1>11 DEF Busy, RunLabels
<1> QED
  BY <1>1, <1>3, <1>7, <1>8, <1>9, <1>11, <1>12, <1>13, <1>14, <1>15, RunGoesOn

\* The outcomes of a batch are well formed.
LEMMA OutcomeTypes ==
  ASSUME NEW r \in Runs PROVE Outcomes(r) \subseteq Runs \X Targets \X BOOLEAN
<1>1. SUFFICES ASSUME NEW t \in Targets
               PROVE  <<r, t, batch[r].dev[t] = "verified">> \in Runs \X Targets \X BOOLEAN
  BY DEF Outcomes, TargetsOf
<1> DEFINE ok == batch[r].dev[t] = "verified"
<1>2. ok \in BOOLEAN
  OBVIOUS
<1> HIDE DEF ok
<1>3. <<r, t, ok>> \in Runs \X Targets \X BOOLEAN
  BY <1>2
<1> QED
  BY <1>3 DEF ok

\* The outcome is audited, the successful rows hidden and the run recorded.
LEMMA RecordingStep ==
  ASSUME Invariant, NEW r \in Runs, AuditResults(r) \/ HideSuccessful(r) \/ RecordRun(r)
  PROVE  Invariant'
<1>1. loc[r].pc \in {"finish", "hide", "record"} /\ Busy(loc[r]) /\ loc[r].pc \in Closing
  BY DEF AuditResults, HideSuccessful, RecordRun, At, Busy, Closing
<1>2. /\ StateTypes /\ LocalsOK /\ Running(r) /\ r \in Threads /\ batch[r] \in Batch
      /\ ThreadFits(r, loc[r]) /\ Says(r, batch[r])
  BY <1>1, OwnRun, SaysNow
<1>3. PICK p \in {"hide", "record", "close"} :
        Goto(r, p) /\ (p = "hide" => Outcomes(r) \subseteq audited')
  BY DEF AuditResults, AfterAudit, HideSuccessful, RecordRun
<1>4. /\ UNCHANGED <<lock, batch, saved, staged, onDevice, serves, touched, astray>>
      /\ audited' \in {audited, audited \cup Outcomes(r)}
      /\ completed' \in {completed, completed \cup Successful(r)}
  BY DEF AuditResults, HideSuccessful, RecordRun, device
<1>5. p \in Labels /\ p \in Closing
  BY DEF Labels, RunLabels, Closing
<1>6. PICK m \in Local : /\ loc' = [loc EXCEPT ![r] = m]
                         /\ m.pc = p /\ m.name = loc[r].name /\ m.result = loc[r].result
  BY <1>2, <1>3, <1>5, GotoLocals
<1>7. /\ audited \subseteq audited' /\ audited' \subseteq Runs \X Targets \X BOOLEAN
      /\ completed' \subseteq Targets
  <2>1. Successful(r) \subseteq Targets
    BY DEF Successful, With
  <2> QED
    BY <1>2, <1>4, <2>1, OutcomeTypes DEF StateTypes
<1>8. loc'[r] = m /\ batch' = batch
  BY <1>2, <1>4, <1>6 DEF LocalsOK
<1>9. /\ batch[r].status = "running" /\ batch[r].mode \in {"test", "upload"}
      /\ loc[r].result = "complete" => AllGood(batch[r])
      /\ loc[r].result \in RunResults
  BY <1>1, <1>2 DEF Running, ThreadFits
<1>10. Outcomes(r)' = Outcomes(r)
  BY <1>8 DEF Outcomes, TargetsOf
<1>11. Running(r)'
  BY <1>3, <1>5, <1>6, <1>8, <1>9, <1>10 DEF Running, UploadLabels, Closing, AllGood, Goal
<1>12. Busy(m) /\ m.pc \in RunLabels \cup {"begin"} /\ m.pc \notin {"begin", "probe"}
  BY <1>3, <1>6 DEF Busy, RunLabels
<1>13. batch' = [batch EXCEPT ![r] = batch[r]]
  BY <1>2, <1>4 DEF StateTypes
<1> QED
  BY <1>1, <1>2, <1>4, <1>6, <1>7, <1>9, <1>11, <1>12, <1>13, RunGoesOn

\* One of the three fails, an audit perhaps half-way.
LEMMA FinishFailsStep ==
  ASSUME Invariant, NEW r \in Runs, FinishFails(r) PROVE Invariant'
<1>1. loc[r].pc \in {"finish", "hide", "record"} /\ Busy(loc[r])
  BY DEF FinishFails, At, Busy
<1>2. /\ StateTypes /\ LocalsOK /\ Running(r) /\ r \in Threads /\ batch[r] \in Batch
      /\ Says(r, batch[r])
  BY <1>1, OwnRun, SaysNow
<1>3. /\ loc' = [loc EXCEPT ![r] = [Idle EXCEPT !.pc = "close", !.result = "failed"]]
      /\ UNCHANGED <<lock, batch, saved, staged, onDevice, serves, touched, completed, astray>>
  BY DEF FinishFails, device
<1>4. \E some \in SUBSET Outcomes(r) : audited' = audited \cup some
  <2>1. {} \in SUBSET Outcomes(r) /\ audited \cup {} = audited
    OBVIOUS
  <2> QED
    BY <2>1 DEF FinishFails
<1>5. audited \subseteq audited' /\ audited' \subseteq Runs \X Targets \X BOOLEAN
  BY <1>2, <1>4, OutcomeTypes DEF StateTypes
<1>6. batch[r].status = "running" /\ batch[r].mode \in {"test", "upload"}
  BY <1>1, <1>2 DEF Running
<1>7. batch' = [batch EXCEPT ![r] = batch[r]]
  BY <1>2, <1>3 DEF StateTypes
<1> QED
  BY <1>1, <1>2, <1>3, <1>5, <1>6, <1>7, FailedMove

\* The outcome is kept, and the lock given back, whether or not it can be saved.
LEMMA CloseStep ==
  ASSUME Invariant, NEW r \in Runs, Close(r) PROVE Invariant'
<1>1. loc[r].pc \in Closing /\ Busy(loc[r])
  BY DEF Close, At, Busy, Closing
<1>2. /\ StateTypes /\ LocalsOK /\ Running(r) /\ r \in Threads /\ batch[r] \in Batch
      /\ ThreadFits(r, loc[r]) /\ Says(r, batch[r]) /\ lock = r /\ r # Nobody
  BY <1>1, OwnRun, SaysNow
<1>3. PICK x \in {loc[r].result, "failed"} :
        batch' = [batch EXCEPT ![r].status = x] /\ saved' \in {saved, batch'}
  BY DEF Close, Persist, PersistFails
<1>4. /\ lock' = Nobody /\ loc' = [loc EXCEPT ![r] = Idle]
      /\ UNCHANGED <<staged, onDevice, serves, touched, audited, completed, astray>>
  BY DEF Close, device, store
<1>5. x \in RunResults /\ (x = "complete" => AllGood(batch[r]))
  BY <1>1, <1>2, <1>3 DEF ThreadFits, Running, RunResults
<1> DEFINE b == [batch[r] EXCEPT !.status = x]
<1>6. batch' = [batch EXCEPT ![r] = b]
  BY <1>3
<1>7. b \in Batch /\ b.dev = batch[r].dev /\ b.status = x /\ b.mode = batch[r].mode
  <2>1. x \in {"absent", "running", "complete", "needs_attention", "stopped", "failed", "interrupted"}
    BY <1>5 DEF RunResults
  <2> HIDE DEF Statuses
  <2> QED
    BY <1>2, <2>1 DEF Batch
<1> HIDE DEF b
<1>8. /\ Idle \in Local /\ Idle.pc = "idle" /\ Idle.name = NoName /\ ~Busy(Idle)
      /\ Idle.pc \in RunLabels \cup {"begin"} /\ Idle.pc \notin {"probe", "begin"} \cup Closing
  BY IdleLocal, IdleFields DEF Busy, RunLabels, Closing
<1>9. loc'[r] = Idle /\ audited' \subseteq Runs \X Targets \X BOOLEAN /\ completed' \subseteq Targets
  BY <1>2, <1>4 DEF LocalsOK, StateTypes
<1>10. Running(r)'
  BY <1>8, <1>9 DEF Running, UploadLabels, Closing
<1>11. /\ \A t \in touched[r] : b.dev[t] \in Begun
       /\ b.status = "complete" => AllGood(b)
  BY <1>2, <1>5, <1>7 DEF Says, AllGood, Goal
<1> QED
  BY <1>2, <1>3, <1>4, <1>6, <1>7, <1>8, <1>9, <1>10, <1>11, RunMove

\* A batch begins: nothing is known of its targets.
LEMMA StartStep ==
  ASSUME Invariant, NEW r \in Runs, NEW mode \in {"test", "upload"}, NEW ts \in SUBSET Targets,
         StartBatch(r, mode, ts) \/ StartFails(r, mode, ts)
  PROVE  Invariant'
<1>1. /\ StateTypes /\ LocalsOK /\ HolderOK /\ Recorded(r)
      /\ r \in Threads /\ r # Nobody /\ r \notin Callers /\ r \notin Cleaners
  BY Kinds DEF Invariant, RunOK
<1>2. /\ batch[r] = NoBatch /\ lock = Nobody /\ lock' \in {r, Nobody}
      /\ saved' \in {saved, batch'}
      /\ UNCHANGED <<staged, onDevice, serves, touched, audited, completed, astray>>
  BY DEF StartBatch, StartFails, Persist, PersistFails, device, store
<1>3. ~Busy(loc[r]) /\ loc[r].pc = "idle" /\ loc[r] \in Local
  <2>1. ~Busy(loc[r])
    BY <1>1, <1>2 DEF HolderOK
  <2>2. loc[r].pc # "ended" /\ loc[r] \in Local
    BY <1>1 DEF LocalsOK, ThreadFits, RunLabels, UploadLabels
  <2> QED
    BY <2>1, <2>2 DEF Busy
<1>4. touched[r] = {}
  BY <1>1, <1>2 DEF Recorded, NoBatch, Begun, StateTypes
<1> DEFINE dev == [t \in Targets |-> IF t \in ts THEN "pending" ELSE "none"]
<1>5. dev \in [Targets -> Statuses] /\ \A t \in Targets : dev[t] \in {"pending", "none"}
  BY DEF Statuses
<1>6. PICK status \in {"running", "failed"} :
        /\ batch' = [batch EXCEPT ![r] = [NewBatch(mode, ts) EXCEPT !.status = status]]
        /\ IF status = "running"
           THEN lock' = r /\ loc' = [loc EXCEPT ![r] = [Idle EXCEPT !.pc = "test"]]
           ELSE lock' = lock /\ loc' = loc
  <2>1. NewBatch(mode, ts) = [NewBatch(mode, ts) EXCEPT !.status = "running"]
    BY DEF NewBatch
  <2>2. CASE StartBatch(r, mode, ts)
    BY <2>1, <2>2 DEF StartBatch
  <2>3. CASE StartFails(r, mode, ts)
    BY <2>3 DEF StartFails
  <2> QED
    BY <2>2, <2>3
<1> DEFINE b == [NewBatch(mode, ts) EXCEPT !.status = status]
<1>7. batch' = [batch EXCEPT ![r] = b]
  BY <1>6
<1>8. /\ b \in Batch /\ b.mode = mode /\ b.status = status /\ b.dev = dev
  <2> DEFINE new == NewBatch(mode, ts)
  <2> HIDE DEF Statuses
  <2>1. new = [mode |-> mode, status |-> "running", stop |-> FALSE, dev |-> dev]
    BY DEF NewBatch
  <2>2. b = [new EXCEPT !.status = status]
    OBVIOUS
  <2> HIDE DEF new, dev, b
  <2>3. new \in Batch /\ new.mode = mode /\ new.dev = dev
    BY <1>5, <2>1 DEF Batch
  <2> QED
    BY <2>2, <2>3 DEF Batch
<1> HIDE DEF b, dev
<1>9. PICK m \in Local :
        /\ loc' = [loc EXCEPT ![r] = m] /\ m.pc = IF status = "running" THEN "test" ELSE "idle"
        /\ m.name \in {NoName, loc[r].name}
  <2>1. CASE status = "running"
    <3> DEFINE m == [Idle EXCEPT !.pc = "test"]
    <3>1. m \in Local /\ m.pc = "test" /\ m.name = NoName
      <4>1. "test" \in Labels
        BY DEF Labels, RunLabels
      <4> QED
        BY <4>1, IdleAt
    <3>2. loc' = [loc EXCEPT ![r] = m]
      BY <1>6, <2>1
    <3> HIDE DEF m
    <3> QED
      BY <2>1, <3>1, <3>2
  <2>2. CASE status = "failed"
    <3>1. loc' = [loc EXCEPT ![r] = loc[r]]
      BY <1>1, <1>6, <2>2 DEF LocalsOK
    <3> QED
      BY <1>3, <2>2, <3>1
  <2> QED
    BY <2>1, <2>2
<1>10. /\ m.pc \in RunLabels \cup {"begin"} /\ m.pc \notin {"probe", "begin"} \cup Closing
       /\ Busy(m) <=> lock' = r
  BY <1>1, <1>2, <1>6, <1>9 DEF RunLabels, Closing, Busy
<1>11. /\ loc'[r] = m /\ batch'[r] = b /\ audited' \subseteq Runs \X Targets \X BOOLEAN
       /\ completed' \subseteq Targets
  BY <1>1, <1>2, <1>7, <1>9 DEF LocalsOK, StateTypes
<1>12. Running(r)'
  BY <1>5, <1>8, <1>9, <1>11 DEF Running, UploadLabels, Closing, Tested
<1>13. /\ \A t \in touched[r] : b.dev[t] \in Begun
       /\ b.status = "complete" => AllGood(b)
       /\ \A t \in Targets : b.dev[t] \notin {"verified", "ready"}
  BY <1>4, <1>5, <1>6, <1>8
<1> QED
  BY <1>2, <1>7, <1>8, <1>9, <1>10, <1>11, <1>12, <1>13, RunMove

\* A stop is asked for, which the loop of the batch looks at later.
LEMMA StopStep ==
  ASSUME Invariant, NEW r \in Runs, StopBatch(r) PROVE Invariant'
<1>1. /\ StateTypes /\ LocalsOK /\ HolderOK /\ PemsOK /\ \A q \in Runs : RunOK(q)
  BY DEF Invariant
<1>2. /\ batch' = [batch EXCEPT ![r].stop = TRUE] /\ saved' \in {saved, batch'}
      /\ UNCHANGED <<lock, staged, loc, onDevice, serves, touched, audited, completed, astray>>
  BY DEF StopBatch, Persist, PersistFails, device, store
<1> DEFINE b == [batch[r] EXCEPT !.stop = TRUE]
<1>3. batch[r] \in Batch
  BY <1>1 DEF StateTypes
<1>4. /\ b \in Batch /\ b.status = batch[r].status /\ b.mode = batch[r].mode /\ b.dev = batch[r].dev
      /\ b.stop = TRUE
  <2> HIDE DEF Statuses
  <2> QED
    BY <1>3 DEF Batch
<1>5. batch' = [batch EXCEPT ![r] = b]
  BY <1>2
<1> HIDE DEF b
<1>6. /\ batch' \in [Runs -> Batch] /\ batch'[r] = b /\ \A q \in Runs : q # r => batch'[q] = batch[q]
  BY <1>1, <1>4, <1>5 DEF StateTypes
<1>7. saved' \in [Runs -> Batch] /\ \A q \in Runs : saved'[q] \in {saved[q], batch'[q]}
  BY <1>1, <1>2, <1>6 DEF StateTypes
<1>8. StateTypes' /\ LocalsOK' /\ HolderOK'
  BY <1>1, <1>2, <1>6, <1>7 DEF StateTypes, LocalsOK, HolderOK
<1>9. PemsOK'
  <2>1. \A n \in Names : SentTo(n, onDevice'[n])
    BY <1>1, <1>2 DEF PemsOK
  <2> QED
    BY <1>1, <1>2, <2>1, QuietPems
<1>10. ASSUME NEW q \in Runs PROVE RunOK(q)'
  <2>1. /\ batch'[q].status = batch[q].status /\ batch'[q].mode = batch[q].mode
        /\ batch'[q].dev = batch[q].dev /\ (batch[q].stop => batch'[q].stop)
    BY <1>4, <1>6
  <2>2. touched'[q] = touched[q] /\ loc'[q] = loc[q]
    BY <1>2
  <2>3. /\ audited \subseteq audited' /\ astray \subseteq astray'
        /\ \A n \in Names : onDevice'[n] \in {onDevice[n], NoTarget}
    BY <1>2
  <2> QED
    BY <1>1, <1>2, <1>7, <2>1, <2>2, <2>3, Bystander
<1> QED
  BY <1>8, <1>9, <1>10 DEF Invariant

\* What a start makes of a saved batch.
LEMMA RecoveredBatch ==
  ASSUME NEW b \in Batch
  PROVE  /\ Recovered(b) \in Batch
         /\ \A t \in Targets : b.dev[t] \in Begun => Recovered(b).dev[t] \in Begun
         /\ Recovered(b).status = "complete" => Recovered(b) = b
<1>1. CASE b.status # "running"
  BY <1>1 DEF Recovered
<1>2. CASE b.status = "running"
  <2> DEFINE dev == [t \in Targets |-> Interrupted(b.dev[t])]
  <2>1. Recovered(b) = [b EXCEPT !.status = "interrupted", !.dev = dev]
    BY <1>2 DEF Recovered
  <2>2. b.dev \in [Targets -> Statuses]
    BY DEF Batch
  <2>3. dev \in [Targets -> Statuses] /\ \A t \in Targets : b.dev[t] \in Begun => dev[t] \in Begun
    <3>1. ASSUME NEW x \in Statuses
          PROVE  Interrupted(x) \in Statuses /\ (x \in Begun => Interrupted(x) \in Begun)
      BY DEF Interrupted, Statuses, Begun
    <3> HIDE DEF Statuses, Begun
    <3> QED
      BY <2>2, <3>1
  <2> HIDE DEF dev
  <2>4. Recovered(b) \in Batch /\ Recovered(b).dev = dev /\ Recovered(b).status = "interrupted"
    <3> HIDE DEF Statuses
    <3> QED
      BY <2>1, <2>3 DEF Batch
  <2> QED
    BY <2>3, <2>4
<1> QED
  BY <1>1, <1>2

\* A crash: what was under way is over, and the batches are read back.
LEMMA CrashStep ==
  ASSUME Invariant, Crash PROVE Invariant'
<1>1. /\ StateTypes /\ LocalsOK /\ HolderOK /\ PemsOK /\ \A r \in Runs : RunOK(r)
  BY DEF Invariant
<1>2. /\ batch' = [r \in Runs |-> Recovered(saved[r])] /\ saved' = batch' /\ lock' = Nobody
      /\ loc' = [t \in Threads |-> IF t \in Runs \/ loc[t] = Idle THEN Idle ELSE Ended]
      /\ UNCHANGED <<staged, onDevice, serves, touched, audited, completed, astray>>
  BY DEF Crash, Persist, device, store
<1>3. /\ Idle \in Local /\ Idle.pc = "idle" /\ Idle.name = NoName
      /\ Ended \in Local /\ Ended.pc = "ended" /\ Ended.name = NoName
  <2>1. "ended" \in Labels
    BY DEF Labels
  <2> QED
    BY <2>1, IdleLocal, IdleFields, IdleAt DEF Ended
<1>4. \A t \in Threads : loc'[t] \in {Idle, Ended} /\ (t \in Runs => loc'[t] = Idle)
  BY <1>2
<1>5. LocalsOK' /\ HolderOK'
  <2>1. loc' \in [Threads -> Local]
    BY <1>2, <1>3
  <2>2. ASSUME NEW t \in Threads PROVE ThreadFits(t, loc'[t]) /\ ~Busy(loc'[t])
    <3>1. t \in Runs => t \notin Callers /\ t \notin Cleaners
      BY Kinds
    <3> QED
      BY <1>3, <1>4, <3>1 DEF ThreadFits, RunLabels, UploadLabels, Uploading, Closing, Busy
  <2>3. \A t \in Runs \cup Callers : t \in Threads /\ t # Nobody
    BY Kinds
  <2> QED
    BY <1>2, <2>1, <2>2, <2>3 DEF LocalsOK, HolderOK, Busy
<1>6. \A r \in Runs : saved[r] \in Batch /\ batch'[r] = Recovered(saved[r])
  BY <1>1, <1>2 DEF StateTypes
<1>7. StateTypes'
  <2>1. batch' \in [Runs -> Batch]
    BY <1>1, <1>2, <1>6, RecoveredBatch DEF StateTypes
  <2> QED
    BY <1>1, <1>2, <2>1 DEF StateTypes
<1>8. PemsOK'
  <2>1. \A n \in Names : SentTo(n, onDevice'[n])
    BY <1>1, <1>2 DEF PemsOK
  <2>2. \A u \in Threads : loc'[u].pc \notin {"save", "stage"} /\ loc'[u].name = NoName
    BY <1>3, <1>4
  <2> QED
    BY <1>1, <1>2, <2>1, <2>2, QuietPems
<1>9. ASSUME NEW r \in Runs PROVE RunOK(r)'
  <2>1. r \in Threads /\ r # Nobody
    BY Kinds
  <2>2. loc'[r].pc = "idle"
    BY <1>3, <1>4, <2>1
  <2>3. Running(r)'
    BY <2>2 DEF Running, UploadLabels, Closing
  <2>4. Holding(r)'
    BY <1>2, <2>1 DEF Holding
  <2>5. Recorded(r)'
    <3>1. Recorded(r) /\ touched[r] \subseteq Targets
      BY <1>1 DEF RunOK, StateTypes
    <3>2. /\ \A t \in touched[r] : Recovered(saved[r]).dev[t] \in Begun
          /\ Recovered(saved[r]).status = "complete" => AllGood(Recovered(saved[r]))
      BY <1>6, <3>1, RecoveredBatch DEF Recorded
    <3>3. batch'[r] = Recovered(saved[r]) /\ saved'[r] = Recovered(saved[r])
      BY <1>2, <1>6
    <3> QED
      BY <1>2, <3>2, <3>3 DEF Recorded, AllGood, Goal
  <2> QED
    BY <2>3, <2>4, <2>5 DEF RunOK
<1> QED
  BY <1>5, <1>7, <1>8, <1>9 DEF Invariant

(***************************************************************************)
(* The invariant holds                                                     *)
(***************************************************************************)

\* At the start nothing is under way.
LEMMA InvariantInit == Init => Invariant
<1> SUFFICES ASSUME Init PROVE Invariant
  OBVIOUS
<1>1. \A t \in Threads : loc[t] = Idle
  BY DEF Init
<1>2. LocalsOK /\ HolderOK
  <2>1. \A t \in Threads : ThreadFits(t, Idle) /\ ~Busy(Idle)
    BY IdleFields DEF ThreadFits, RunLabels, UploadLabels, Uploading, Closing, Busy
  <2>2. loc \in [Threads -> Local]
    BY IdleLocal DEF Init
  <2> QED
    BY <1>1, <2>1, <2>2, Kinds DEF LocalsOK, HolderOK, Init
<1>3. NoBatch \in Batch /\ NoBatch.status = "absent" /\ \A t \in Targets : NoBatch.dev[t] = "none"
  <2>1. "none" \in Statuses
    BY DEF Statuses
  <2> HIDE DEF Statuses
  <2> QED
    BY <2>1 DEF NoBatch, Batch
<1>4. StateTypes
  BY <1>3, RecordTypes DEF StateTypes, Init
<1>5. PemsOK
  BY <1>1, IdleFields DEF PemsOK, SentTo, Editing, Fresh, BeforeTransfer, Init
<1>6. ASSUME NEW r \in Runs PROVE RunOK(r)
  <2>1. loc[r].pc = "idle" /\ batch[r] = NoBatch /\ saved[r] = NoBatch /\ touched[r] = {}
    BY <1>1, Kinds, IdleFields DEF Init
  <2>2. Running(r)
    BY <2>1 DEF Running, UploadLabels, Closing
  <2>3. Recorded(r)
    BY <1>3, <2>1 DEF Recorded
  <2>4. Holding(r)
    BY Kinds DEF Holding, Init
  <2> QED
    BY <2>2, <2>3, <2>4 DEF RunOK
<1> QED
  BY <1>2, <1>4, <1>5, <1>6 DEF Invariant

\* A step that changes nothing.
LEMMA StutterStep == ASSUME Invariant, UNCHANGED vars PROVE Invariant'
<1>1. /\ UNCHANGED <<lock, batch, saved, staged, loc, onDevice, serves, audited, completed, touched,
                     astray>>
  BY DEF vars
<1>2. StateTypes' /\ LocalsOK' /\ HolderOK'
  BY <1>1 DEF Invariant, StateTypes, LocalsOK, HolderOK
<1>3. PemsOK'
  <2>1. \A n \in Names : SentTo(n, onDevice'[n])
    BY <1>1 DEF Invariant, PemsOK
  <2> QED
    BY <1>1, <2>1, QuietPems DEF Invariant
<1>4. ASSUME NEW r \in Runs PROVE RunOK(r)'
  BY <1>1, Bystander DEF Invariant
<1> QED
  BY <1>2, <1>3, <1>4 DEF Invariant

\* Every step keeps the invariant.
LEMMA InvariantStep == Invariant /\ [Next]_vars => Invariant'
<1> SUFFICES ASSUME Invariant, [Next]_vars PROVE Invariant'
  OBVIOUS
<1>1. CASE Request
  <2>1. ASSUME NEW r \in Runs, NEW mode \in {"test", "upload"}, NEW ts \in SUBSET Listed,
               StartBatch(r, mode, ts) \/ StartFails(r, mode, ts)
        PROVE  Invariant'
    <3>1. ts \in SUBSET Targets
      BY DEF Listed
    <3> QED
      BY <2>1, <3>1, StartStep
  <2>2. ASSUME NEW r \in Runs, StopBatch(r) PROVE Invariant'
    BY <2>2, StopStep
  <2>3. ASSUME NEW t \in Callers, NEW u \in Targets, ActivateOne(t, u) \/ RemoveCertificate(t, u)
        PROVE  Invariant'
    BY <2>3, RequestStep
  <2>4. ASSUME NEW t \in Cleaners, NEW n \in Names, CleanupOne(t, n) PROVE Invariant'
    BY <2>4, CleanupStep
  <2>5. CASE StartLosesLock
    BY <2>5, AsideStep
  <2> QED
    BY <1>1, <2>1, <2>2, <2>3, <2>4, <2>5 DEF Request
<1>2. ASSUME NEW t \in Threads, Step(t) PROVE Invariant'
  <2>1. CASE t \in Runs /\ RunStep(t)
    BY <2>1, BeginTestStep, ProbeStep, EndTestsStep, BeginUploadStep, UploadedStep, EndUploadsStep,
       WrapUpStep, RecordingStep, FinishFailsStep, CloseStep
       DEF RunStep
  <2>2. CASE t \in Callers /\ CallerStep(t)
    BY <2>2, CallerStepKeeps
  <2>3. CASE UploadStep(t)
    BY <2>3, RefuseStep, RecordStagedStep, StageStep, AnswerStep, VerifyStep DEF UploadStep
  <2>4. CASE RecordStep(t)
    BY <2>4, DeleteStep, SaveStep, RefuseStep DEF RecordStep
  <2> QED
    BY <1>2, <2>1, <2>2, <2>3, <2>4 DEF Step
<1>3. CASE Crash
  BY <1>3, CrashStep
<1>4. CASE UNCHANGED vars
  BY <1>4, StutterStep
<1>5. CASE \E u \in Targets : ToolbeltUploads(u)
  BY <1>5, AsideStep
<1> QED
  BY <1>1, <1>2, <1>3, <1>4, <1>5 DEF Next

\* The inductive invariant holds in every reachable state.
THEOREM InvariantHolds == Spec => []Invariant
BY InvariantInit, InvariantStep, PTL DEF Spec

(***************************************************************************)
(* What follows                                                            *)
(***************************************************************************)

\* Every document, batch and request keeps its shape: in particular a clean-up
\* never gets where the operation lock is given back.
THEOREM DeliveryTypeCorrect == Spec => []TypeOK
<1>1. Invariant => TypeOK
  <2> SUFFICES ASSUME Invariant PROVE TypeOK
    OBVIOUS
  <2>1. StateTypes /\ LocalsOK
    BY DEF Invariant
  <2>2. \A t \in Runs : loc[t].pc \in RunLabels \cup UploadLabels
    BY <2>1, Kinds DEF LocalsOK, ThreadFits
  <2>3. \A t \in Callers : loc[t].pc \in UploadLabels \cup {"idle", "remove", "release", "ended"}
    BY <2>1, Kinds DEF LocalsOK, ThreadFits
  <2>4. \A t \in Cleaners : loc[t].pc \in {"idle", "delete", "save", "ended"}
    BY <2>1, Kinds DEF LocalsOK, ThreadFits
  <2>5. \A t \in Threads : /\ loc[t].doc \in [Names -> Record] /\ loc[t].rec \in Record
                           /\ loc[t].name \in Names \cup {NoName}
                           /\ loc[t].target \in Targets \cup {NoTarget}
    BY <2>1 DEF LocalsOK, Local
  <2> QED
    BY <2>1, <2>2, <2>3, <2>4, <2>5 DEF TypeOK, StateTypes
<1> QED
  BY <1>1, InvariantHolds, PTL

\* A target a batch has begun to transfer to is never reported as untouched,
\* whatever crashes and whatever fails to be saved.
THEOREM UploadsAreRemembered == Spec => []UploadNotForgotten
<1>1. Invariant => UploadNotForgotten
  BY DEF Invariant, RunOK, Recorded, Begun, UploadNotForgotten
<1> QED
  BY <1>1, InvariantHolds, PTL

\* A batch reported complete has every target verified, or tested ready.
THEOREM CompleteIsComplete == Spec => []CompleteMeansAll
<1>1. Invariant => CompleteMeansAll
  BY DEF Invariant, RunOK, Recorded, AllGood, Goal, CompleteMeansAll
<1> QED
  BY <1>1, InvariantHolds, PTL

\* A PEM on a device is listed for review until it is deleted, unless its record was
\* dropped by a stale write-back or a clean-up whose grace period was over began while
\* the PEM was still to be transferred.
THEOREM StagedPemsAreListed == Spec => []StagedIsListed
<1>1. Invariant => StagedIsListed
  BY DEF Invariant, PemsOK, SentTo, Known, Unresolved, StagedIsListed
<1> QED
  BY <1>1, InvariantHolds, PTL

\* While a batch uploads to an interface no earlier staged PEM is left there, but for
\* one that the list has lost by one of these two ways.
THEOREM OnePemAtATime == Spec => []NoSecondPem
<1>1. Invariant => NoSecondPem
  <2> SUFFICES ASSUME Invariant, NEW r \in Runs, NEW n \in Names,
                      loc[r].pc \in {"ingest", "verify", "delete"}, onDevice[n] = loc[r].target
               PROVE  n = loc[r].name \/ n \in astray
    BY DEF NoSecondPem
  <2>1. Busy(loc[r]) /\ loc[r].pc \in Uploading
    BY DEF Busy, Uploading
  <2>2. lock = r /\ Holding(r)
    BY <2>1, OwnRun
  <2> QED
    BY <2>1, <2>2 DEF Holding
<1> QED
  BY <1>1, InvariantHolds, PTL

(***************************************************************************)
(* Steps                                                                   *)
(***************************************************************************)

\* A transfer is the only step that adds to what a batch has begun.
LEMMA OnlyStageTransfers ==
  ASSUME Next, touched' # touched PROVE \E t \in Threads : Stage(t)
<1>1. CASE Request
  BY <1>1 DEF Request, StartBatch, StartFails, StartLosesLock, StopBatch, ActivateOne,
              RemoveCertificate, CleanupOne, device
<1>2. CASE Crash
  BY <1>2 DEF Crash, device
<1>3. ASSUME NEW t \in Threads, Step(t) PROVE Stage(t)
  <2>1. ~RunStep(t)
    BY DEF RunStep, BeginTest, Probe, EndTests, BeginUpload, Uploaded, EndUploads, WrapUp,
           AuditResults, HideSuccessful, RecordRun, FinishFails, Close, device
  <2>2. ~CallerStep(t)
    BY DEF CallerStep, RecordOne, SendRemoval, Release, device
  <2>3. ~RecordStep(t)
    BY DEF RecordStep, DeleteStaged, SaveRecords, SaveRecordsFails, device
  <2>4. UploadStep(t) => Stage(t)
    BY DEF UploadStep, Refuse, RecordStaged, Ingest, Answered, Verify, device
  <2> QED
    BY <1>3, <2>1, <2>2, <2>3, <2>4 DEF Step
<1>4. CASE \E u \in Targets : ToolbeltUploads(u)
  BY <1>4 DEF ToolbeltUploads
<1> QED
  BY <1>1, <1>2, <1>3, <1>4 DEF Next

\* Rows are hidden by the record of an individual upload and at the end of a batch.
LEMMA OnlyTheseHide ==
  ASSUME Next, completed' # completed
  PROVE  (\E t \in Callers : RecordOne(t)) \/ (\E r \in Runs : HideSuccessful(r))
<1>1. CASE Request
  BY <1>1 DEF Request, StartBatch, StartFails, StartLosesLock, StopBatch, ActivateOne,
              RemoveCertificate, CleanupOne, store
<1>2. CASE Crash
  BY <1>2 DEF Crash, store
<1>3. ASSUME NEW t \in Threads, Step(t)
      PROVE  (t \in Callers /\ RecordOne(t)) \/ (t \in Runs /\ HideSuccessful(t))
  <2>1. RunStep(t) => HideSuccessful(t)
    BY DEF RunStep, BeginTest, Probe, EndTests, BeginUpload, Uploaded, EndUploads, WrapUp,
           AuditResults, RecordRun, FinishFails, Close, store
  <2>2. CallerStep(t) => RecordOne(t)
    BY DEF CallerStep, SendRemoval, Release, store
  <2>3. ~RecordStep(t)
    BY DEF RecordStep, DeleteStaged, SaveRecords, SaveRecordsFails, store
  <2>4. ~UploadStep(t)
    BY DEF UploadStep, Refuse, RecordStaged, Stage, Ingest, Answered, Verify, store
  <2> QED
    BY <1>3, <2>1, <2>2, <2>3, <2>4 DEF Step
<1>4. CASE \E u \in Targets : ToolbeltUploads(u)
  BY <1>4 DEF ToolbeltUploads, store
<1> QED
  BY <1>1, <1>2, <1>3, <1>4 DEF Next

\* A device stops to serve its prepared certificate by a removal, and by an upload of
\* the Toolbelt to it.
LEMMA OnlyTheseTakeOff ==
  ASSUME Next, NEW t \in serves \ serves'
  PROVE  (\E c \in Callers : SendRemoval(c)) \/ ToolbeltUploads(t)
<1>1. CASE Request
  BY <1>1 DEF Request, StartBatch, StartFails, StartLosesLock, StopBatch, ActivateOne,
              RemoveCertificate, CleanupOne, device
<1>2. CASE Crash
  BY <1>2 DEF Crash, device
<1>3. ASSUME NEW c \in Threads, Step(c) PROVE c \in Callers /\ SendRemoval(c)
  <2>1. ~RunStep(c)
    BY DEF RunStep, BeginTest, Probe, EndTests, BeginUpload, Uploaded, EndUploads, WrapUp,
           AuditResults, HideSuccessful, RecordRun, FinishFails, Close, device
  <2>2. CallerStep(c) => SendRemoval(c)
    BY DEF CallerStep, RecordOne, Release, device
  <2>3. ~RecordStep(c)
    BY DEF RecordStep, DeleteStaged, SaveRecords, SaveRecordsFails, device
  <2>4. ~UploadStep(c)
    BY DEF UploadStep, Refuse, RecordStaged, Stage, Ingest, Answered, Verify, device
  <2> QED
    BY <1>3, <2>1, <2>2, <2>3, <2>4 DEF Step
<1>4. ASSUME NEW u \in Targets, ToolbeltUploads(u) PROVE ToolbeltUploads(t)
  <2>1. t = u
    BY <1>4 DEF ToolbeltUploads
  <2> QED
    BY <1>4, <2>1
<1> QED
  BY <1>1, <1>2, <1>3, <1>4 DEF Next

\* As long as a batch runs, nothing but an upload of the Toolbelt takes a certificate off
\* a device it has verified: the lock keeps every direct upload and removal away.
THEOREM VerifiedIsServed == Spec => VerifiedStaysServed
<1> DEFINE Exempt(t) == \/ \A r \in Runs : lock = r => t \notin With(r, "verified")
                        \/ ToolbeltUploads(t)
<1>1. Invariant /\ [Next]_vars => [\A t \in serves \ serves' : Exempt(t)]_vars
  <2> SUFFICES ASSUME Invariant, Next, NEW t \in serves \ serves' PROVE Exempt(t)
    BY DEF vars
  <2>1. CASE ToolbeltUploads(t)
    BY <2>1
  <2>2. CASE \E c \in Callers : SendRemoval(c)
    <3>1. PICK c \in Callers : loc[c].pc = "remove"
      BY <2>2 DEF SendRemoval, At
    <3>2. lock = c
      BY <3>1 DEF Invariant, HolderOK, Busy
    <3>3. c \notin Runs
      BY Kinds
    <3> QED
      BY <3>2, <3>3
  <2> QED
    BY <2>1, <2>2, OnlyTheseTakeOff
<1> QED
  BY <1>1, InvariantHolds, PTL DEF Spec, VerifiedStaysServed

\* "Preflight every endpoint before any private PEM is transferred": a batch that
\* begins to transfer has proven each of its targets ready.
THEOREM PreflightIsFirst == Spec => PreflightFirst
<1> DEFINE Proved(r) == \A t \in TargetsOf(r) : batch[r].dev[t] \in {"ready", "uploading", "verified"}
<1>1. Invariant /\ [Next]_vars => [\A r \in Runs : touched'[r] # touched[r] => Proved(r)]_vars
  <2> SUFFICES ASSUME Invariant, Next, NEW r \in Runs, touched'[r] # touched[r] PROVE Proved(r)
    BY DEF vars
  <2>1. PICK t \in Threads : Stage(t)
    BY OnlyStageTransfers
  <2>2. t = r
    <3>1. touched \in [Runs -> SUBSET Targets]
      BY DEF Invariant, StateTypes
    <3> QED
      BY <2>1, <3>1 DEF Stage
  <2>3. loc[r].pc \in UploadLabels /\ Busy(loc[r])
    BY <2>1, <2>2 DEF Stage, At, UploadLabels, Busy
  <2>4. /\ batch[r].dev[loc[r].target] = "uploading"
        /\ \A u \in Targets \ {loc[r].target} : batch[r].dev[u] \in Proven
    BY <2>3, OwnRun DEF Running
  <2> QED
    BY <2>4 DEF TargetsOf, Proven
<1> QED
  BY <1>1, InvariantHolds, PTL DEF Spec, PreflightFirst

\* Before a row is hidden its success is in Audit, and so is the result of every
\* other target of the same batch.
THEOREM HidingFollowsAudit == Spec => HiddenAfterAudit
<1> DEFINE Audited(t) ==
             \/ lock \in Callers
             \/ /\ <<lock, t, TRUE>> \in audited
                /\ \A u \in TargetsOf(lock) : \E ok \in BOOLEAN : <<lock, u, ok>> \in audited
<1>1. Invariant /\ [Next]_vars => [\A t \in completed' \ completed : Audited(t)]_vars
  <2> SUFFICES ASSUME Invariant, Next, NEW t \in completed' \ completed PROVE Audited(t)
    BY DEF vars
  <2>1. CASE \E c \in Callers : RecordOne(c)
    <3>1. PICK c \in Callers : loc[c].pc = "returned"
      BY <2>1 DEF RecordOne, At
    <3>2. lock = c
      BY <3>1 DEF Invariant, HolderOK, Busy
    <3> QED
      BY <3>2
  <2>2. CASE \E r \in Runs : HideSuccessful(r)
    <3>1. PICK r \in Runs : loc[r].pc = "hide" /\ completed' = completed \cup Successful(r)
      BY <2>2 DEF HideSuccessful, At
    <3>2. lock = r /\ Outcomes(r) \subseteq audited
      BY <3>1, OwnRun DEF Busy, Running
    <3>3. t \in Targets /\ batch[r].dev[t] = "verified"
      BY <3>1 DEF Successful, With
    <3>4. \A u \in TargetsOf(r) : <<r, u, batch[r].dev[u] = "verified">> \in audited
      BY <3>2 DEF Outcomes
    <3>5. t \in TargetsOf(r)
      BY <3>3 DEF TargetsOf
    <3>6. <<r, t, TRUE>> \in audited
      BY <3>3, <3>4, <3>5
    <3>7. \A u \in TargetsOf(r) : \E ok \in BOOLEAN : <<r, u, ok>> \in audited
      BY <3>4
    <3> QED
      BY <3>2, <3>6, <3>7
  <2> QED
    BY <2>1, <2>2, OnlyTheseHide
<1> QED
  BY <1>1, InvariantHolds, PTL DEF Spec, HiddenAfterAudit

(***************************************************************************)
(* The lock is given back                                                  *)
(***************************************************************************)

\* How many more steps a write of the staged PEMs' document and what follows it take
\* at most, by where the upload goes on.
AfterSave(then) ==
  CASE then = "returned" -> 3
    [] then = "verify" -> 6
    [] then \in {"acknowledged", "rejected"} -> 8
    [] then = "ingest" -> 10
    [] then = "stage" -> 12
    [] OTHER -> 0

\* The steps an upload, a removal or the end of a batch has still to go, at most.
ToGo(l) ==
  CASE l.pc \in {"close", "release"} -> 1
    [] l.pc \in {"record", "remove", "returned"} -> 2
    [] l.pc = "hide" -> 3
    [] l.pc \in {"finish", "delete"} -> 4
    [] l.pc \in {"wrap_up", "verify"} -> 5
    [] l.pc = "upload" -> 6
    [] l.pc \in {"test", "probe", "acknowledged", "rejected"} -> 7
    [] l.pc = "ingest" -> 9
    [] l.pc = "stage" -> 11
    [] l.pc = "begin" -> 13
    [] l.pc = "save" -> AfterSave(l.then)
    [] OTHER -> 0

\* A target goes from pending through testing, ready and uploading to its result.
Waits == {"pending"}
Tests == Waits \cup {"testing"}
Offers == Tests \cup {"ready"}
Uploads == Offers \cup {"uploading"}

\* How many targets of a batch have got no further, and what is left to do for all.
Left(dev, S) == Cardinality({u \in Targets : dev[u] \in S})
ToDo(dev) == Left(dev, Waits) + Left(dev, Tests) + Left(dev, Offers) + Left(dev, Uploads)

\* What the holder of the lock has still to do.
Work(t) == ToGo(loc[t]) + (IF t \in Runs THEN 14 * ToDo(batch[t].dev) ELSE 0)

\* A batch works on a finite list of targets.
Bounded(t) == t \in Runs => IsFiniteSet(Targets)

\* The number of steps to go is a small natural number.
LEMMA ToGoNat == ASSUME NEW l PROVE ToGo(l) \in 0..13
BY DEF ToGo, AfterSave

\* The steps to go at each label.
LEMMA Distances ==
  ASSUME NEW l
  PROVE  /\ l.pc = "close" \/ l.pc = "release" => ToGo(l) = 1
         /\ l.pc = "record" \/ l.pc = "remove" \/ l.pc = "returned" => ToGo(l) = 2
         /\ l.pc = "hide" => ToGo(l) = 3
         /\ l.pc = "finish" \/ l.pc = "delete" => ToGo(l) = 4
         /\ l.pc = "wrap_up" \/ l.pc = "verify" => ToGo(l) = 5
         /\ l.pc = "upload" => ToGo(l) = 6
         /\ l.pc = "test" \/ l.pc = "probe" \/ l.pc = "acknowledged" \/ l.pc = "rejected" => ToGo(l) = 7
         /\ l.pc = "ingest" => ToGo(l) = 9
         /\ l.pc = "stage" => ToGo(l) = 11
         /\ l.pc = "begin" => ToGo(l) = 13
         /\ l.pc = "save" => /\ l.then = "returned" => ToGo(l) = 3
                             /\ l.then = "verify" => ToGo(l) = 6
                             /\ l.then = "acknowledged" \/ l.then = "rejected" => ToGo(l) = 8
                             /\ l.then = "ingest" => ToGo(l) = 10
                             /\ l.then = "stage" => ToGo(l) = 12
<1>1. l.pc # "save" =>
         /\ l.pc = "close" \/ l.pc = "release" => ToGo(l) = 1
         /\ l.pc = "record" \/ l.pc = "remove" \/ l.pc = "returned" => ToGo(l) = 2
         /\ l.pc = "hide" => ToGo(l) = 3
         /\ l.pc = "finish" \/ l.pc = "delete" => ToGo(l) = 4
         /\ l.pc = "wrap_up" \/ l.pc = "verify" => ToGo(l) = 5
         /\ l.pc = "upload" => ToGo(l) = 6
         /\ l.pc = "test" \/ l.pc = "probe" \/ l.pc = "acknowledged" \/ l.pc = "rejected" => ToGo(l) = 7
         /\ l.pc = "ingest" => ToGo(l) = 9
         /\ l.pc = "stage" => ToGo(l) = 11
         /\ l.pc = "begin" => ToGo(l) = 13
  BY DEF ToGo
<1>2. l.pc = "save" => ToGo(l) = AfterSave(l.then)
  BY DEF ToGo
<1>3. /\ AfterSave("returned") = 3 /\ AfterSave("verify") = 6 /\ AfterSave("acknowledged") = 8
      /\ AfterSave("rejected") = 8 /\ AfterSave("ingest") = 10 /\ AfterSave("stage") = 12
  BY DEF AfterSave
<1> QED
  BY <1>1, <1>2, <1>3

\* The targets that have got no further are finitely many, and fewer when some get further.
LEMMA FewerLeft ==
  ASSUME IsFiniteSet(Targets), NEW d, NEW e, NEW S,
         \A u \in Targets : e[u] \in S => d[u] \in S
  PROVE  /\ Left(d, S) \in Nat /\ Left(e, S) \in Nat /\ Left(e, S) <= Left(d, S)
         /\ (\E u \in Targets : d[u] \in S /\ e[u] \notin S) => Left(e, S) < Left(d, S)
<1> DEFINE D == {u \in Targets : d[u] \in S}
           E == {u \in Targets : e[u] \in S}
<1>1. D \in SUBSET Targets /\ E \in SUBSET D
  OBVIOUS
<1>2. IsFiniteSet(D) /\ IsFiniteSet(E)
  BY <1>1, FS_Subset
<1>3. /\ Cardinality(D) \in Nat /\ Cardinality(E) \in Nat /\ Cardinality(E) <= Cardinality(D)
      /\ Cardinality(D) = Cardinality(E) => D = E
  BY <1>1, <1>2, FS_Subset, FS_CardinalityType
<1>4. (\E u \in Targets : d[u] \in S /\ e[u] \notin S) => D # E
  OBVIOUS
<1> QED
  BY <1>3, <1>4 DEF Left

\* When no target goes back there is no more to do, and less when one goes forward.
LEMMA LessToDo ==
  ASSUME IsFiniteSet(Targets), NEW d, NEW e,
         \A u \in Targets : /\ e[u] \in Waits => d[u] \in Waits
                            /\ e[u] \in Tests => d[u] \in Tests
                            /\ e[u] \in Offers => d[u] \in Offers
                            /\ e[u] \in Uploads => d[u] \in Uploads
  PROVE  /\ ToDo(d) \in Nat /\ ToDo(e) \in Nat /\ ToDo(e) <= ToDo(d)
         /\ (\E u \in Targets : \/ d[u] \in Waits /\ e[u] \notin Waits
                                \/ d[u] \in Tests /\ e[u] \notin Tests
                                \/ d[u] \in Offers /\ e[u] \notin Offers
                                \/ d[u] \in Uploads /\ e[u] \notin Uploads)
              => ToDo(e) + 1 <= ToDo(d)
<1> DEFINE Shrinks(S) == /\ Left(d, S) \in Nat /\ Left(e, S) \in Nat /\ Left(e, S) <= Left(d, S)
                         /\ (\E u \in Targets : d[u] \in S /\ e[u] \notin S) => Left(e, S) < Left(d, S)
<1>1. Shrinks(Waits)
  BY FewerLeft
<1>2. Shrinks(Tests)
  BY FewerLeft
<1>3. Shrinks(Offers)
  BY FewerLeft
<1>4. Shrinks(Uploads)
  BY FewerLeft
<1> HIDE DEF Left
<1> QED
  BY <1>1, <1>2, <1>3, <1>4 DEF ToDo

\* An upload that raises has two steps to go: its result, or giving the lock back.
LEMMA RaisedGoes ==
  ASSUME Invariant, NEW t \in Runs \cup Callers, loc[t].pc \in UploadLabels
  PROVE  ToGo(Raised(t)) \in {1, 2}
<1>1. LocalsOK /\ t \in Threads /\ t \notin Cleaners
  BY Kinds DEF Invariant
<1>2. Raised(t).pc \in {"returned", "release", "ended"} /\ Busy(Raised(t))
  BY <1>1, RaisedLocals
<1>3. Raised(t).pc = "returned" \/ Raised(t).pc = "release"
  BY <1>2 DEF Busy
<1> QED
  BY <1>3, Distances

\* An edit whose write is closer to the result than the step that makes it.
Continues(t) ==
  \E rec, then, result :
    Edit(t, rec, then, result) /\ AfterSave(then) > 2 /\ AfterSave(then) < ToGo(loc[t])

\* Once the record is written, the upload goes on where the edit says.
LEMMA EditGoes ==
  ASSUME Invariant, NEW t \in Runs \cup Callers, loc[t].pc \in UploadLabels,
         Continues(t)
  PROVE  ToGo(loc'[t]) < ToGo(loc[t])
<1>0. PICK rec, then, result :
        Edit(t, rec, then, result) /\ AfterSave(then) > 2 /\ AfterSave(then) < ToGo(loc[t])
  BY DEF Continues
<1>1. loc \in [Threads -> Local] /\ t \in Threads
  BY Kinds DEF Invariant, LocalsOK
<1>2. AfterSave(then) \in Nat /\ ToGo(loc[t]) \in Nat
  BY ToGoNat DEF AfterSave
<1>3. CASE staged[loc[t].name] = NoRecord
  <2>1. loc'[t] = Raised(t)
    BY <1>0, <1>1, <1>3 DEF Edit
  <2> QED
    BY <1>0, <1>2, <2>1, RaisedGoes
<1>4. CASE staged[loc[t].name] # NoRecord
  <2>1. loc'[t] = [loc[t] EXCEPT !.pc = "save", !.doc = staged, !.rec = rec, !.then = then,
                                 !.result = result]
    BY <1>0, <1>1, <1>4 DEF Edit
  <2>2. loc[t] \in Local
    BY <1>1
  <2>3. loc'[t].pc = "save" /\ loc'[t].then = then
    BY ONLY <2>1, <2>2 DEF Local
  <2>4. ToGo(loc'[t]) = AfterSave(then)
    BY <2>3 DEF ToGo
  <2> QED
    BY <1>0, <1>2, <2>4
<1> QED
  BY <1>3, <1>4

\* Every step of an upload brings it closer to its result, whatever the device answers and
\* whatever fails.
LEMMA UploadGoes ==
  ASSUME Invariant, NEW t \in Runs \cup Callers, UploadStep(t) \/ RecordStep(t)
  PROVE  ToGo(loc'[t]) < ToGo(loc[t]) /\ batch' = batch
<1>1. /\ loc \in [Threads -> Local] /\ t \in Threads /\ t \notin Cleaners /\ ThreadFits(t, loc[t])
      /\ loc[t] \in Local
  BY Kinds DEF Invariant, LocalsOK
<1>2. /\ AfterSave("returned") = 3 /\ AfterSave("verify") = 6 /\ AfterSave("acknowledged") = 8
      /\ AfterSave("rejected") = 8 /\ AfterSave("ingest") = 10 /\ AfterSave("stage") = 12
  BY DEF AfterSave
<1>3. batch' = batch
  BY DEF UploadStep, RecordStep, Refuse, RecordStaged, Stage, Ingest, Answered, Verify,
         DeleteStaged, SaveRecords, SaveRecordsFails
<1>4. CASE Refuse(t)
  <2>1. loc[t].pc = "begin" /\ loc'[t] \in {Done(t, "unresolved"), Raised(t)}
    BY <1>1, <1>4 DEF Refuse, At
  <2>2. ToGo(loc[t]) = 13 /\ ToGo(Raised(t)) \in {1, 2}
    BY <2>1, Distances, RaisedGoes DEF UploadLabels
  <2>3. Done(t, "unresolved").pc = "returned"
    BY IdleLocal DEF Done, Local
  <2>4. ToGo(Done(t, "unresolved")) = 2
    BY <2>3, Distances
  <2> QED
    BY <1>3, <2>1, <2>2, <2>4
<1>5. CASE RecordStaged(t)
  <2>1. PICK n \in Names : loc' = [loc EXCEPT ![t] = [@ EXCEPT !.pc = "save", !.name = n, !.doc = staged,
                                         !.rec = NewRecord(loc[t].target), !.then = "stage"]]
    BY <1>5 DEF RecordStaged
  <2>2. loc'[t] = [loc[t] EXCEPT !.pc = "save", !.name = n, !.doc = staged,
                                 !.rec = NewRecord(loc[t].target), !.then = "stage"]
    BY <1>1, <2>1
  <2>3. loc'[t].pc = "save" /\ loc'[t].then = "stage"
    BY ONLY <1>1, <2>2 DEF Local
  <2>4. loc[t].pc = "begin"
    BY <1>5 DEF RecordStaged, At
  <2> QED
    BY <1>3, <2>3, <2>4, Distances
<1>6. CASE Stage(t)
  <2>1. loc[t].pc = "stage" /\ loc[t].pc \in UploadLabels
    BY <1>6 DEF Stage, At, UploadLabels
  <2>2. ToGo(loc[t]) = 11
    BY <2>1, Distances
  <2>3. PICK then \in {"ingest", "returned"} : \E rec, result : Edit(t, rec, then, result)
    BY <1>6 DEF Stage
  <2>4. Continues(t)
    <3>1. AfterSave(then) > 2 /\ AfterSave(then) < ToGo(loc[t])
      BY <1>2, <2>2, <2>3
    <3> QED
      BY <2>3, <3>1 DEF Continues
  <2> QED
    BY <1>3, <2>1, <2>4, EditGoes
<1>7. CASE Ingest(t)
  <2>1. loc[t].pc = "ingest" /\ loc[t].pc \in UploadLabels
    BY <1>7 DEF Ingest, At, UploadLabels
  <2>2. ToGo(loc[t]) = 9
    BY <2>1, Distances
  <2>3. PICK then \in {"acknowledged", "rejected", "returned"} :
          \E rec, result : Edit(t, rec, then, result)
    BY <1>7 DEF Ingest
  <2>4. Continues(t)
    <3>1. AfterSave(then) > 2 /\ AfterSave(then) < ToGo(loc[t])
      BY <1>2, <2>2, <2>3
    <3> QED
      BY <2>3, <3>1 DEF Continues
  <2> QED
    BY <1>3, <2>1, <2>4, EditGoes
<1>8. CASE Answered(t)
  <2>1. (loc[t].pc = "acknowledged" \/ loc[t].pc = "rejected") /\ loc[t].pc \in UploadLabels
    BY <1>8 DEF Answered, At, UploadLabels
  <2>2. ToGo(loc[t]) = 7
    BY <2>1, Distances
  <2>3. PICK then \in {"verify", "returned"} : \E rec, result : Edit(t, rec, then, result)
    BY <1>8 DEF Answered
  <2>4. Continues(t)
    <3>1. AfterSave(then) > 2 /\ AfterSave(then) < ToGo(loc[t])
      BY <1>2, <2>2, <2>3
    <3> QED
      BY <2>3, <3>1 DEF Continues
  <2> QED
    BY <1>3, <2>1, <2>4, EditGoes
<1>9. CASE Verify(t)
  <2>1. loc[t].pc = "verify" /\ loc[t].pc \in UploadLabels
    BY <1>9 DEF Verify, At, UploadLabels
  <2>2. ToGo(loc[t]) = 5
    BY <2>1, Distances
  <2>3. CASE Goto(t, "delete")
    <3>1. loc'[t] = [loc[t] EXCEPT !.pc = "delete"]
      BY <1>1, <2>3 DEF Goto
    <3>2. loc'[t].pc = "delete"
      BY ONLY <1>1, <3>1 DEF Local
    <3> QED
      BY <1>3, <2>2, <3>2, Distances
  <2>4. CASE ~Goto(t, "delete")
    <3>1. PICK then \in {"returned"} : \E rec, result : Edit(t, rec, then, result)
      BY <1>9, <2>4 DEF Verify
    <3>2. AfterSave(then) > 2 /\ AfterSave(then) < ToGo(loc[t])
      BY <1>2, <2>2, <3>1
    <3>3. Continues(t)
      BY <3>1, <3>2 DEF Continues
    <3> QED
      BY <1>3, <2>1, <3>3, EditGoes
  <2> QED
    BY <1>9, <2>3, <2>4 DEF Verify
<1>10. CASE DeleteStaged(t)
  <2>1. loc[t].pc = "delete" /\ loc[t].pc \in UploadLabels
    BY <1>10 DEF DeleteStaged, At, UploadLabels
  <2>2. ToGo(loc[t]) = 4
    BY <2>1, Distances
  <2>3. (\E then \in {"returned"} : \E rec, result : Edit(t, rec, then, result)) \/ loc'[t] = Raised(t)
    BY <1>1, <1>10 DEF DeleteStaged
  <2>4. ToGo(Raised(t)) \in {1, 2}
    BY <2>1, RaisedGoes
  <2>5. ASSUME NEW then \in {"returned"}, \E rec, result : Edit(t, rec, then, result)
        PROVE  Continues(t)
    <3>1. AfterSave(then) > 2 /\ AfterSave(then) < ToGo(loc[t])
      BY <1>2, <2>2
    <3> QED
      BY <2>5, <3>1 DEF Continues
  <2> QED
    BY <1>3, <2>1, <2>2, <2>3, <2>4, <2>5, EditGoes
<1>11. CASE SaveRecords(t)
  <2>1. loc[t].pc = "save"
    BY <1>11 DEF SaveRecords, At
  <2>2. loc[t].then \in UploadSteps
    BY <1>1, <2>1 DEF ThreadFits
  <2>3. loc'[t] = [loc[t] EXCEPT !.pc = loc[t].then, !.doc = NoRecords, !.rec = NoRecord, !.then = "idle"]
    BY <1>1, <1>11, <2>2 DEF SaveRecords, UploadSteps
  <2>4. loc'[t].pc = loc[t].then
    BY ONLY <1>1, <2>3 DEF Local
  <2> QED
    BY <1>3, <2>1, <2>2, <2>4, Distances DEF UploadSteps
<1>12. CASE SaveRecordsFails(t)
  <2>1. loc[t].pc = "save" /\ loc'[t] = Raised(t) /\ loc[t].pc \in UploadLabels
    BY <1>1, <1>12 DEF SaveRecordsFails, At, UploadLabels
  <2>2. loc[t].then \in UploadSteps
    BY <1>1, <2>1 DEF ThreadFits
  <2>3. ToGo(loc[t]) > 2 /\ ToGo(Raised(t)) \in {1, 2} /\ ToGo(loc[t]) \in Nat
    BY <2>1, <2>2, Distances, RaisedGoes, ToGoNat DEF UploadSteps
  <2> QED
    BY <1>3, <2>1, <2>3
<1> QED
  BY <1>4, <1>5, <1>6, <1>7, <1>8, <1>9, <1>10, <1>11, <1>12 DEF UploadStep, RecordStep

\* An individual request comes closer to its end with every step.
LEMMA CallerGoes ==
  ASSUME Invariant, NEW t \in Callers, CallerStep(t)
  PROVE  ToGo(loc'[t]) < ToGo(loc[t])
<1>1. loc \in [Threads -> Local] /\ t \in Threads /\ "release" \in Labels /\ "ended" \in Labels
  BY Kinds DEF Invariant, LocalsOK, Labels
<1>2. CASE RecordOne(t) \/ SendRemoval(t)
  <2>1. /\ loc[t].pc = "returned" \/ loc[t].pc = "remove"
        /\ loc'[t] = [Idle EXCEPT !.pc = "release"]
    BY <1>1, <1>2 DEF RecordOne, SendRemoval, At
  <2>2. loc'[t].pc = "release"
    BY <1>1, <2>1, IdleAt
  <2>3. ToGo(loc[t]) = 2
    BY <2>1, Distances
  <2>4. ToGo(loc'[t]) = 1
    BY <2>2, Distances
  <2> QED
    BY <2>3, <2>4
<1>3. CASE Release(t)
  <2>1. loc[t].pc = "release" /\ loc'[t] = [Idle EXCEPT !.pc = "ended"]
    BY <1>1, <1>3 DEF Release, At, Ended
  <2>2. loc'[t].pc = "ended"
    BY <1>1, <2>1, IdleAt
  <2>3. ToGo(loc'[t]) = 0 /\ ToGo(loc[t]) = 1
    BY <2>1, <2>2, Distances DEF ToGo
  <2> QED
    BY <2>3
<1> QED
  BY <1>2, <1>3 DEF CallerStep

\* No target of a batch goes back, and one that gets further.
NoneBack(d, e) ==
  \A u \in Targets : /\ e[u] \in Waits => d[u] \in Waits
                     /\ e[u] \in Tests => d[u] \in Tests
                     /\ e[u] \in Offers => d[u] \in Offers
                     /\ e[u] \in Uploads => d[u] \in Uploads
OneFurther(d, e) ==
  \E u \in Targets : \/ d[u] \in Waits /\ e[u] \notin Waits
                     \/ d[u] \in Tests /\ e[u] \notin Tests
                     \/ d[u] \in Offers /\ e[u] \notin Offers
                     \/ d[u] \in Uploads /\ e[u] \notin Uploads

\* A batch has less to do when a target gets further, whatever it goes on with, and when
\* none goes back and it is nearer to its end.
LEMMA LessWork ==
  ASSUME IsFiniteSet(Targets), NEW r \in Runs, NoneBack(batch[r].dev, batch'[r].dev)
  PROVE  /\ Work(r) \in Nat /\ Work(r)' \in Nat
         /\ OneFurther(batch[r].dev, batch'[r].dev) => Work(r)' < Work(r)
         /\ ToGo(loc'[r]) < ToGo(loc[r]) => Work(r)' < Work(r)
         /\ loc'[r] = loc[r] => Work(r)' <= Work(r)
<1> DEFINE d == batch[r].dev
           e == batch'[r].dev
<1>1. /\ ToDo(d) \in Nat /\ ToDo(e) \in Nat /\ ToDo(e) <= ToDo(d)
      /\ OneFurther(d, e) => ToDo(e) + 1 <= ToDo(d)
  BY LessToDo DEF NoneBack, OneFurther
<1>2. ToGo(loc[r]) \in 0..13 /\ ToGo(loc'[r]) \in 0..13
  BY ToGoNat
<1>3. Work(r) = ToGo(loc[r]) + 14 * ToDo(d) /\ Work(r)' = ToGo(loc'[r]) + 14 * ToDo(e)
  BY DEF Work
<1> HIDE DEF d, e
<1> QED
  BY <1>1, <1>2, <1>3 DEF d, e

\* The next status of a target of a batch.
Onward(x, y) ==
  \/ x = "pending" /\ y = "testing"
  \/ x = "testing" /\ y \in {"ready", "not_ready"}
  \/ x = "ready" /\ y = "uploading"
  \/ x = "uploading" /\ y \in UploadResults

\* A batch that moves one target on has less to do.
LEMMA TargetMovesOn ==
  ASSUME Invariant, IsFiniteSet(Targets), NEW r \in Runs, NEW u \in Targets, NEW x,
         SetDev(r, u, x), Onward(batch[r].dev[u], x)
  PROVE  Work(r)' < Work(r)
<1> DEFINE b == WithDev(batch[r], u, x)
<1>1. batch \in [Runs -> Batch] /\ x \in Statuses
  BY DEF Invariant, StateTypes, Onward, UploadResults, Statuses
<1>2. batch' = [batch EXCEPT ![r] = b]
  BY DEF SetDev, WithDev
<1>3. batch'[r] = b
  BY <1>1, <1>2
<1>4. b.dev[u] = x /\ \A t \in Targets : t # u => b.dev[t] = batch[r].dev[t]
  BY <1>1, DevSet
<1> HIDE DEF b
<1>5. NoneBack(batch[r].dev, batch'[r].dev)
  BY <1>3, <1>4 DEF Onward, NoneBack, UploadResults, Waits, Tests, Offers, Uploads
<1>6. OneFurther(batch[r].dev, batch'[r].dev)
  BY <1>3, <1>4 DEF Onward, OneFurther, UploadResults, Waits, Tests, Offers, Uploads
<1> QED
  BY <1>5, <1>6, LessWork

\* A batch that leaves its targets alone, or skips some of them, and is nearer to its end.
LEMMA NearerEnd ==
  ASSUME IsFiniteSet(Targets), NEW r \in Runs,
         \A u \in Targets : batch'[r].dev[u] \in {batch[r].dev[u], "skipped"},
         ToGo(loc'[r]) < ToGo(loc[r])
  PROVE  Work(r)' < Work(r)
<1>1. NoneBack(batch[r].dev, batch'[r].dev)
  BY DEF NoneBack, Waits, Tests, Offers, Uploads
<1> QED
  BY <1>1, LessWork

\* Each step of a batch tests a target, transfers to one, or brings the batch nearer to its
\* end: no target is tested or transferred to twice.
LEMMA BatchGoes ==
  ASSUME Invariant, IsFiniteSet(Targets), NEW r \in Runs, RunStep(r), lock' = r
  PROVE  Work(r)' < Work(r)
<1>1. Busy(loc[r]) /\ loc[r].pc # "begin"
  BY DEF RunStep, BeginTest, Probe, EndTests, BeginUpload, Uploaded, EndUploads, WrapUp,
         AuditResults, HideSuccessful, RecordRun, FinishFails, Close, At, Busy
<1>2. /\ LocalsOK /\ StateTypes /\ Running(r) /\ r \in Threads /\ r # Nobody /\ r \notin Cleaners
      /\ ThreadFits(r, loc[r]) /\ loc \in [Threads -> Local]
  BY <1>1, OwnRun DEF LocalsOK
<1>3. CASE BeginTest(r)
  <2>1. PICK u \in Targets : batch[r].dev[u] = "pending" /\ SetDev(r, u, "testing")
    BY <1>3 DEF BeginTest, With
  <2>2. PICK x : x = "testing"
    OBVIOUS
  <2> QED
    BY <2>1, <2>2, TargetMovesOn DEF Onward
<1>4. CASE Probe(r)
  <2>1. loc[r].target \in Targets /\ batch[r].dev[loc[r].target] = "testing"
    BY <1>2, <1>4 DEF Probe, At, Running, ThreadFits
  <2>2. PICK x \in {"ready", "not_ready"} : SetDev(r, loc[r].target, x)
    BY <1>4 DEF Probe
  <2> QED
    BY <2>1, <2>2, TargetMovesOn DEF Onward
<1>5. CASE BeginUpload(r)
  <2>1. PICK u \in Targets : batch[r].dev[u] = "ready" /\ SetDev(r, u, "uploading")
    BY <1>5 DEF BeginUpload, With
  <2>2. PICK x : x = "uploading"
    OBVIOUS
  <2> QED
    BY <2>1, <2>2, TargetMovesOn DEF Onward
<1>6. CASE Uploaded(r)
  <2>1. /\ loc[r].target \in Targets /\ batch[r].dev[loc[r].target] = "uploading"
        /\ loc[r].result \in UploadResults /\ SetDev(r, loc[r].target, loc[r].result)
    BY <1>2, <1>6 DEF Uploaded, At, Running, ThreadFits, UploadLabels
  <2> QED
    BY <2>1, TargetMovesOn DEF Onward
<1>7. ASSUME NEW p \in Labels, Goto(r, p)
      PROVE  loc'[r].pc = p
  BY <1>2, <1>7, GotoLocals
<1>8. CASE EndTests(r) \/ EndUploads(r)
  <2>1. /\ batch' = batch
        /\ \/ /\ loc[r].pc = "test"
              /\ \E p \in {"upload", "wrap_up"} : Goto(r, p)
           \/ loc[r].pc = "upload" /\ \E p \in {"wrap_up"} : Goto(r, p)
    BY <1>8 DEF EndTests, EndUploads, At
  <2>2. {"upload", "wrap_up"} \subseteq Labels
    BY DEF Labels, RunLabels
  <2>3. \/ loc[r].pc = "test" /\ loc'[r].pc \in {"upload", "wrap_up"}
        \/ loc[r].pc = "upload" /\ loc'[r].pc = "wrap_up"
    BY <1>7, <2>1, <2>2
  <2>4. ToGo(loc'[r]) < ToGo(loc[r])
    <3>1. loc[r].pc = "test" => ToGo(loc[r]) = 7
      BY Distances
    <3>2. loc[r].pc = "upload" => ToGo(loc[r]) = 6
      BY Distances
    <3>3. /\ loc'[r].pc = "upload" => ToGo(loc'[r]) = 6
          /\ loc'[r].pc = "wrap_up" => ToGo(loc'[r]) = 5
      BY Distances
    <3> QED
      BY <2>3, <3>1, <3>2, <3>3
  <2> QED
    BY <2>1, <2>4, NearerEnd
<1>9. CASE WrapUp(r)
  <2>1. PICK x \in RunResults : loc' = [loc EXCEPT ![r] = [Idle EXCEPT !.pc = "finish", !.result = x]]
    BY <1>9 DEF WrapUp, RunResults
  <2>2. loc'[r] = [Idle EXCEPT !.pc = "finish", !.result = x]
    BY <1>2, <2>1
  <2>3. loc'[r].pc = "finish"
    BY ONLY <2>2, IdleLocal DEF Local
  <2>4. loc[r].pc = "wrap_up" /\ batch'[r].dev = Skipped(batch[r])
    BY <1>2, <1>9 DEF WrapUp, At, StateTypes, Batch
  <2>5. \A u \in Targets : batch'[r].dev[u] \in {batch[r].dev[u], "skipped"}
    BY <2>4 DEF Skipped
  <2>6. ToGo(loc'[r]) = 4 /\ ToGo(loc[r]) = 5
    BY <2>3, <2>4, Distances
  <2> QED
    BY <2>5, <2>6, NearerEnd
<1>10. CASE AuditResults(r) \/ HideSuccessful(r) \/ RecordRun(r)
  <2>1. /\ batch' = batch
        /\ \/ loc[r].pc = "finish" /\ \E p \in {"record", "hide"} : Goto(r, p)
           \/ loc[r].pc = "hide" /\ \E p \in {"record"} : Goto(r, p)
           \/ loc[r].pc = "record" /\ \E p \in {"close"} : Goto(r, p)
    BY <1>10 DEF AuditResults, HideSuccessful, RecordRun, AfterAudit, At
  <2>2. {"hide", "record", "close"} \subseteq Labels
    BY DEF Labels, RunLabels
  <2>3. \/ loc[r].pc = "finish" /\ loc'[r].pc \in {"hide", "record"}
        \/ loc[r].pc = "hide" /\ loc'[r].pc = "record"
        \/ loc[r].pc = "record" /\ loc'[r].pc = "close"
    BY <1>7, <2>1, <2>2
  <2>4. ToGo(loc'[r]) < ToGo(loc[r])
    <3>1. /\ loc[r].pc = "finish" => ToGo(loc[r]) = 4
          /\ loc[r].pc = "hide" => ToGo(loc[r]) = 3
          /\ loc[r].pc = "record" => ToGo(loc[r]) = 2
      BY Distances
    <3>2. /\ loc'[r].pc = "hide" => ToGo(loc'[r]) = 3
          /\ loc'[r].pc = "record" => ToGo(loc'[r]) = 2
          /\ loc'[r].pc = "close" => ToGo(loc'[r]) = 1
      BY Distances
    <3> QED
      BY <2>3, <3>1, <3>2
  <2> QED
    BY <2>1, <2>4, NearerEnd
<1>11. CASE FinishFails(r)
  <2>1. /\ batch' = batch /\ loc[r].pc \in {"finish", "hide", "record"}
        /\ loc' = [loc EXCEPT ![r] = [Idle EXCEPT !.pc = "close", !.result = "failed"]]
    BY <1>11 DEF FinishFails, At
  <2>2. loc'[r] = [Idle EXCEPT !.pc = "close", !.result = "failed"]
    BY <1>2, <2>1
  <2>3. loc'[r].pc = "close"
    BY ONLY <2>2, IdleLocal DEF Local
  <2>4. ToGo(loc'[r]) = 1
    BY <2>3, Distances
  <2>5. ToGo(loc[r]) \in {2, 3, 4}
    BY <2>1, Distances
  <2> QED
    BY <2>1, <2>4, <2>5, NearerEnd
<1>12. ~Close(r)
  BY <1>2 DEF Close
<1> QED
  BY <1>3, <1>4, <1>5, <1>6, <1>8, <1>9, <1>10, <1>11, <1>12 DEF RunStep

\* A step of another thread is one of a clean-up, which leaves the holder of the lock alone.
LEMMA OnlyCleaners ==
  ASSUME Invariant, NEW t \in Runs \cup Callers, lock = t, NEW u \in Threads, u # t, Step(u)
  PROVE  loc'[t] = loc[t] /\ batch' = batch
<1>1. loc \in [Threads -> Local] /\ t \in Threads
  BY Kinds DEF Invariant, LocalsOK
<1>2. u \in Runs \cup Callers => ~Busy(loc[u])
  BY DEF Invariant, HolderOK
<1>3. ~(u \in Runs /\ RunStep(u))
  BY <1>2 DEF RunStep, BeginTest, Probe, EndTests, BeginUpload, Uploaded, EndUploads, WrapUp,
     AuditResults, HideSuccessful, RecordRun, FinishFails, Close, At, Busy
<1>4. ~(u \in Callers /\ CallerStep(u))
  BY <1>2 DEF CallerStep, RecordOne, SendRemoval, Release, At, Busy
<1>5. UploadStep(u) => loc'[t] = loc[t] /\ batch' = batch
  BY <1>1 DEF UploadStep, Refuse, RecordStaged, Stage, Ingest, Answered, Verify, Edit, Goto
<1>6. RecordStep(u) => loc'[t] = loc[t] /\ batch' = batch
  BY <1>1 DEF RecordStep, DeleteStaged, SaveRecords, SaveRecordsFails, Edit
<1> QED
  BY <1>3, <1>4, <1>5, <1>6 DEF Step

\* While the lock is held nothing but the holder's own steps touches its locals or the
\* targets of its batch: a stop is only noted.
LEMMA HolderAlone ==
  ASSUME Invariant, NEW t \in Runs \cup Callers, lock = t, lock' = t, [Next]_vars, ~Step(t)
  PROVE  /\ loc'[t] = loc[t]
         /\ t \in Runs => \A u \in Targets : batch'[t].dev[u] = batch[t].dev[u]
<1>1. /\ loc \in [Threads -> Local] /\ batch \in [Runs -> Batch] /\ t \in Threads /\ t # Nobody
      /\ t \notin Cleaners
  BY Kinds DEF Invariant, LocalsOK, StateTypes
<1>2. CASE Request
  <2>1. ASSUME NEW r \in Runs, StopBatch(r)
        PROVE  /\ loc'[t] = loc[t]
               /\ t \in Runs => \A u \in Targets : batch'[t].dev[u] = batch[t].dev[u]
    <3>1. loc' = loc /\ batch' = [batch EXCEPT ![r] = [batch[r] EXCEPT !.stop = TRUE]]
      BY <2>1 DEF StopBatch
    <3>2. t \in Runs => batch'[t].dev = batch[t].dev
      BY <1>1, <3>1 DEF Batch
    <3> QED
      BY <3>1, <3>2
  <2>2. ASSUME NEW c \in Cleaners, NEW n \in Names, CleanupOne(c, n)
        PROVE  loc'[t] = loc[t] /\ batch' = batch
    BY <1>1, <2>2 DEF CleanupOne
  <2>3. ~\E r \in Runs, mode \in {"test", "upload"}, ts \in SUBSET Listed :
           StartBatch(r, mode, ts) \/ StartFails(r, mode, ts)
    BY <1>1 DEF StartBatch, StartFails
  <2>4. ~\E c \in Callers, u \in Targets : ActivateOne(c, u) \/ RemoveCertificate(c, u)
    BY <1>1 DEF ActivateOne, RemoveCertificate
  <2>5. ~StartLosesLock
    BY <1>1 DEF StartLosesLock
  <2> QED
    BY <1>2, <2>1, <2>2, <2>3, <2>4, <2>5 DEF Request
<1>3. ASSUME NEW u \in Threads, Step(u) PROVE loc'[t] = loc[t] /\ batch' = batch
  <2>1. u # t
    BY <1>3
  <2> QED
    BY <1>3, <2>1, OnlyCleaners
<1>4. ~Crash
  BY <1>1 DEF Crash
<1>5. CASE UNCHANGED vars
  BY <1>5 DEF vars
<1>6. CASE \E u \in Targets : ToolbeltUploads(u)
  BY <1>6 DEF ToolbeltUploads
<1> QED
  BY <1>2, <1>3, <1>4, <1>5, <1>6 DEF Next

\* What is left to do is a natural number.
LEMMA WorkNat ==
  ASSUME NEW t \in Runs \cup Callers, Bounded(t)
  PROVE  Work(t) \in Nat /\ Work(t)' \in Nat
<1>1. ToGo(loc[t]) \in 0..13 /\ ToGo(loc'[t]) \in 0..13
  BY ToGoNat
<1>2. CASE t \in Runs
  <2>1. \A d : ToDo(d) \in Nat
    BY <1>2, LessToDo DEF Bounded
  <2> QED
    BY <1>1, <1>2, <2>1 DEF Work
<1>3. CASE t \notin Runs
  BY <1>1, <1>3 DEF Work
<1> QED
  BY <1>2, <1>3

\* It is not null while the lock is held.
LEMMA WorkLeft ==
  ASSUME Invariant, NEW t \in Runs \cup Callers, Bounded(t), lock = t
  PROVE  Work(t) > 0
<1>1. /\ Busy(loc[t]) /\ ThreadFits(t, loc[t]) /\ t \notin Cleaners
  BY Kinds DEF Invariant, HolderOK, LocalsOK
<1>2. loc[t].pc \in (RunLabels \cup UploadLabels \cup {"remove", "release"}) \ {"idle"}
  BY <1>1 DEF ThreadFits, Busy
<1>3. loc[t].pc = "save" => loc[t].then \in UploadSteps
  BY <1>1 DEF ThreadFits
<1>4. ToGo(loc[t]) \in 0..13 /\ ToGo(loc[t]) # 0
  <2>1. ToGo(loc[t]) \in 0..13
    BY ToGoNat
  <2>2. loc[t].pc = "save" => ToGo(loc[t]) # 0
    BY <1>3, Distances DEF UploadSteps
  <2>3. loc[t].pc \in UploadLabels \ {"save"} => ToGo(loc[t]) # 0
    BY Distances DEF UploadLabels
  <2>4. loc[t].pc \in (RunLabels \cup {"remove", "release"}) \ {"idle"} => ToGo(loc[t]) # 0
    BY Distances DEF RunLabels
  <2> QED
    BY <1>2, <2>1, <2>2, <2>3, <2>4
<1>5. ASSUME t \in Runs, NEW d PROVE ToDo(d) \in Nat
  BY <1>5, LessToDo DEF Bounded
<1> QED
  BY <1>4, <1>5 DEF Work

\* What the holder of the lock has still to do is counted down by each of its steps and by
\* nothing put up.
LEMMA HolderGoes ==
  ASSUME Invariant, NEW t \in Runs \cup Callers, Bounded(t), lock = t, lock' = t, [Next]_vars
  PROVE  /\ Work(t) \in Nat /\ Work(t)' \in Nat /\ Work(t)' <= Work(t)
         /\ Step(t) => Work(t)' < Work(t)
<1>1. ToGo(loc[t]) \in 0..13 /\ ToGo(loc'[t]) \in 0..13
  BY ToGoNat
<1>2. CASE t \in Callers
  <2>1. t \notin Runs
    BY <1>2, Kinds
  <2>2. Work(t) = ToGo(loc[t]) /\ Work(t)' = ToGo(loc'[t])
    BY <2>1, <1>1 DEF Work
  <2>3. Step(t) => ToGo(loc'[t]) < ToGo(loc[t])
    BY <1>2, <2>1, UploadGoes, CallerGoes DEF Step
  <2>4. ~Step(t) => loc'[t] = loc[t]
    BY HolderAlone
  <2> QED
    BY <1>1, <2>2, <2>3, <2>4
<1>3. CASE t \in Runs
  <2>1. t \notin Callers /\ IsFiniteSet(Targets)
    BY <1>3, Kinds DEF Bounded
  <2>2. ASSUME Step(t) PROVE Work(t)' < Work(t)
    <3>1. CASE UploadStep(t) \/ RecordStep(t)
      <4>1. ToGo(loc'[t]) < ToGo(loc[t]) /\ batch' = batch
        BY <3>1, UploadGoes
      <4>2. NoneBack(batch[t].dev, batch'[t].dev)
        BY <4>1 DEF NoneBack
      <4> QED
        BY <1>3, <2>1, <4>1, <4>2, LessWork
    <3>2. CASE RunStep(t)
      BY <1>3, <2>1, <3>2, BatchGoes
    <3> QED
      BY <2>1, <2>2, <3>1, <3>2 DEF Step
  <2>3. ASSUME ~Step(t) PROVE Work(t)' <= Work(t)
    <3>1. loc'[t] = loc[t] /\ \A u \in Targets : batch'[t].dev[u] = batch[t].dev[u]
      BY <1>3, <2>3, HolderAlone
    <3>2. NoneBack(batch[t].dev, batch'[t].dev)
      BY <3>1 DEF NoneBack
    <3> QED
      BY <1>3, <2>1, <3>1, <3>2, LessWork
  <2> QED
    BY <2>2, <2>3, WorkNat
<1> QED
  BY <1>2, <1>3

\* A batch says that it is running if and only if it holds the lock.
RunningHolds == \A r \in Runs : batch[r].status = "running" <=> lock = r

\* One upload or removal at a time, with the lock to show for it.
OneUnderWay ==
  /\ \A t, u \in Runs \cup Callers : Busy(loc[t]) /\ Busy(loc[u]) => t = u
  /\ \A t \in Runs \cup Callers : Busy(loc[t]) <=> lock = t
  /\ RunningHolds

\* The lock changes hands, and a batch its status, at the beginning and at the end only.
LEMMA RunningHoldsNext ==
  ASSUME Invariant, RunningHolds, [Next]_vars PROVE RunningHolds'
<1>1. /\ loc \in [Threads -> Local] /\ batch \in [Runs -> Batch]
      /\ Nobody \notin Threads /\ Lost \notin Threads /\ Runs \subseteq Threads
      /\ Runs \cap Callers = {} /\ \A t \in Threads : ThreadFits(t, loc[t])
      /\ \A t \in Runs \cup Callers : Busy(loc[t]) <=> lock = t
  BY Kinds DEF Invariant, LocalsOK, StateTypes, HolderOK
<1>2. ASSUME lock' = lock, \A r \in Runs : batch'[r].status = batch[r].status
      PROVE  RunningHolds'
  BY <1>2 DEF RunningHolds
<1>3. ASSUME NEW r \in Runs, NEW b \in Batch, batch' = [batch EXCEPT ![r] = b],
             b.status = "running" <=> lock' = r,
             lock \in {r, Nobody}, lock' \in {r, Nobody}
      PROVE  RunningHolds'
  <2>1. ASSUME NEW q \in Runs PROVE batch'[q].status = "running" <=> lock' = q
    <3>1. CASE q = r
      BY <1>1, <1>3, <3>1
    <3>2. CASE q # r
      <4>1. batch'[q] = batch[q] /\ q # Nobody
        BY <1>1, <1>3, <3>2
      <4> QED
        BY <1>3, <3>2, <4>1 DEF RunningHolds
    <3> QED
      BY <3>1, <3>2
  <2> QED
    BY <2>1 DEF RunningHolds
<1>4. CASE Request
  <2>1. ASSUME NEW r \in Runs, NEW mode \in {"test", "upload"}, NEW ts \in SUBSET Listed,
               StartBatch(r, mode, ts) \/ StartFails(r, mode, ts)
        PROVE  RunningHolds'
    <3> DEFINE b == batch'[r]
    <3>1. NewBatch(mode, ts) \in Batch /\ NewBatch(mode, ts).status = "running"
      BY DEF NewBatch, Batch, Statuses
    <3>2. [NewBatch(mode, ts) EXCEPT !.status = "failed"] \in Batch
      BY <3>1 DEF Batch
    <3>3. [NewBatch(mode, ts) EXCEPT !.status = "failed"].status = "failed"
      BY <3>1 DEF Batch
    <3>4. CASE StartBatch(r, mode, ts)
      BY <1>3, <3>1, <3>4 DEF StartBatch
    <3>5. CASE StartFails(r, mode, ts)
      BY <1>1, <1>3, <3>2, <3>3, <3>5 DEF StartFails
    <3> QED
      BY <2>1, <3>4, <3>5
  <2>2. ASSUME NEW r \in Runs, StopBatch(r) PROVE RunningHolds'
    <3>1. lock' = lock /\ batch' = [batch EXCEPT ![r] = [batch[r] EXCEPT !.stop = TRUE]]
      BY <2>2 DEF StopBatch
    <3>2. \A q \in Runs : batch'[q].status = batch[q].status
      BY <1>1, <3>1 DEF Batch
    <3> QED
      BY <1>2, <3>1, <3>2
  <2>3. ASSUME NEW t \in Callers, NEW u \in Targets, ActivateOne(t, u) \/ RemoveCertificate(t, u)
        PROVE  RunningHolds'
    BY <1>1, <2>3 DEF ActivateOne, RemoveCertificate, RunningHolds
  <2>4. ASSUME NEW t \in Cleaners, NEW n \in Names, CleanupOne(t, n) PROVE RunningHolds'
    BY <1>2, <2>4 DEF CleanupOne
  <2>5. CASE StartLosesLock
    <3>1. lock = Nobody /\ lock' = Lost /\ batch' = batch
      BY <2>5 DEF StartLosesLock
    <3> QED
      BY <1>1, <3>1 DEF RunningHolds
  <2> QED
    BY <1>4, <2>1, <2>2, <2>3, <2>4, <2>5 DEF Request
<1>5. ASSUME NEW t \in Threads, Step(t) PROVE RunningHolds'
  <2>1. CASE UploadStep(t) \/ RecordStep(t)
    BY <1>2, <2>1 DEF UploadStep, RecordStep, Refuse, RecordStaged, Stage, Ingest, Answered, Verify,
       DeleteStaged, SaveRecords, SaveRecordsFails
  <2>2. CASE t \in Callers /\ CallerStep(t)
    <3>1. CASE RecordOne(t) \/ SendRemoval(t)
      BY <1>2, <3>1 DEF RecordOne, SendRemoval
    <3>2. CASE Release(t)
      <4>1. lock = t /\ lock' = Nobody /\ batch' = batch
        BY <1>1, <2>2, <3>2 DEF Release, At, Busy
      <4> QED
        BY <1>1, <2>2, <4>1 DEF RunningHolds
    <3> QED
      BY <2>2, <3>1, <3>2 DEF CallerStep
  <2>3. CASE t \in Runs /\ RunStep(t)
    <3>1. CASE Close(t)
      <4>1. Busy(loc[t]) /\ loc[t].pc \in Closing
        BY <3>1 DEF Close, At, Busy, Closing
      <4>2. lock = t /\ lock' = Nobody /\ loc[t].result \in RunResults
        BY <1>1, <2>3, <3>1, <4>1 DEF Close, ThreadFits
      <4>3. PICK x \in RunResults : batch' = [batch EXCEPT ![t] = [batch[t] EXCEPT !.status = x]]
        BY <3>1, <4>2 DEF Close, RunResults
      <4>4. x # "running" /\ batch[t] \in Batch
            /\ x \in {"absent", "running", "complete", "needs_attention", "stopped", "failed", "interrupted"}
        BY <1>1, <2>3, <4>3 DEF RunResults
      <4>5. /\ [batch[t] EXCEPT !.status = x] \in Batch
            /\ [batch[t] EXCEPT !.status = x].status = x
        BY ONLY <4>4 DEF Batch
      <4>6. t # Nobody
        BY <1>1, <2>3
      <4> QED
        BY <1>3, <2>3, <4>2, <4>3, <4>4, <4>5, <4>6
    <3>2. CASE BeginTest(t) \/ Probe(t) \/ BeginUpload(t) \/ Uploaded(t)
      <4>1. lock' = lock /\ \E u, x : SetDev(t, u, x)
        BY <3>2 DEF BeginTest, Probe, BeginUpload, Uploaded
      <4>2. PICK u, x : batch' = [batch EXCEPT ![t] = WithDev(batch[t], u, x)]
        BY <4>1 DEF SetDev, WithDev
      <4>3. WithDev(batch[t], u, x).status = batch[t].status
        BY <1>1, <2>3 DEF WithDev, Batch
      <4>4. \A q \in Runs : batch'[q].status = batch[q].status
        BY <1>1, <4>2, <4>3
      <4> QED
        BY <1>2, <4>1, <4>4
    <3>3. CASE WrapUp(t)
      <4>1. /\ lock' = lock
            /\ batch' = [batch EXCEPT ![t] = [batch[t] EXCEPT !.dev = Skipped(batch[t])]]
        BY <3>3 DEF WrapUp
      <4>2. \A q \in Runs : batch'[q].status = batch[q].status
        BY <1>1, <4>1 DEF Batch
      <4> QED
        BY <1>2, <4>1, <4>2
    <3>4. CASE EndTests(t) \/ EndUploads(t) \/ AuditResults(t) \/ HideSuccessful(t) \/ RecordRun(t)
               \/ FinishFails(t)
      BY <1>2, <3>4 DEF EndTests, EndUploads, AuditResults, HideSuccessful, RecordRun, FinishFails
    <3> QED
      BY <2>3, <3>1, <3>2, <3>3, <3>4 DEF RunStep
  <2> QED
    BY <1>5, <2>1, <2>2, <2>3 DEF Step
<1>6. CASE Crash
  <2>1. lock' = Nobody /\ \A r \in Runs : batch'[r] = Recovered(saved[r])
    BY <1>6 DEF Crash
  <2>2. ASSUME NEW r \in Runs PROVE Recovered(saved[r]).status # "running"
    <3>1. saved[r] \in Batch
      BY DEF Invariant, StateTypes
    <3>2. CASE saved[r].status # "running"
      BY <3>2 DEF Recovered
    <3>3. CASE saved[r].status = "running"
      <4>1. PICK dev : Recovered(saved[r]) = [saved[r] EXCEPT !.status = "interrupted", !.dev = dev]
        BY <3>3 DEF Recovered
      <4>2. Recovered(saved[r]).status = "interrupted"
        BY ONLY <3>1, <4>1 DEF Batch
      <4> QED
        BY <4>2
    <3> QED
      BY <3>2, <3>3
  <2> QED
    BY <1>1, <2>1, <2>2 DEF RunningHolds
<1>7. CASE UNCHANGED vars
  BY <1>2, <1>7 DEF vars
<1>8. CASE \E u \in Targets : ToolbeltUploads(u)
  BY <1>2, <1>8 DEF ToolbeltUploads
<1> QED
  BY <1>4, <1>5, <1>6, <1>7, <1>8 DEF Next

\* At any time at most one batch, individual upload or removal is under way, it holds
\* _certificate_operation_lock, no other thread holds it, and no batch is left saying that it is
\* running: the lock is taken without waiting, and a restart ends what a crash has cut off.  A
\* start that fails with the lock taken leaves it to nobody, and nothing is under way from then on.
THEOREM OneOperationAtATime == Spec => []OneUnderWay
<1>1. Init => RunningHolds
  <2>1. NoBatch.status = "absent" /\ \A r \in Runs : r # Nobody
    BY Kinds DEF NoBatch
  <2> QED
    BY <2>1 DEF Init, RunningHolds
<1>2. Invariant /\ RunningHolds => OneUnderWay
  BY DEF Invariant, HolderOK, OneUnderWay
<1>3. Invariant /\ RunningHolds /\ [Next]_vars => RunningHolds'
  BY RunningHoldsNext
<1> QED
  BY <1>1, <1>2, <1>3, InvariantHolds, PTL DEF Spec

\* A lock that a failing start has kept stays taken, and with it every upload and removal shut out,
\* until the server is started again: nothing else gives it back.
THEOREM LostUntilRestart == Spec => [][lock = Lost => lock' = Lost \/ Crash]_vars
<1>1. Invariant /\ [Next]_vars => [lock = Lost => lock' = Lost \/ Crash]_vars
  <2>1. SUFFICES ASSUME Invariant, Next, lock = Lost, ~Crash PROVE lock' = lock
    BY DEF vars
  <2>2. Lost # Nobody /\ \A t \in Runs \cup Callers : ~Busy(loc[t])
    BY <2>1, Kinds DEF Invariant, HolderOK, Lost, Nobody
  <2>3. CASE Request
    BY <2>1, <2>2, <2>3 DEF Request, StartBatch, StartFails, StartLosesLock, StopBatch, ActivateOne,
                            RemoveCertificate, CleanupOne
  <2>4. ASSUME NEW t \in Threads, Step(t) PROVE lock' = lock
    <3>1. ~(t \in Runs /\ RunStep(t))
      BY <2>2 DEF RunStep, BeginTest, Probe, EndTests, BeginUpload, Uploaded, EndUploads, WrapUp,
         AuditResults, HideSuccessful, RecordRun, FinishFails, Close, At, Busy
    <3>2. ~(t \in Callers /\ CallerStep(t))
      BY <2>2 DEF CallerStep, RecordOne, SendRemoval, Release, At, Busy
    <3>3. UploadStep(t) \/ RecordStep(t) => lock' = lock
      BY DEF UploadStep, RecordStep, Refuse, RecordStaged, Stage, Ingest, Answered, Verify,
         DeleteStaged, SaveRecords, SaveRecordsFails
    <3> QED
      BY <2>4, <3>1, <3>2, <3>3 DEF Step
  <2>5. CASE \E u \in Targets : ToolbeltUploads(u)
    BY <2>5 DEF ToolbeltUploads
  <2> QED
    BY <2>1, <2>3, <2>4, <2>5 DEF Next
<1> QED
  BY <1>1, InvariantHolds, PTL DEF Spec

\* As long as the lock stays in one hand, nothing adds to what its holder has still to do and
\* each of the holder's own steps takes from it: a batch tests and transfers to each of its
\* targets once at most, whatever is stopped or fails, and an upload, a removal and the end of a
\* batch take a bounded number of steps.
THEOREM HolderAdvances ==
  ASSUME IsFiniteSet(Targets)
  PROVE  Spec => [][\A t \in Runs \cup Callers : lock = t /\ lock' = t =>
                      /\ Work(t)' <= Work(t)
                      /\ Step(t) => Work(t)' < Work(t)]_vars
<1>1. \A t \in Runs \cup Callers : Bounded(t)
  BY DEF Bounded
<1>2. Invariant /\ [Next]_vars =>
        [\A t \in Runs \cup Callers : lock = t /\ lock' = t =>
           /\ Work(t)' <= Work(t)
           /\ Step(t) => Work(t)' < Work(t)]_vars
  BY <1>1, HolderGoes
<1> QED
  BY <1>2, InvariantHolds, PTL DEF Spec

\* What weak fairness of Step(t) comes to, as the holder of the lock can always take a step.
GoesOn(t) == []<>(lock # t) \/ []<><<Step(t)>>_vars

\* The lock is held by t, with at most n to do; and the way from n to m.
Within(t, n) == lock = t /\ Work(t) <= n
LeadsDown(t, n, m) == Within(t, n) => <>(lock # t \/ Within(t, m))

\* With each step of the holder there is one less to do.
LEMMA OneLess ==
  ASSUME []Invariant, [][Next]_vars, NEW t \in Runs \cup Callers, Bounded(t),
         NEW n \in Nat, NEW m \in Nat, n = m + 1, []GoesOn(t)
  PROVE  LeadsDown(t, n, m)
<1>1. Invariant /\ Within(t, n) /\ [Next]_vars => (lock # t \/ Within(t, n))'
  <2>1. SUFFICES ASSUME Invariant, Within(t, n), [Next]_vars, lock' = t PROVE Within(t, n)'
    OBVIOUS
  <2>2. Work(t) \in Nat /\ Work(t)' \in Nat /\ Work(t)' <= Work(t)
    BY <2>1, HolderGoes DEF Within
  <2> QED
    BY <2>1, <2>2 DEF Within
<1>2. Invariant /\ Within(t, n) /\ [Next]_vars /\ <<Step(t)>>_vars => (lock # t \/ Within(t, m))'
  <2>1. SUFFICES ASSUME Invariant, Within(t, n), [Next]_vars, Step(t), lock' = t
                 PROVE  Within(t, m)'
    OBVIOUS
  <2>2. Work(t) \in Nat /\ Work(t)' \in Nat /\ Work(t)' < Work(t)
    BY <2>1, HolderGoes DEF Within
  <2> QED
    BY <2>1, <2>2 DEF Within
<1>3. lock # t => ~Within(t, n)
  BY DEF Within
<1> QED
  BY <1>1, <1>2, <1>3, PTL DEF GoesOn, LeadsDown

\* A batch or a request that holds the lock and goes on comes nearer to giving it back from wherever
\* it is.  As what is left is a natural number, and not null as long as it holds the lock, it gives
\* it back.  The theorem is about holders: a lock that a failing start has kept has none, and is
\* kept until the next start of the server (LostUntilRestart).
THEOREM HolderComesNearer ==
  ASSUME NEW t \in Runs \cup Callers, IsFiniteSet(Targets), NEW n \in Nat
  PROVE  /\ Spec /\ []GoesOn(t) => ((lock = t /\ Work(t) <= n + 1) ~> (lock # t \/ Work(t) <= n))
         /\ Spec => [](lock = t => Work(t) \in Nat \ {0})
<1>0. Bounded(t) /\ n + 1 \in Nat
  BY DEF Bounded
<1>1. ASSUME []Invariant, [][Next]_vars, []GoesOn(t)
      PROVE  (lock = t /\ Work(t) <= n + 1) ~> (lock # t \/ Work(t) <= n)
  <2>1. LeadsDown(t, n + 1, n)
    BY <1>0, <1>1, OneLess
  <2>2. lock = t /\ Work(t) <= n + 1 => Within(t, n + 1)
    BY DEF Within
  <2>3. Within(t, n) => Work(t) <= n
    BY DEF Within
  <2> QED
    BY <1>1, <2>1, <2>2, <2>3, PTL DEF LeadsDown
<1>2. Invariant => (lock = t => Work(t) \in Nat \ {0})
  BY <1>0, WorkNat, WorkLeft
<1>3. Spec => [](lock = t => Work(t) \in Nat \ {0})
  BY <1>2, InvariantHolds, PTL
<1>4. Spec /\ []GoesOn(t) => ((lock = t /\ Work(t) <= n + 1) ~> (lock # t \/ Work(t) <= n))
  BY <1>1, InvariantHolds, PTL DEF Spec
<1> QED
  BY <1>3, <1>4

\* An individual upload or removal that goes on gives the lock back, in the thirteen steps it has
\* at most after it has taken it, whatever the device answers and whatever other requests do.
LEMMA RequestEnds ==
  ASSUME []Invariant, [][Next]_vars, NEW t \in Callers, []GoesOn(t)
  PROVE  lock = t => <>(lock # t)
<1>0. /\ t \in Runs \cup Callers /\ t \notin Runs /\ Bounded(t)
      /\ \A n \in 0..13 : n \in Nat
  BY Kinds DEF Bounded
<1>1. LeadsDown(t, 1, 0)
  BY <1>0, 1 = 0 + 1, OneLess
<1>2. LeadsDown(t, 2, 1)
  BY <1>0, 2 = 1 + 1, OneLess
<1>3. LeadsDown(t, 3, 2)
  BY <1>0, 3 = 2 + 1, OneLess
<1>4. LeadsDown(t, 4, 3)
  BY <1>0, 4 = 3 + 1, OneLess
<1>5. LeadsDown(t, 5, 4)
  BY <1>0, 5 = 4 + 1, OneLess
<1>6. LeadsDown(t, 6, 5)
  BY <1>0, 6 = 5 + 1, OneLess
<1>7. LeadsDown(t, 7, 6)
  BY <1>0, 7 = 6 + 1, OneLess
<1>8. LeadsDown(t, 8, 7)
  BY <1>0, 8 = 7 + 1, OneLess
<1>9. LeadsDown(t, 9, 8)
  BY <1>0, 9 = 8 + 1, OneLess
<1>10. LeadsDown(t, 10, 9)
  BY <1>0, 10 = 9 + 1, OneLess
<1>11. LeadsDown(t, 11, 10)
  BY <1>0, 11 = 10 + 1, OneLess
<1>12. LeadsDown(t, 12, 11)
  BY <1>0, 12 = 11 + 1, OneLess
<1>13. LeadsDown(t, 13, 12)
  BY <1>0, 13 = 12 + 1, OneLess
<1>14. Invariant /\ lock = t => Within(t, 13)
  BY <1>0, ToGoNat DEF Within, Work
<1>15. Invariant => ~Within(t, 0)
  <2>1. Invariant /\ lock = t => Work(t) > 0 /\ Work(t) \in Nat
    BY <1>0, WorkLeft, WorkNat
  <2> QED
    BY <2>1 DEF Within
<1> QED
  BY <1>1, <1>2, <1>3, <1>4, <1>5, <1>6, <1>7, <1>8,
     <1>9, <1>10, <1>11, <1>12, <1>13, <1>14, <1>15, PTL DEF LeadsDown

\* With any number of batches, targets and requests: an individual upload or removal that goes on
\* gives the lock back.
THEOREM RequestGivesLockBack ==
  ASSUME NEW t \in Callers
  PROVE  Spec /\ []GoesOn(t) => (lock = t ~> lock # t)
<1>1. ASSUME []Invariant, [][Next]_vars, []GoesOn(t) PROVE lock = t ~> lock # t
  <2>1. lock = t => <>(lock # t)
    BY <1>1, RequestEnds
  <2> QED
    BY <1>1, <2>1, PTL
<1> QED
  BY <1>1, InvariantHolds, PTL DEF Spec

=============================================================================

------------------------ MODULE CertificateStoreProofs ------------------------
(***************************************************************************)
(* What is proved about CertificateStore for every set of jobs,             *)
(* certificates, devices and threads and every choice of faults.            *)
(***************************************************************************)
EXTENDS CertificateStore, TLAPS

(***************************************************************************)
(* The inductive invariant                                                 *)
(***************************************************************************)

\* What a thread has in its locals at each label, whatever the others do.
ReadOK(label, c) ==
  /\ label \in {"csr_store", "csr_await", "csr_undo", "drop_csr"} => c.job \in Jobs \ LocalJobs
  /\ label \in {"csr_store", "csr_await"} => c.state = "draft"
  /\ label \in {"store", "record"} /\ c.job \in Jobs \ LocalJobs =>
       c.state \in {"draft", "awaiting_external_ca"}
  /\ label \in {"store", "record", "finish"} /\ c.job \in LocalJobs => c.state = "issuing"
  /\ label = "finish" => c.job \in LocalJobs
  /\ label = "mark_deployed" => c.state = "deployment_pending"

ThreadsOK == \A w \in Workers : ThreadOK(pc[w], ctx[w]) /\ ReadOK(pc[w], ctx[w])

\* A job of the local CA has no key set.
KeysExternal == pending \subseteq Jobs \ LocalJobs

\* A thread that has stored the key set of job j and may remove it.
HoldsKey(w, j) == pc[w] \in {"csr_await", "csr_undo", "drop_csr"} /\ ctx[w].job = j

\* Such a thread is alone, and its job does not wait for the external CA, unless
\* the request that made it wait has failed.
KeyHeld ==
  \A j \in Jobs \ unread, w \in Workers : HoldsKey(w, j) =>
    /\ j \in pending
    /\ row[j].state # "awaiting_external_ca"
    /\ \A u \in Workers : HoldsKey(u, j) => u = w

Completed == {"issued", "deployment_pending", "deployed"}

\* A row names a certificate from issued on, and never before.
CertificateLast ==
  \A j \in Jobs : row[j].state \notin Completed => row[j].cert = NoCertificate

\* A row that is not there is blank.
BlankRows == \A j \in Jobs : row[j].state \in NoRow => row[j] = Missing(row[j].state)

\* A thread about to mark a job has verified the certificate; the version it read
\* is not ahead of the row, and while the two agree the certificate is the job's.
Marking(w) ==
  /\ pc[w] \in {"mark", "mark_deployed"} => ctx[w].cert \in verified
  /\ pc[w] = "mark_deployed" =>
       LET r == row[ctx[w].job] IN
       /\ r.state # "absent"
       /\ r.state = "deleted" \/ ctx[w].version <= r.version
       /\ Current(ctx[w]) => r.cert = ctx[w].cert

\* A thread about to delete a row has found a job in a state that only leads to
\* states in which the job may be deleted.
Deleting(w) ==
  LET j == ctx[w].job IN
  pc[w] = "delete_job" =>
    \/ row[j].state \in Deletable \cup {"deleted"}
    \/ j \in ExistingJobs /\ row[j].state \in {"draft", "awaiting_external_ca"}

\* Identifiers are given out once, so files once removed do not come back.
Minting ==
  /\ files \cup entries \subseteq minted
  /\ \A w \in Workers :
       /\ pc[w] \in {"record", "undo", "remove_files", "remove_entry"} => ctx[w].cert \in minted
       /\ pc[w] = "remove_entry" => ctx[w].cert \notin files

RowsOK == CertificateLast /\ BlankRows /\ \A w \in Workers : Marking(w) /\ Deleting(w)

Invariant ==
  /\ TypeOK /\ ThreadsOK /\ KeysExternal
  /\ KeyHeld /\ AwaitingHasKey
  /\ RowsOK /\ IssuedRecorded /\ DeployedWasServed
  /\ Minting /\ NoOrphanFiles

(***************************************************************************)
(* Types and locals                                                        *)
(***************************************************************************)

\* One thread moves on, to a label its locals fit.
LEMMA ThreadMoves ==
  ASSUME TypeOK, ThreadsOK, NEW w \in Workers, NEW label, NEW c,
         ThreadOK(label, c), ReadOK(label, c),
         pc' = [pc EXCEPT ![w] = label], ctx' = [ctx EXCEPT ![w] = c]
  PROVE  pc' \in [Workers -> Labels] /\ ctx' \in [Workers -> Context] /\ ThreadsOK'
<1>1. label \in Labels /\ c \in Context
  BY DEF ThreadOK
<1>2. ASSUME NEW u \in Workers
      PROVE  ThreadOK(pc'[u], ctx'[u]) /\ ReadOK(pc'[u], ctx'[u])
  BY <1>2 DEF TypeOK, ThreadsOK
<1>3. ThreadsOK'
  BY <1>2 DEF ThreadsOK, ThreadOK, ReadOK
<1> QED
  BY <1>1, <1>3 DEF TypeOK

\* A thread goes to another label with the locals it has.
LEMMA ThreadGoes ==
  ASSUME TypeOK, ThreadsOK, NEW w \in Workers, NEW label,
         ThreadOK(label, ctx[w]), ReadOK(label, ctx[w]), Goto(w, label), ctx' = ctx
  PROVE  pc' \in [Workers -> Labels] /\ ctx' \in [Workers -> Context] /\ ThreadsOK'
<1>1. ctx' = [ctx EXCEPT ![w] = ctx[w]]
  BY DEF TypeOK
<1> QED
  BY <1>1, ThreadMoves DEF Goto

\* A request that ends leaves an idle thread.
LEMMA ThreadReturns ==
  ASSUME TypeOK, ThreadsOK, NEW w \in Workers, Return(w)
  PROVE  pc' \in [Workers -> Labels] /\ ctx' \in [Workers -> Context] /\ ThreadsOK'
<1>1. ThreadOK("idle", NoContext) /\ ReadOK("idle", NoContext)
  BY DEF ThreadOK, ReadOK, Labels, Context, NoContext
<1> QED
  BY <1>1, ThreadMoves DEF Return, Goto

\* A request comes in with locals that fit its first label.
LEMMA ThreadEnters ==
  ASSUME TypeOK, ThreadsOK, NEW w \in Workers, NEW label, NEW c,
         ThreadOK(label, c), ReadOK(label, c), Enter(w, c, label)
  PROVE  pc' \in [Workers -> Labels] /\ ctx' \in [Workers -> Context] /\ ThreadsOK'
BY ThreadMoves DEF Enter, Goto

\* What a request that reads a job has in its locals.
LEMMA ReadJob ==
  ASSUME TypeOK, NEW j \in Jobs, row[j].state \in States
  PROVE  /\ Read(j) \in Context
         /\ Read(j).job = j /\ Read(j).state = row[j].state
         /\ Read(j).version = row[j].version /\ Read(j).cert = NoCertificate
BY DEF TypeOK, Row, Read, Context, NoContext

\* The UPDATE writes a well-typed row.
LEMMA RowSet ==
  ASSUME TypeOK, NEW j \in Jobs, NEW to \in States,
         NEW cert \in Certificates \cup {NoCertificate}, SetRow(j, to, cert)
  PROVE  row' \in [Jobs -> Row]
BY DEF TypeOK, SetRow, Row

\* The types of everything but the threads.
StoreTypes ==
  /\ row \in [Jobs -> Row]
  /\ pending \in SUBSET Jobs
  /\ minted \in SUBSET Certificates
  /\ files \in SUBSET Certificates
  /\ entries \in SUBSET Certificates
  /\ serves \in [Devices -> Certificates \cup {NoCertificate}]
  /\ verified \in SUBSET Certificates
  /\ dropped \in SUBSET Certificates
  /\ unread \in SUBSET Jobs

ThreadTypes == pc \in [Workers -> Labels] /\ ctx \in [Workers -> Context] /\ ThreadsOK

\* A request comes in: the threads, and what it changes of the rest.
LEMMA RequestTypes ==
  ASSUME TypeOK, ThreadsOK, KeysExternal, NEW w \in Workers, Request(w)
  PROVE  ThreadTypes' /\ StoreTypes' /\ KeysExternal'
<1> DEFINE Fits(label, c) == ThreadOK(label, c) /\ ReadOK(label, c)
<1>0. ASSUME NEW label, NEW c, Fits(label, c), Enter(w, c, label) PROVE ThreadTypes'
  BY <1>0, ThreadEnters DEF ThreadTypes
<1>1. ASSUME NEW j \in Jobs, CreateCsr(w, j) PROVE ThreadTypes' /\ row' = row
  <2>1. Fits("csr_store", Read(j))
    BY <1>1, ReadJob DEF CreateCsr, States, ThreadOK, ReadOK, Labels
  <2> QED
    BY <1>0, <1>1, <2>1 DEF CreateCsr
<1>2. ASSUME NEW j \in Jobs, CompleteCsr(w, j) \/ ImportExisting(w, j)
      PROVE  ThreadTypes' /\ row' = row
  <2>1. Fits("store", Read(j))
    BY <1>2, ReadJob DEF CompleteCsr, ImportExisting, States, ThreadOK, ReadOK, Labels, KeysExternal
  <2> QED
    BY <1>0, <1>2, <2>1 DEF CompleteCsr, ImportExisting
<1>3. ASSUME NEW j \in Jobs, StartLocal(w, j) PROVE ThreadTypes' /\ row' \in [Jobs -> Row]
  <2> DEFINE c == [Read(j) EXCEPT !.state = "issuing", !.version = @ + 1]
  <2>1. Read(j) \in Context /\ Read(j).job = j
    BY <1>3, ReadJob DEF StartLocal, States
  <2>2. Read(j).version + 1 \in Nat /\ "issuing" \in States
    BY <2>1 DEF Context, States
  <2>5. c \in Context /\ c.job = j /\ c.state = "issuing"
    BY ONLY <2>1, <2>2, j \in Jobs DEF Context
  <2>3. Fits("store", c)
    BY <1>3, <2>5 DEF StartLocal, ThreadOK, ReadOK, Labels
  <2>4. row' \in [Jobs -> Row]
    BY <1>3, RowSet DEF StartLocal, States, TypeOK, Row
  <2>6. ASSUME pc' = pc, ctx' = ctx PROVE ThreadTypes'
    BY ONLY <2>6, TypeOK, ThreadsOK DEF ThreadTypes, ThreadsOK, TypeOK, ThreadOK, ReadOK
  <2>7. ASSUME Enter(w, c, "store") PROVE ThreadTypes'
    BY <1>0, <2>3, <2>7
  <2>8. Enter(w, c, "store") \/ UNCHANGED <<pc, ctx>>
    BY <1>3 DEF StartLocal
  <2> QED
    BY <2>4, <2>6, <2>7, <2>8
<1>4. ASSUME NEW j \in Jobs, DeleteTerminalJob(w, j) PROVE ThreadTypes' /\ row' = row
  <2>1. row[j].state \in States
    BY <1>4 DEF DeleteTerminalJob, Deletable, States
  <2>2. Fits("delete_job", Read(j))
    BY <2>1, ReadJob DEF ThreadOK, ReadOK, Labels
  <2> QED
    BY <1>0, <1>4, <2>2 DEF DeleteTerminalJob
<1>5. ASSUME IssueDirectly(w) PROVE ThreadTypes' /\ row' = row
  <2>1. Fits("store", NoContext)
    BY KindAssumption, NoneAssumption DEF ThreadOK, ReadOK, Labels, NoContext, Context
  <2> QED
    BY <1>0, <1>5, <2>1 DEF IssueDirectly
<1>6. ASSUME NEW c \in Certificates, DeleteStored(w, c) PROVE ThreadTypes' /\ row' = row
  <2> DEFINE l == [NoContext EXCEPT !.cert = c]
  <2>1. Fits("remove_files", l)
    BY DEF ThreadOK, ReadOK, Labels, NoContext, Context
  <2> QED
    BY <1>0, <1>6, <2>1 DEF DeleteStored
<1>7. ASSUME NEW c \in Certificates, NEW d \in Devices, Deploy(w, d, c)
      PROVE  ThreadTypes' /\ row' = row
  <2>1. PICK j \in Jobs \cup {None} :
          Enter(w, [NoContext EXCEPT !.job = j, !.cert = c, !.device = d], "push")
    BY <1>7 DEF Deploy
  <2> DEFINE l == [NoContext EXCEPT !.job = j, !.cert = c, !.device = d]
  <2>2. Fits("push", l)
    BY DEF ThreadOK, ReadOK, Labels, NoContext, Context
  <2> QED
    BY <1>0, <1>7, <2>1, <2>2 DEF Deploy
<1>8. UNCHANGED <<store, devices, history>>
  BY DEF Request, CreateCsr, CompleteCsr, ImportExisting, StartLocal, DeleteTerminalJob,
    IssueDirectly, DeleteStored, Deploy
<1>9. ThreadTypes' /\ row' \in [Jobs -> Row]
  BY <1>1, <1>2, <1>3, <1>4, <1>5, <1>6, <1>7 DEF Request, TypeOK
<1> QED
  BY <1>8, <1>9 DEF StoreTypes, TypeOK, KeysExternal, store, devices, history

\* A step of a request: the threads, and what it changes of the rest.
LEMMA StepTypes ==
  ASSUME TypeOK, ThreadsOK, KeysExternal, NEW w \in Workers, Step(w)
  PROVE  ThreadTypes' /\ StoreTypes' /\ KeysExternal'
<1> DEFINE c == ctx[w]
           Fits(label, l) == ThreadOK(label, l) /\ ReadOK(label, l)
           Result == ThreadTypes' /\ StoreTypes' /\ KeysExternal'
<1>0. /\ c \in Context /\ Fits(pc[w], c) /\ StoreTypes
      /\ c.cert \in Certificates \cup {NoCertificate}
  BY DEF TypeOK, ThreadsOK, StoreTypes, Context
<1>a. ASSUME Return(w) PROVE ThreadTypes'
  BY <1>a, ThreadReturns DEF ThreadTypes
<1>b. ASSUME NEW label, Fits(label, c), Goto(w, label), ctx' = ctx PROVE ThreadTypes'
  BY <1>b, ThreadGoes DEF ThreadTypes
<1>c. ASSUME NEW label, NEW l, Fits(label, l), Goto(w, label), ctx' = [ctx EXCEPT ![w] = l]
      PROVE  ThreadTypes'
  BY <1>c, ThreadMoves DEF ThreadTypes, Goto
<1>d. ASSUME NEW j \in Jobs, NEW to \in States,
             NEW cert \in Certificates \cup {NoCertificate}, SetRow(j, to, cert)
      PROVE  row' \in [Jobs -> Row]
  BY <1>d, RowSet
<1>e. \A j \in Jobs : row[j].cert \in Certificates \cup {NoCertificate}
  BY DEF TypeOK, Row
<1> HIDE DEF c, Fits
<1> USE DEF StoreTypes, KeysExternal, store, devices, history
<1>1. CASE StoreCsr(w)
  <2>1. c.job \in Jobs \ LocalJobs
    BY <1>0, <1>1 DEF StoreCsr, Fits, ReadOK, c
  <2>2. Fits("csr_await", c)
    BY <1>0, <1>1 DEF StoreCsr, Fits, ReadOK, ThreadOK, Labels
  <2> QED
    BY <1>0, <1>1, <1>a, <1>b, <2>1, <2>2 DEF StoreCsr, c
<1>2. CASE AwaitExternalCa(w)
  <2>1. c.job \in Jobs \ LocalJobs
    BY <1>0, <1>2 DEF AwaitExternalCa, Fits, ReadOK, c
  <2>2. Fits("csr_undo", c)
    BY <1>0, <1>2 DEF AwaitExternalCa, Fits, ReadOK, ThreadOK, Labels
  <2>3. "awaiting_external_ca" \in States
    BY DEF States
  <2> QED
    BY <1>0, <1>2, <1>a, <1>b, <1>d, <1>e, <2>1, <2>2, <2>3 DEF AwaitExternalCa, c
<1>3. CASE UndoCsr(w) \/ DropCsr(w)
  BY <1>0, <1>3, <1>a DEF UndoCsr, DropCsr, TakeKey
<1>4. CASE StoreSet(w)
  <2>1. ASSUME NEW d \in Certificates, minted' = minted \cup {d}, files' = files \cup {d},
               ctx' = [ctx EXCEPT ![w].cert = d], Goto(w, "record"), pc[w] = "store"
        PROVE  ThreadTypes'
    <3> DEFINE l == [c EXCEPT !.cert = d]
    <3>1. l \in Context /\ l.cert = d /\ l.job = c.job /\ l.state = c.state
      BY <1>0 DEF Context
    <3>2. Fits("record", l)
      BY <1>0, <2>1, <3>1 DEF Fits, ReadOK, ThreadOK, Labels
    <3>3. ctx' = [ctx EXCEPT ![w] = l]
      BY <2>1 DEF c
    <3> QED
      BY <1>c, <2>1, <3>2, <3>3
  <2> QED
    BY <1>0, <1>4, <1>a, <2>1 DEF StoreSet
<1>5. CASE RecordImported(w)
  <2>1. Fits("undo", c)
    BY <1>0, <1>5 DEF RecordImported, Fits, ReadOK, ThreadOK, Labels
  <2>2. Fits("drop_csr", c)
    BY <1>0, <1>5 DEF RecordImported, Fits, ReadOK, ThreadOK, Labels, c
  <2>3. c.cert \in Certificates /\ c.job \in Jobs /\ "issued" \in States
    BY <1>0, <1>5 DEF RecordImported, Fits, ThreadOK, States, c
  <2> QED
    BY <1>0, <1>5, <1>a, <1>b, <1>d, <2>1, <2>2, <2>3 DEF RecordImported, c
<1>6. CASE RecordLocal(w)
  <2>1. Fits("undo", c)
    BY <1>0, <1>6 DEF RecordLocal, Fits, ReadOK, ThreadOK, Labels
  <2>2. c.job # None => Fits("finish", c)
    BY <1>0, <1>6, KindAssumption DEF RecordLocal, Fits, ReadOK, ThreadOK, Labels, c
  <2>3. c.cert \in Certificates
    BY <1>0, <1>6 DEF RecordLocal, Fits, ThreadOK
  <2> QED
    BY <1>0, <1>6, <1>a, <1>b, <2>1, <2>2, <2>3 DEF RecordLocal, c
<1>7. CASE UndoSet(w) \/ RemoveEntry(w)
  <2>1. UndoSet(w) => c.cert \in Certificates
    BY <1>0 DEF UndoSet, Fits, ThreadOK
  <2> QED
    BY <1>0, <1>7, <1>a, <2>1 DEF UndoSet, RemoveEntry, c
<1>8. CASE FinishLocal(w)
  <2>1. c.cert \in Certificates /\ c.job \in Jobs /\ "issued" \in States
    BY <1>0, <1>8 DEF FinishLocal, Fits, ThreadOK, States
  <2> QED
    BY <1>0, <1>8, <1>a, <1>d, <2>1 DEF FinishLocal, c
<1>9. CASE RemoveFiles(w)
  <2>1. Fits("remove_entry", c)
    BY <1>0, <1>9 DEF RemoveFiles, Fits, ReadOK, ThreadOK, Labels
  <2> QED
    BY <1>0, <1>9, <1>a, <1>b, <2>1 DEF RemoveFiles
<1>10. CASE DeleteRow(w)
  <2>1. c.job \in Jobs
    BY <1>0, <1>10 DEF DeleteRow, Fits, ThreadOK
  <2>2. row' \in [Jobs -> Row]
    BY <1>0, <1>10, <2>1 DEF DeleteRow, Row, Missing, NoRow, c
  <2> QED
    BY <1>0, <1>10, <1>a, <2>2 DEF DeleteRow
<1>11. CASE Push(w)
  <2>1. Fits("verify", c) /\ Fits("note", c) /\ c.cert \in Certificates
    BY <1>0, <1>11 DEF Push, Fits, ReadOK, ThreadOK, Labels
  <2>2. serves' \in [Devices -> Certificates \cup {NoCertificate}]
    BY <1>0, <1>11, <2>1 DEF Push, c
  <2>3. ThreadTypes'
    BY <1>11, <1>b, <2>1 DEF Push
  <2> QED
    BY <1>0, <1>11, <2>2, <2>3 DEF Push
<1>12. CASE Verify(w)
  <2>1. Fits("mark", c) /\ Fits("note", c) /\ c.cert \in Certificates
    BY <1>0, <1>12 DEF Verify, Fits, ReadOK, ThreadOK, Labels
  <2> QED
    BY <1>0, <1>12, <1>b, <2>1 DEF Verify, c
<1>13. CASE MarkVerified(w)
  <2> DEFINE version == row[c.job].version
             Marked(v) == [c EXCEPT !.state = "deployment_pending", !.version = v]
  <2>1. ASSUME c.job \in Deployable(c.cert)
        PROVE  c.job \in Jobs /\ row[c.job].cert = c.cert /\ version \in Nat
    BY <2>1, <1>0 DEF Deployable, Row
  <2>2. ASSUME NEW v \in Nat, c.job \in Jobs, ctx' = [ctx EXCEPT ![w] = Marked(v)],
               Goto(w, "mark_deployed")
        PROVE  ThreadTypes'
    <3>1. /\ Marked(v) \in Context /\ Marked(v).cert = c.cert /\ Marked(v).job = c.job
          /\ Marked(v).state = "deployment_pending"
      BY <1>0 DEF Context, States
    <3>2. Fits("mark_deployed", Marked(v))
      BY <1>0, <1>13, <2>2, <3>1 DEF MarkVerified, Fits, ReadOK, ThreadOK, Labels
    <3> QED
      BY <1>c, <2>2, <3>2
  <2>3. ASSUME c.job \in Deployable(c.cert), row[c.job].state = "issued",
               SetRow(c.job, "deployment_pending", c.cert), Goto(w, "mark_deployed"),
               ctx' = [ctx EXCEPT ![w].state = "deployment_pending", ![w].version = version + 1]
        PROVE  ThreadTypes' /\ row' \in [Jobs -> Row]
    <3>1. ctx' = [ctx EXCEPT ![w] = Marked(version + 1)]
      BY <1>0, <2>3 DEF c, TypeOK
    <3>3. c.job \in Jobs /\ version + 1 \in Nat
      BY <2>1, <2>3
    <3>2. ThreadTypes'
      BY <2>2, <2>3, <3>1, <3>3
    <3> QED
      BY <1>0, <1>d, <2>1, <2>3, <3>2 DEF States
  <2>4. ASSUME c.job \in Deployable(c.cert), UNCHANGED row, Goto(w, "mark_deployed"),
               ctx' = [ctx EXCEPT ![w].state = "deployment_pending", ![w].version = version]
        PROVE  ThreadTypes'
    <3>1. ctx' = [ctx EXCEPT ![w] = Marked(version)]
      BY <1>0, <2>4 DEF c, TypeOK
    <3> QED
      BY <2>1, <2>2, <2>4, <3>1
  <2>6. ASSUME c.job \in Deployable(c.cert), SetRow(c.job, "deployment_pending", c.cert)
        PROVE  row' \in [Jobs -> Row]
    BY <1>0, <1>d, <2>1, <2>6 DEF States
  <2>5. ThreadTypes' /\ row' \in [Jobs -> Row]
    BY <1>0, <1>13, <1>a, <2>3, <2>4, <2>6 DEF MarkVerified, c
  <2> QED
    BY <1>0, <1>13, <2>5 DEF MarkVerified
<1>14. CASE MarkDeployed(w)
  <2>1. c.cert \in Certificates /\ c.job \in Jobs /\ "deployed" \in States
    BY <1>0, <1>14 DEF MarkDeployed, Fits, ThreadOK, States
  <2> QED
    BY <1>0, <1>14, <1>a, <1>d, <2>1 DEF MarkDeployed, c
<1>15. CASE NoteFailure(w)
  <2>1. c.job \in Deployable(c.cert) => c.job \in Jobs
    BY DEF Deployable
  <2>2. "deployment_pending" \in States
    BY DEF States
  <2> QED
    BY <1>0, <1>15, <1>a, <1>d, <2>1, <2>2 DEF NoteFailure, c
<1> QED
  BY <1>1, <1>2, <1>3, <1>4, <1>5, <1>6, <1>7, <1>8, <1>9, <1>10, <1>11, <1>12, <1>13, <1>14,
     <1>15 DEF Step

\* A crash leaves idle threads.
LEMMA CrashTypes ==
  ASSUME TypeOK, ThreadsOK, KeysExternal, Crash PROVE ThreadTypes' /\ StoreTypes' /\ KeysExternal'
<1>1. ThreadOK("idle", NoContext) /\ ReadOK("idle", NoContext)
  BY DEF ThreadOK, ReadOK, Labels, Context, NoContext
<1>2. pc' = [w \in Workers |-> "idle"] /\ ctx' = [w \in Workers |-> NoContext]
  BY DEF Crash
<1>3. ThreadTypes'
  BY <1>1, <1>2 DEF ThreadTypes, ThreadsOK, ThreadOK, ReadOK
<1> QED
  BY <1>3 DEF Crash, StoreTypes, KeysExternal, TypeOK, store, devices

\* Creating or cancelling a job writes a well-typed row.
LEMMA JobTypes ==
  ASSUME TypeOK, ThreadsOK, KeysExternal, NEW j \in Jobs, CreateJob(j) \/ CancelJob(j)
  PROVE  ThreadTypes' /\ StoreTypes' /\ KeysExternal'
<1>1. row' \in [Jobs -> Row]
  <2>1. CASE CreateJob(j)
    BY <2>1 DEF CreateJob, Missing, TypeOK, Row, States
  <2>2. CASE CancelJob(j)
    <3>1. row[j].cert \in Certificates \cup {NoCertificate} /\ "cancelled" \in States
      BY DEF TypeOK, Row, States
    <3> QED
      BY <2>2, <3>1, RowSet DEF CancelJob
  <2> QED
    BY <2>1, <2>2
<1> QED
  BY <1>1 DEF CreateJob, CancelJob, StoreTypes, ThreadTypes, ThreadsOK, KeysExternal, TypeOK,
     store, devices, history

\* Types, locals and the key sets of external jobs are kept together.
LEMMA TypesKept ==
  ASSUME TypeOK, ThreadsOK, KeysExternal, [Next]_vars
  PROVE  TypeOK' /\ ThreadsOK' /\ KeysExternal'
<1>1. ThreadTypes' /\ StoreTypes' /\ KeysExternal'
  <2>1. CASE UNCHANGED vars
    BY <2>1 DEF vars, store, devices, history, ThreadTypes, StoreTypes, KeysExternal, ThreadsOK, TypeOK
  <2> QED
    BY <2>1, RequestTypes, StepTypes, CrashTypes, JobTypes DEF Next
<1> QED
  BY <1>1 DEF ThreadTypes, StoreTypes, TypeOK, ThreadsOK

(***************************************************************************)
(* The table of jobs                                                       *)
(***************************************************************************)

\* An UPDATE of a row: along the table of transitions or, for a job that waits for
\* deployment, in place; with a certificate from issued on, that is recorded.
Update(j, s, c) ==
  /\ SetRow(j, s, c)
  /\ \/ ValidTransition(row[j].state, s)
     \/ row[j].state = s /\ s = "deployment_pending"
  /\ IF s \in Completed THEN c \in entries' ELSE c = NoCertificate
  /\ row[j].cert \in {NoCertificate, c}
  /\ s # "awaiting_dns" /\ (s = "issuing" => j \in LocalJobs)
  /\ s = "awaiting_external_ca" => \E w \in Workers :
       pc[w] = "csr_await" /\ ctx[w].job = j /\ (pc'[w] = "idle" \/ j \in unread')
  /\ s = "deployed" => c \in verified

RowEffect ==
  \/ row' = row
  \/ \E j \in Jobs : row[j].state = "absent" /\ row' = [row EXCEPT ![j] = Missing("draft")]
  \/ \E j \in Jobs, s \in States, c \in Certificates \cup {NoCertificate} : Update(j, s, c)
  \/ \E w \in Workers : /\ pc[w] = "delete_job"
                        /\ row' = [row EXCEPT ![ctx[w].job] = Missing("deleted")]

\* The transitions the workflows of this module use.
LEMMA Edges ==
  /\ ValidTransition("draft", "awaiting_external_ca") /\ ValidTransition("draft", "issuing")
  /\ ValidTransition("draft", "issued") /\ ValidTransition("awaiting_external_ca", "issued")
  /\ ValidTransition("issuing", "issued") /\ ValidTransition("issued", "deployment_pending")
  /\ ValidTransition("deployment_pending", "deployed")
BY DEF ValidTransition, AllowedTransitions, States

\* What leads where.
LEMMA EdgeTargets ==
  ASSUME NEW from, NEW to, ValidTransition(from, to)
  PROVE  /\ from \in States
         /\ from \in Completed => to \in {"deployment_pending", "deployed", "failed"}
         /\ from \in Deletable => to \in Deletable
         /\ from = "draft" => to \in Deletable \cup {"awaiting_external_ca", "awaiting_dns", "issuing"}
         /\ from = "awaiting_external_ca" => to \in Deletable
BY DEF ValidTransition, AllowedTransitions, States, Completed, Deletable

\* A step of a request changes the table only so.
LEMMA StepRow ==
  ASSUME Invariant, NEW w \in Workers, Step(w) PROVE RowEffect
<1> DEFINE c == ctx[w]
           Certs == Certificates \cup {NoCertificate}
<1>0. /\ ThreadOK(pc[w], c) /\ ReadOK(pc[w], c) /\ Marking(w)
      /\ c.cert \in Certs
      /\ \A j \in Jobs : row[j].cert \in Certs
  BY DEF Invariant, ThreadsOK, RowsOK, TypeOK, Row, Context
<1>1. ASSUME NEW j \in Jobs, NEW s \in States, NEW d \in Certs, Update(j, s, d) PROVE RowEffect
  BY <1>1 DEF RowEffect
<1>2. CASE AwaitExternalCa(w)
  <2>1. CASE SetRow(c.job, "awaiting_external_ca", row[c.job].cert) /\ Current(c)
    <3>1. c.job \in Jobs /\ row[c.job].state = "draft"
      BY <1>0, <1>2, <2>1 DEF AwaitExternalCa, ReadOK, Current
    <3>2. row[c.job].cert = NoCertificate
      BY <3>1 DEF Invariant, RowsOK, CertificateLast, Completed
    <3>4. pc[w] = "csr_await" /\ (pc'[w] = "idle" \/ c.job \in unread')
      BY <1>2, <2>1, <3>1 DEF AwaitExternalCa, SetRow, Return, Goto, Invariant, TypeOK, Row
    <3>3. Update(c.job, "awaiting_external_ca", row[c.job].cert)
      BY <2>1, <3>1, <3>2, <3>4, Edges DEF Update, Completed
    <3> QED
      BY <1>0, <1>1, <3>1, <3>3 DEF States
  <2> QED
    BY <1>2, <2>1 DEF AwaitExternalCa, RowEffect
<1>3. CASE RecordImported(w)
  <2>1. CASE SetRow(c.job, "issued", c.cert) /\ Current(c) /\ entries' = entries \cup {c.cert}
    <3>1. c.job \in Jobs /\ row[c.job].state \in {"draft", "awaiting_external_ca"}
      BY <1>0, <1>3, <2>1 DEF RecordImported, ReadOK, Current
    <3>2. row[c.job].cert = NoCertificate
      BY <3>1 DEF Invariant, RowsOK, CertificateLast, Completed
    <3>3. Update(c.job, "issued", c.cert)
      BY <2>1, <3>1, <3>2, Edges DEF Update, Completed
    <3> QED
      BY <1>0, <1>1, <3>1, <3>3 DEF States
  <2> QED
    BY <1>3, <2>1 DEF RecordImported, RowEffect
<1>4. CASE FinishLocal(w)
  <2>1. CASE SetRow(c.job, "issued", c.cert) /\ Current(c) /\ c.cert \in entries
    <3>1. c.job \in Jobs /\ row[c.job].state = "issuing"
      BY <1>0, <1>4, <2>1 DEF FinishLocal, ReadOK, ThreadOK, Current
    <3>2. row[c.job].cert = NoCertificate
      BY <3>1 DEF Invariant, RowsOK, CertificateLast, Completed
    <3>3. Update(c.job, "issued", c.cert)
      BY <1>4, <2>1, <3>1, <3>2, Edges DEF Update, Completed, FinishLocal, store
    <3> QED
      BY <1>0, <1>1, <3>1, <3>3 DEF States
  <2> QED
    BY <1>4, <2>1 DEF FinishLocal, RowEffect
<1>5. CASE MarkVerified(w) \/ NoteFailure(w)
  <2>1. CASE c.job \in Deployable(c.cert) /\ SetRow(c.job, "deployment_pending", c.cert)
    <3>1. /\ c.job \in Jobs /\ row[c.job].state \in {"issued", "deployment_pending"}
          /\ row[c.job].cert = c.cert
      BY <2>1 DEF Deployable
    <3>2. c.cert \in entries /\ entries' = entries
      BY <1>5, <3>1 DEF Invariant, IssuedRecorded, MarkVerified, NoteFailure, store
    <3>3. Update(c.job, "deployment_pending", c.cert)
      BY <2>1, <3>1, <3>2, Edges DEF Update, Completed
    <3> QED
      BY <1>0, <1>1, <3>1, <3>3 DEF States
  <2> QED
    BY <1>5, <2>1 DEF MarkVerified, NoteFailure, RowEffect
<1>6. CASE MarkDeployed(w)
  <2>1. CASE SetRow(c.job, "deployed", c.cert) /\ Current(c)
    <3>1. c.job \in Jobs /\ row[c.job].state = "deployment_pending" /\ row[c.job].cert = c.cert
      BY <1>0, <1>6, <2>1 DEF MarkDeployed, ReadOK, ThreadOK, Marking, Current
    <3>2. c.cert \in entries /\ entries' = entries /\ c.cert \in verified
      BY <1>0, <1>6, <3>1 DEF Invariant, IssuedRecorded, MarkDeployed, Marking, store
    <3>3. Update(c.job, "deployed", c.cert)
      BY <2>1, <3>1, <3>2, Edges DEF Update, Completed
    <3> QED
      BY <1>0, <1>1, <3>1, <3>3 DEF States
  <2> QED
    BY <1>6, <2>1 DEF MarkDeployed, RowEffect
<1>7. CASE DeleteRow(w)
  BY <1>7 DEF DeleteRow, RowEffect
<1>8. CASE \/ StoreCsr(w) \/ UndoCsr(w) \/ StoreSet(w) \/ RecordLocal(w) \/ UndoSet(w)
           \/ DropCsr(w) \/ RemoveFiles(w) \/ RemoveEntry(w) \/ Push(w) \/ Verify(w)
  BY <1>8 DEF StoreCsr, UndoCsr, StoreSet, RecordLocal, UndoSet, DropCsr, RemoveFiles,
     RemoveEntry, Push, Verify, RowEffect
<1> QED
  BY <1>2, <1>3, <1>4, <1>5, <1>6, <1>7, <1>8 DEF Step

\* No step of any kind changes it otherwise.
LEMMA NextRow ==
  ASSUME Invariant, [Next]_vars PROVE RowEffect
<1>0. \A j \in Jobs : row[j].cert \in Certificates \cup {NoCertificate}
  BY DEF Invariant, TypeOK, Row
<1>1. ASSUME NEW j \in Jobs, CreateJob(j) PROVE RowEffect
  BY <1>1 DEF CreateJob, RowEffect
<1>2. ASSUME NEW j \in Jobs, CancelJob(j) PROVE RowEffect
  <2>1. row[j].state \notin Completed
    BY <1>2, EdgeTargets DEF CancelJob
  <2>2. row[j].cert = NoCertificate
    BY <2>1 DEF Invariant, RowsOK, CertificateLast
  <2>3. Update(j, "cancelled", row[j].cert)
    BY <1>2, <2>2 DEF CancelJob, Update, Completed
  <2> QED
    BY <1>0, <2>3 DEF RowEffect, States
<1>3. ASSUME NEW w \in Workers, Request(w) PROVE RowEffect
  <2>1. ASSUME NEW j \in Jobs, StartLocal(w, j) PROVE RowEffect
    <3>1. row[j].cert = NoCertificate
      BY <2>1 DEF StartLocal, Invariant, RowsOK, CertificateLast, Completed
    <3>2. Update(j, "issuing", row[j].cert)
      BY <2>1, <3>1, Edges DEF StartLocal, Update, Completed
    <3> QED
      BY <1>0, <3>2 DEF RowEffect, States
  <2> QED
    BY <1>3, <2>1 DEF Request, CreateCsr, CompleteCsr, ImportExisting, DeleteTerminalJob,
       IssueDirectly, DeleteStored, Deploy, RowEffect
<1> QED
  BY <1>1, <1>2, <1>3, StepRow DEF Next, Crash, vars, RowEffect

\* One row after a step: untouched, inserted, updated or deleted.
LEMMA OneRow ==
  ASSUME Invariant, RowEffect, NEW j \in Jobs
  PROVE  \/ row'[j] = row[j]
         \/ row[j].state = "absent" /\ row'[j] = Missing("draft")
         \/ \E s \in States, c \in Certificates \cup {NoCertificate} :
              /\ Update(j, s, c)
              /\ row'[j] = [state |-> s, version |-> row[j].version + 1, cert |-> c]
         \/ /\ row'[j] = Missing("deleted")
            /\ \E w \in Workers : pc[w] = "delete_job" /\ ctx[w].job = j
<1> USE DEF Invariant, TypeOK
<1>1. ASSUME NEW k \in Jobs, NEW s \in States, NEW c \in Certificates \cup {NoCertificate},
             Update(k, s, c)
      PROVE  \/ row'[j] = row[j]
             \/ /\ Update(j, s, c)
                /\ row'[j] = [state |-> s, version |-> row[j].version + 1, cert |-> c]
  <2>1. CASE k = j
    BY <1>1, <2>1 DEF Update, SetRow
  <2>2. CASE k # j
    BY <1>1, <2>2 DEF Update, SetRow
  <2> QED
    BY <2>1, <2>2
<1> QED
  BY <1>1 DEF RowEffect

\* A certificate is named from issued on and not before, and a row that is not
\* there stays blank.
LEMMA RowsKept ==
  ASSUME Invariant, RowEffect PROVE CertificateLast' /\ BlankRows'
<1>1. ASSUME NEW j \in Jobs
      PROVE  /\ row'[j].state \notin Completed => row'[j].cert = NoCertificate
             /\ row'[j].state \in NoRow => row'[j] = Missing(row'[j].state)
  <2>1. CASE row'[j] = row[j]
    BY <2>1 DEF Invariant, RowsOK, CertificateLast, BlankRows
  <2>2. CASE row'[j] = Missing("draft") \/ row'[j] = Missing("deleted")
    BY <2>2 DEF Missing, NoRow
  <2>3. ASSUME NEW s \in States, NEW c, Update(j, s, c),
               row'[j] = [state |-> s, version |-> row[j].version + 1, cert |-> c]
        PROVE  /\ row'[j].state \notin Completed => row'[j].cert = NoCertificate
               /\ row'[j].state \notin NoRow
    BY <2>3 DEF Update, States, NoRow
  <2> QED
    BY <2>1, <2>2, <2>3, OneRow
<1> QED
  BY <1>1 DEF CertificateLast, BlankRows

\* The row of a certificate a job names is not deleted.
LEMMA EntriesKept ==
  ASSUME Invariant, [Next]_vars, NEW j \in Jobs, row[j].cert \in entries
  PROVE  row[j].cert \in entries'
<1>1. ASSUME NEW w \in Workers, Step(w) PROVE row[j].cert \in entries'
  BY <1>1 DEF Step, StoreCsr, AwaitExternalCa, UndoCsr, StoreSet, RecordImported, RecordLocal,
     UndoSet, DropCsr, FinishLocal, RemoveFiles, RemoveEntry, DeleteRow, Push, Verify,
     MarkVerified, MarkDeployed, NoteFailure, Unreferenced, store
<1>2. ASSUME NEW w \in Workers, Request(w) PROVE entries' = entries
  BY <1>2 DEF Request, CreateCsr, CompleteCsr, ImportExisting, StartLocal, DeleteTerminalJob,
     IssueDirectly, DeleteStored, Deploy, store
<1> QED
  BY <1>1, <1>2 DEF Next, CreateJob, CancelJob, Crash, vars, store

\* What a verifier has seen stays seen.
LEMMA VerifiedGrows ==
  ASSUME [Next]_vars PROVE verified \subseteq verified'
<1>1. ASSUME NEW w \in Workers, Step(w) PROVE verified \subseteq verified'
  BY <1>1 DEF Step, StoreCsr, AwaitExternalCa, UndoCsr, StoreSet, RecordImported, RecordLocal,
     UndoSet, DropCsr, FinishLocal, RemoveFiles, RemoveEntry, DeleteRow, Push, Verify,
     MarkVerified, MarkDeployed, NoteFailure, devices
<1>2. ASSUME NEW w \in Workers, Request(w) PROVE verified' = verified
  BY <1>2 DEF Request, CreateCsr, CompleteCsr, ImportExisting, StartLocal, DeleteTerminalJob,
     IssueDirectly, DeleteStored, Deploy, devices
<1> QED
  BY <1>1, <1>2 DEF Next, CreateJob, CancelJob, Crash, vars, devices

\* What was left behind, and which jobs wait after a failed request, is remembered.
LEMMA HistoryGrows ==
  ASSUME [Next]_vars PROVE dropped \subseteq dropped' /\ unread \subseteq unread'
<1> DEFINE Grows == dropped \subseteq dropped' /\ unread \subseteq unread'
<1>1. ASSUME NEW w \in Workers, Step(w) PROVE Grows
  BY <1>1 DEF Step, StoreCsr, AwaitExternalCa, UndoCsr, StoreSet, RecordImported, RecordLocal,
     UndoSet, DropCsr, FinishLocal, RemoveFiles, RemoveEntry, DeleteRow, Push, Verify,
     MarkVerified, MarkDeployed, NoteFailure, history
<1>2. ASSUME NEW w \in Workers, Request(w) PROVE Grows
  BY <1>2 DEF Request, CreateCsr, CompleteCsr, ImportExisting, StartLocal, DeleteTerminalJob,
     IssueDirectly, DeleteStored, Deploy, history
<1> QED
  BY <1>1, <1>2 DEF Next, CreateJob, CancelJob, Crash, vars, history

\* A completed job names a recorded certificate, a deployed one a verified one.
LEMMA CompletedKept ==
  ASSUME Invariant, [Next]_vars PROVE IssuedRecorded' /\ DeployedWasServed'
<1>1. ASSUME NEW j \in Jobs
      PROVE  /\ row'[j].state \in Completed => row'[j].cert \in entries'
             /\ row'[j].state = "deployed" => row'[j].cert \in verified'
  <2>1. CASE row'[j] = row[j]
    <3>1. row[j].state \in Completed => row[j].cert \in entries
      BY DEF Invariant, IssuedRecorded, Completed
    <3>2. row[j].state = "deployed" => row[j].cert \in verified
      BY DEF Invariant, DeployedWasServed
    <3> QED
      BY <2>1, <3>1, <3>2, EntriesKept, VerifiedGrows
  <2>2. CASE row'[j] = Missing("draft") \/ row'[j] = Missing("deleted")
    BY <2>2 DEF Missing, Completed
  <2>3. ASSUME NEW s \in States, NEW c, Update(j, s, c),
               row'[j] = [state |-> s, version |-> row[j].version + 1, cert |-> c]
        PROVE  /\ row'[j].state \in Completed => row'[j].cert \in entries'
               /\ row'[j].state = "deployed" => row'[j].cert \in verified'
    BY <2>3, VerifiedGrows DEF Update
  <2> QED
    BY <2>1, <2>2, <2>3, OneRow, NextRow
<1> QED
  BY <1>1 DEF IssuedRecorded, DeployedWasServed, Completed

(***************************************************************************)
(* Threads that mark a job or delete one                                   *)
(***************************************************************************)

\* A step of one thread leaves the others where they are.
LEMMA OthersStay ==
  ASSUME TypeOK, NEW w \in Workers, Request(w) \/ Step(w), NEW u \in Workers, w # u
  PROVE  pc'[u] = pc[u] /\ ctx'[u] = ctx[u]
<1>1. CASE Request(w)
  BY <1>1 DEF Request, CreateCsr, CompleteCsr, ImportExisting, StartLocal,
     DeleteTerminalJob, IssueDirectly, DeleteStored, Deploy, Enter, Goto, TypeOK
<1>2. CASE StoreCsr(w) \/ AwaitExternalCa(w) \/ UndoCsr(w) \/ DropCsr(w)
  BY <1>2 DEF StoreCsr, AwaitExternalCa, UndoCsr, DropCsr, Return, Goto, TypeOK
<1>3. CASE StoreSet(w) \/ RecordImported(w) \/ RecordLocal(w) \/ UndoSet(w) \/ FinishLocal(w)
  BY <1>3 DEF StoreSet, RecordImported, RecordLocal, UndoSet, FinishLocal, Return, Goto,
     TypeOK
<1>4. CASE RemoveFiles(w) \/ RemoveEntry(w) \/ DeleteRow(w)
  BY <1>4 DEF RemoveFiles, RemoveEntry, DeleteRow, Return, Goto, TypeOK
<1>5. CASE Push(w) \/ Verify(w) \/ MarkVerified(w) \/ MarkDeployed(w) \/ NoteFailure(w)
  BY <1>5 DEF Push, Verify, MarkVerified, MarkDeployed, NoteFailure, Return, Goto, TypeOK
<1> QED
  BY <1>1, <1>2, <1>3, <1>4, <1>5 DEF Step

\* What a step does to threads: it moves one of them, or all of them end.
LEMMA OneThread ==
  ASSUME TypeOK, [Next]_vars, NEW u \in Workers
  PROVE  \/ pc'[u] = pc[u] /\ ctx'[u] = ctx[u]
         \/ Request(u) \/ Step(u)
         \/ pc'[u] = "idle" /\ ctx'[u] = NoContext
<1>1. CASE Crash
  BY <1>1 DEF Crash
<1>2. CASE (\E j \in Jobs : CreateJob(j) \/ CancelJob(j)) \/ UNCHANGED vars
  BY <1>2 DEF CreateJob, CancelJob, vars
<1> QED
  BY <1>1, <1>2, OthersStay DEF Next

\* By which action a thread comes to a label.
LEMMA Reached ==
  ASSUME TypeOK, NEW w \in Workers, Request(w) \/ Step(w)
  PROVE  /\ pc'[w] = "csr_await" => StoreCsr(w)
         /\ pc'[w] = "csr_undo" => AwaitExternalCa(w)
         /\ pc'[w] = "drop_csr" => RecordImported(w)
         /\ pc'[w] = "record" => StoreSet(w)
         /\ pc'[w] = "undo" => RecordImported(w) \/ RecordLocal(w)
         /\ pc'[w] = "remove_files" => \E c \in Certificates : DeleteStored(w, c)
         /\ pc'[w] = "remove_entry" => RemoveFiles(w)
         /\ pc'[w] = "delete_job" => \E j \in Jobs : DeleteTerminalJob(w, j)
         /\ pc'[w] = "mark" => Verify(w)
         /\ pc'[w] = "mark_deployed" => MarkVerified(w)
<1>0. ASSUME NEW label, Goto(w, label) PROVE pc'[w] = label
  BY <1>0 DEF Goto, TypeOK
<1>1. Return(w) => pc'[w] = "idle"
  BY <1>0 DEF Return
<1>2. CASE Request(w)
  BY <1>0, <1>2 DEF Request, CreateCsr, CompleteCsr, ImportExisting, StartLocal,
     DeleteTerminalJob, IssueDirectly, DeleteStored, Deploy, Enter
<1>3. CASE StoreCsr(w) \/ AwaitExternalCa(w) \/ UndoCsr(w) \/ DropCsr(w)
  BY <1>0, <1>1, <1>3 DEF StoreCsr, AwaitExternalCa, UndoCsr, DropCsr
<1>4. CASE StoreSet(w) \/ RecordImported(w) \/ RecordLocal(w) \/ UndoSet(w) \/ FinishLocal(w)
  BY <1>0, <1>1, <1>4 DEF StoreSet, RecordImported, RecordLocal, UndoSet, FinishLocal
<1>5. CASE RemoveFiles(w) \/ RemoveEntry(w) \/ DeleteRow(w)
  BY <1>0, <1>1, <1>5 DEF RemoveFiles, RemoveEntry, DeleteRow
<1>6. CASE Push(w) \/ Verify(w) \/ MarkVerified(w) \/ MarkDeployed(w) \/ NoteFailure(w)
  BY <1>0, <1>1, <1>6 DEF Push, Verify, MarkVerified, MarkDeployed, NoteFailure
<1> QED
  BY <1>2, <1>3, <1>4, <1>5, <1>6 DEF Step

\* A thread that marks a job keeps what it knows of it while others work.
LEMMA MarkingWaits ==
  ASSUME Invariant, [Next]_vars, NEW u \in Workers, pc'[u] = pc[u], ctx'[u] = ctx[u]
  PROVE  Marking(u)'
<1> DEFINE j == ctx[u].job
<1>1. Marking(u) /\ verified \subseteq verified'
  BY VerifiedGrows DEF Invariant, RowsOK
<1>2. SUFFICES ASSUME pc[u] = "mark_deployed"
               PROVE  /\ row'[j].state # "absent"
                      /\ row'[j].state = "deleted" \/ ctx[u].version <= row'[j].version
                      /\ row'[j].state = ctx[u].state /\ row'[j].version = ctx[u].version
                           => row'[j].cert = ctx[u].cert
  BY <1>1 DEF Marking, Current
<1>3. /\ j \in Jobs /\ ctx[u].state = "deployment_pending"
      /\ ctx[u].version \in Nat /\ row[j].version \in Nat
  BY <1>2 DEF Invariant, ThreadsOK, ThreadOK, ReadOK, TypeOK, Row, Context
<1>4. /\ row[j].state # "absent"
      /\ row[j].state = "deleted" \/ ctx[u].version <= row[j].version
      /\ row[j].state = ctx[u].state /\ row[j].version = ctx[u].version
           => row[j].cert = ctx[u].cert
  BY <1>1, <1>2 DEF Marking, Current
<1>5. CASE row'[j] = row[j]
  BY <1>4, <1>5
<1>6. CASE row'[j] = Missing("deleted")
  BY <1>3, <1>6 DEF Missing
<1>7. ASSUME NEW s \in States, NEW c, Update(j, s, c),
             row'[j] = [state |-> s, version |-> row[j].version + 1, cert |-> c]
      PROVE  row'[j].state \in States /\ ctx[u].version < row'[j].version
  <2>1. row[j].state # "deleted"
    BY <1>7, EdgeTargets DEF Update, States
  <2> QED
    BY <1>3, <1>4, <1>7, <2>1
<1>8. "absent" \notin States
  BY DEF States
<1>9. \/ row'[j] = row[j]
      \/ \E s \in States, c \in Certificates \cup {NoCertificate} :
           /\ Update(j, s, c)
           /\ row'[j] = [state |-> s, version |-> row[j].version + 1, cert |-> c]
      \/ row'[j] = Missing("deleted")
  BY <1>3, <1>4, OneRow, NextRow
<1>10. row'[j] = row[j] \/ row'[j] = Missing("deleted")
         \/ (row'[j].state \in States /\ ctx[u].version < row'[j].version)
  BY <1>7, <1>9
<1>11. CASE row'[j].state \in States /\ ctx[u].version < row'[j].version
  <2>1. row'[j].version \in Nat
    BY <1>3, TypesKept DEF Invariant, TypeOK, Row
  <2> QED
    BY <1>3, <1>8, <1>11, <2>1
<1> QED
  BY <1>5, <1>6, <1>10, <1>11

\* A thread that deletes a job may still do so after a step of another.
LEMMA DeletingWaits ==
  ASSUME Invariant, [Next]_vars, NEW u \in Workers, pc'[u] = pc[u], ctx'[u] = ctx[u]
  PROVE  Deleting(u)'
<1> DEFINE j == ctx[u].job
           May(s) == \/ s \in Deletable \cup {"deleted"}
                     \/ j \in ExistingJobs /\ s \in {"draft", "awaiting_external_ca"}
<1>1. SUFFICES ASSUME pc[u] = "delete_job" PROVE May(row'[j].state)
  BY DEF Deleting
<1>2. j \in Jobs /\ May(row[j].state)
  BY <1>1 DEF Invariant, RowsOK, Deleting, ThreadsOK, ThreadOK
<1>3. ASSUME NEW s \in States, NEW c, Update(j, s, c) PROVE May(s)
  <2>1. j \in ExistingJobs => j \notin LocalJobs
    BY KindAssumption
  <2>2. row[j].state # "deleted"
    BY <1>3, EdgeTargets DEF Update, States
  <2>3. CASE s = "deployment_pending"
    BY <2>3 DEF Deletable
  <2>4. CASE ValidTransition(row[j].state, s)
    BY <1>2, <1>3, <2>1, <2>2, <2>4, EdgeTargets DEF Update
  <2> QED
    BY <1>3, <2>3, <2>4 DEF Update
<1>4. row[j].state # "absent"
  BY <1>2 DEF Deletable
<1>5. \/ row'[j] = row[j]
      \/ \E s \in States, c \in Certificates \cup {NoCertificate} :
           /\ Update(j, s, c)
           /\ row'[j] = [state |-> s, version |-> row[j].version + 1, cert |-> c]
      \/ row'[j] = Missing("deleted")
  BY <1>2, <1>4, OneRow, NextRow
<1>6. CASE row'[j] = row[j]
  BY <1>2, <1>6
<1>7. CASE row'[j] = Missing("deleted")
  BY <1>7 DEF Missing
<1>8. ASSUME NEW s \in States, NEW c \in Certificates \cup {NoCertificate}, Update(j, s, c),
             row'[j] = [state |-> s, version |-> row[j].version + 1, cert |-> c]
      PROVE  May(row'[j].state)
  <2>1. row'[j].state = s
    BY <1>8
  <2> QED
    BY <1>3, <1>8, <2>1
<1> QED
  BY <1>5, <1>6, <1>7, <1>8

\* A thread that has just verified, marked or found a job to delete.
LEMMA MarkingStarts ==
  ASSUME Invariant, [Next]_vars, NEW u \in Workers, Request(u) \/ Step(u)
  PROVE  Marking(u)' /\ Deleting(u)'
<1> USE DEF Invariant, TypeOK
<1>1. ASSUME pc'[u] = "mark" PROVE Marking(u)'
  <2>1. ctx[u].cert \in verified' /\ ctx' = ctx
    BY <1>1, Reached DEF Verify, Goto
  <2> QED
    BY <1>1, <2>1 DEF Marking
<1>2. ASSUME pc'[u] = "mark_deployed" PROVE Marking(u)'
  <2> DEFINE c == ctx[u]
             j == c.job
             version == row[j].version
  <2>1. MarkVerified(u)
    BY <1>2, Reached
  <2>2. /\ j \in Deployable(c.cert)
        /\ \/ /\ SetRow(j, "deployment_pending", c.cert)
              /\ ctx' = [ctx EXCEPT ![u].state = "deployment_pending", ![u].version = version + 1]
           \/ /\ UNCHANGED row
              /\ ctx' = [ctx EXCEPT ![u].state = "deployment_pending", ![u].version = version]
        /\ verified' = verified
    BY <1>2, <2>1 DEF MarkVerified, Return, Goto, devices
  <2>3. /\ j \in Jobs /\ row[j].cert = c.cert /\ version \in Nat
        /\ row[j].state \in {"issued", "deployment_pending"}
    BY <2>2 DEF Deployable, Row
  <2>4. c.cert \in verified
    BY <2>1 DEF MarkVerified, RowsOK, Marking
  <2>5. c \in Context
    OBVIOUS
  <2>6. /\ ctx'[u].cert = c.cert /\ ctx'[u].job = j
        /\ ctx'[u].version \in {version, version + 1}
        /\ ctx'[u].version = version + 1 => row'[j].version = version + 1
        /\ ctx'[u].version = version => row'[j].version = version
        /\ row'[j].cert = c.cert /\ row'[j].state \in {"issued", "deployment_pending"}
    <3>1. CASE SetRow(j, "deployment_pending", c.cert)
               /\ ctx' = [ctx EXCEPT ![u].state = "deployment_pending", ![u].version = version + 1]
      BY <2>3, <2>5, <3>1 DEF SetRow, Context
    <3>2. CASE UNCHANGED row
               /\ ctx' = [ctx EXCEPT ![u].state = "deployment_pending", ![u].version = version]
      BY <2>3, <2>5, <3>2 DEF Context
    <3> QED
      BY <2>2, <3>1, <3>2
  <2>7. ctx'[u].version <= row'[j].version
    BY <2>3, <2>6
  <2> QED
    BY <2>2, <2>4, <2>6, <2>7 DEF Marking
<1>3. ASSUME pc'[u] = "delete_job" PROVE Deleting(u)'
  <2>1. PICK j \in Jobs : DeleteTerminalJob(u, j)
    BY <1>3, Reached
  <2>2. ctx'[u].job = j /\ row' = row
    BY <2>1 DEF DeleteTerminalJob, Enter, Read, NoContext
  <2> QED
    BY <2>1, <2>2 DEF Deleting, DeleteTerminalJob
<1> QED
  BY <1>1, <1>2, <1>3 DEF Marking, Deleting

\* Rows, and the threads that mark or delete a job.
LEMMA RowsOKKept ==
  ASSUME Invariant, [Next]_vars PROVE RowsOK'
<1>1. ASSUME NEW u \in Workers PROVE Marking(u)' /\ Deleting(u)'
  <2>1. CASE pc'[u] = "idle"
    BY <2>1 DEF Marking, Deleting
  <2> QED
    BY <2>1, OneThread, MarkingWaits, DeletingWaits, MarkingStarts DEF Invariant
<1> QED
  BY <1>1, RowsKept, NextRow DEF RowsOK

(***************************************************************************)
(* Key sets                                                                *)
(***************************************************************************)

\* How a key set goes: by the thread that holds it, which ends, the table as it is.
LEMMA KeyRemoved ==
  ASSUME Invariant, [Next]_vars, NEW j \in pending, j \notin pending'
  PROVE  row' = row /\ \E w \in Workers : HoldsKey(w, j) /\ pc'[w] = "idle"
<1>1. ASSUME NEW w \in Workers, UndoCsr(w) \/ DropCsr(w)
      PROVE  row' = row /\ HoldsKey(w, j) /\ pc'[w] = "idle"
  BY <1>1 DEF UndoCsr, DropCsr, TakeKey, HoldsKey, Return, Goto, Invariant, TypeOK
<1>2. ASSUME NEW w \in Workers, Step(w) PROVE UndoCsr(w) \/ DropCsr(w)
  BY <1>2 DEF Step, StoreCsr, AwaitExternalCa, StoreSet, RecordImported, RecordLocal, UndoSet,
     FinishLocal, RemoveFiles, RemoveEntry, DeleteRow, Push, Verify, MarkVerified,
     MarkDeployed, NoteFailure, store
<1>3. ASSUME NEW w \in Workers, Request(w) PROVE pending' = pending
  BY <1>3 DEF Request, CreateCsr, CompleteCsr, ImportExisting, StartLocal, DeleteTerminalJob,
     IssueDirectly, DeleteStored, Deploy, store
<1> QED
  BY <1>1, <1>2, <1>3 DEF Next, CreateJob, CancelJob, Crash, vars, store

\* How a thread comes to hold one: it has held it, or has just stored it, or has
\* completed its job.
LEMMA KeyTaken ==
  ASSUME Invariant, [Next]_vars, NEW u \in Workers, NEW j \in Jobs, HoldsKey(u, j)'
  PROVE  \/ HoldsKey(u, j)
         \/ StoreCsr(u) /\ j \notin pending /\ j \in pending' /\ row' = row
         \/ /\ RecordImported(u) /\ row[j].state = "awaiting_external_ca"
            /\ row'[j].state = "issued" /\ pending' = pending
<1> USE DEF HoldsKey, Invariant, TypeOK
<1>1. CASE pc'[u] = pc[u] /\ ctx'[u] = ctx[u]
  BY <1>1
<1>2. CASE Request(u) \/ Step(u)
  <2>1. CASE StoreCsr(u)
    BY <2>1 DEF StoreCsr, Return, Goto
  <2>2. CASE AwaitExternalCa(u)
    BY <2>2 DEF AwaitExternalCa, Return, Goto
  <2>3. CASE RecordImported(u)
    BY <2>3 DEF RecordImported, Return, Goto, NoContext, Current, SetRow
  <2> QED
    BY <1>2, <2>1, <2>2, <2>3, Reached
<1> QED
  BY <1>1, <1>2, OneThread

\* A job that comes to wait for its external CA has its key held until that step,
\* unless that step fails after the transition.
LEMMA Awaited ==
  ASSUME Invariant, [Next]_vars, NEW j \in Jobs, j \notin unread',
         row'[j].state = "awaiting_external_ca", row[j].state # "awaiting_external_ca"
  PROVE  \E w \in Workers : HoldsKey(w, j) /\ pc'[w] = "idle"
<1>1. ASSUME NEW s \in States, NEW c, Update(j, s, c),
             row'[j] = [state |-> s, version |-> row[j].version + 1, cert |-> c]
      PROVE  \E w \in Workers : HoldsKey(w, j) /\ pc'[w] = "idle"
  BY <1>1 DEF Update, HoldsKey
<1>2. row'[j] # row[j] /\ row'[j] # Missing("draft") /\ row'[j] # Missing("deleted")
  BY DEF Missing
<1> QED
  BY <1>1, <1>2, OneRow, NextRow

\* A job that waits has its key, and a key is in the hands of one thread at most.
LEMMA KeysKept ==
  ASSUME Invariant, [Next]_vars PROVE AwaitingHasKey' /\ KeyHeld'
<1>0. AwaitingHasKey /\ KeyHeld /\ unread \subseteq unread'
  BY HistoryGrows DEF Invariant
<1>1. ASSUME NEW j \in Jobs, j \notin unread', row'[j].state = "awaiting_external_ca"
      PROVE  j \in pending'
  <2>1. CASE row[j].state = "awaiting_external_ca"
    BY <1>0, <1>1, <2>1, KeyRemoved DEF AwaitingHasKey, KeyHeld
  <2>2. CASE row[j].state # "awaiting_external_ca"
    BY <1>0, <1>1, <2>2, Awaited, KeyRemoved DEF KeyHeld
  <2> QED
    BY <2>1, <2>2
<1>2. ASSUME NEW j \in Jobs, j \notin unread', NEW u \in Workers, HoldsKey(u, j)'
      PROVE  /\ j \in pending'
             /\ row'[j].state # "awaiting_external_ca"
             /\ \A v \in Workers : HoldsKey(v, j)' => v = u
  <2>0. pc'[u] # "idle"
    BY <1>2 DEF HoldsKey
  <2>1. CASE HoldsKey(u, j)
    <3>1. j \in pending /\ row[j].state # "awaiting_external_ca"
            /\ \A v \in Workers : HoldsKey(v, j) => v = u
      BY <1>0, <1>2, <2>1 DEF KeyHeld
    <3>2. j \in pending'
      BY <2>0, <3>1, KeyRemoved
    <3>3. row'[j].state # "awaiting_external_ca"
      BY <1>2, <2>0, <3>1, Awaited
    <3> QED
      BY <3>1, <3>2, <3>3, KeyTaken
  <2>2. CASE StoreCsr(u) /\ j \notin pending /\ j \in pending' /\ row' = row
    <3>1. row'[j].state # "awaiting_external_ca" /\ \A v \in Workers : ~HoldsKey(v, j)
      BY <1>0, <1>2, <2>2 DEF KeyHeld, AwaitingHasKey
    <3>2. ASSUME NEW v \in Workers, HoldsKey(v, j)', v # u PROVE FALSE
      <4>1. HoldsKey(v, j)
        BY <2>2, <3>2, OthersStay DEF Step, HoldsKey, Invariant
      <4> QED
        BY <3>1, <4>1
    <3> QED
      BY <2>2, <3>1, <3>2
  <2>3. CASE /\ RecordImported(u) /\ row[j].state = "awaiting_external_ca"
             /\ row'[j].state = "issued" /\ pending' = pending
    <3>1. j \in pending /\ \A v \in Workers : ~HoldsKey(v, j)
      BY <1>0, <1>2, <2>3 DEF KeyHeld, AwaitingHasKey
    <3>2. ASSUME NEW v \in Workers, HoldsKey(v, j)', v # u PROVE FALSE
      <4>1. HoldsKey(v, j)
        BY <2>3, <3>2, OthersStay DEF Step, HoldsKey, Invariant
      <4> QED
        BY <3>1, <4>1
    <3> QED
      BY <2>3, <3>1, <3>2
  <2> QED
    BY <1>2, <2>1, <2>2, <2>3, KeyTaken
<1>3. KeyHeld'
  BY <1>2 DEF KeyHeld
<1> QED
  BY <1>1, <1>3 DEF AwaitingHasKey

(***************************************************************************)
(* Files and rows of certificates                                          *)
(***************************************************************************)

\* What a step does to the files of a certificate: they are made once, for a new
\* identifier, by a thread that goes on to record them.
LEMMA FilesMade ==
  ASSUME Invariant, [Next]_vars, NEW c \in files', c \notin files
  PROVE  c \notin minted /\ c \in minted' /\ entries' = entries /\ \E w \in Workers :
           StoreSet(w) /\ pc'[w] = "record" /\ ctx'[w].cert = c
<1>1. ASSUME NEW w \in Workers, StoreSet(w)
      PROVE  /\ c \notin minted /\ c \in minted' /\ entries' = entries
             /\ pc'[w] = "record" /\ ctx'[w].cert = c
  <2>1. PICK d \in Certificates \ minted :
          /\ minted' = minted \cup {d} /\ files' = files \cup {d}
          /\ ctx' = [ctx EXCEPT ![w].cert = d] /\ Goto(w, "record")
    BY <1>1 DEF StoreSet
  <2>2. c = d
    BY <2>1
  <2> QED
    BY <1>1, <2>1, <2>2 DEF StoreSet, Goto, Invariant, TypeOK, Context
<1>2. ASSUME NEW w \in Workers, Step(w) PROVE StoreSet(w)
  BY <1>2 DEF Step, StoreCsr, AwaitExternalCa, UndoCsr, RecordImported, RecordLocal, UndoSet,
     DropCsr, FinishLocal, RemoveFiles, RemoveEntry, DeleteRow, Push, Verify, MarkVerified,
     MarkDeployed, NoteFailure, store
<1>3. ASSUME NEW w \in Workers, Request(w) PROVE files' = files
  BY <1>3 DEF Request, CreateCsr, CompleteCsr, ImportExisting, StartLocal, DeleteTerminalJob,
     IssueDirectly, DeleteStored, Deploy, store
<1> QED
  BY <1>1, <1>2, <1>3 DEF Next, CreateJob, CancelJob, Crash, vars, store

\* A row of certificates comes from a thread that has stored the files.
LEMMA EntryMade ==
  ASSUME Invariant, [Next]_vars, NEW c \in entries', c \notin entries
  PROVE  files' = files /\ minted' = minted /\ \E w \in Workers :
           (RecordImported(w) \/ RecordLocal(w)) /\ ctx[w].cert = c
<1>1. ASSUME NEW w \in Workers, Step(w)
      PROVE  /\ RecordImported(w) \/ RecordLocal(w)
             /\ files' = files /\ minted' = minted /\ ctx[w].cert = c
  BY <1>1 DEF Step, StoreCsr, AwaitExternalCa, UndoCsr, StoreSet, RecordImported, RecordLocal,
     UndoSet, DropCsr, FinishLocal, RemoveFiles, RemoveEntry, DeleteRow, Push, Verify,
     MarkVerified, MarkDeployed, NoteFailure, store
<1>2. ASSUME NEW w \in Workers, Request(w) PROVE entries' = entries
  BY <1>2 DEF Request, CreateCsr, CompleteCsr, ImportExisting, StartLocal, DeleteTerminalJob,
     IssueDirectly, DeleteStored, Deploy, store
<1> QED
  BY <1>1, <1>2 DEF Next, CreateJob, CancelJob, Crash, vars, store

\* Identifiers are only ever added.
LEMMA MintedGrows ==
  ASSUME [Next]_vars PROVE minted \subseteq minted'
<1>1. ASSUME NEW w \in Workers, Step(w) PROVE minted \subseteq minted'
  BY <1>1 DEF Step, StoreCsr, AwaitExternalCa, UndoCsr, StoreSet, RecordImported, RecordLocal,
     UndoSet, DropCsr, FinishLocal, RemoveFiles, RemoveEntry, DeleteRow, Push, Verify,
     MarkVerified, MarkDeployed, NoteFailure, store
<1>2. ASSUME NEW w \in Workers, Request(w) PROVE minted' = minted
  BY <1>2 DEF Request, CreateCsr, CompleteCsr, ImportExisting, StartLocal, DeleteTerminalJob,
     IssueDirectly, DeleteStored, Deploy, store
<1> QED
  BY <1>1, <1>2 DEF Next, CreateJob, CancelJob, Crash, vars, store

\* Identifiers in use have been given out; removed files stay removed.
LEMMA MintingKept ==
  ASSUME Invariant, [Next]_vars PROVE Minting'
<1> DEFINE Named == {"record", "undo", "remove_files", "remove_entry"}
<1>0. Minting /\ minted \subseteq minted'
  BY MintedGrows DEF Invariant
<1>1. files' \cup entries' \subseteq minted'
  <2>1. ASSUME NEW c \in files' PROVE c \in minted'
    BY <1>0, FilesMade DEF Minting
  <2>2. ASSUME NEW c \in entries' PROVE c \in minted'
    BY <1>0, EntryMade DEF Minting, RecordImported, RecordLocal
  <2> QED
    BY <2>1, <2>2
<1>2. ASSUME NEW u \in Workers, pc'[u] \in Named PROVE ctx'[u].cert \in minted'
  <2>1. CASE pc'[u] = pc[u] /\ ctx'[u] = ctx[u]
    BY <1>0, <1>2, <2>1 DEF Minting
  <2>2. CASE Request(u) \/ Step(u)
    <3>1. CASE StoreSet(u)
      BY <1>2, <3>1 DEF StoreSet, Return, Goto, Invariant, TypeOK, Context
    <3>2. CASE RecordImported(u) \/ RecordLocal(u) \/ RemoveFiles(u)
      <4>1. ctx[u].cert \in minted
        BY <1>0, <3>2 DEF Minting, RecordImported, RecordLocal, RemoveFiles
      <4>2. ctx'[u] = ctx[u] \/ pc'[u] = "idle"
        BY <3>2 DEF RecordImported, RecordLocal, RemoveFiles, Return, Goto, Invariant, TypeOK
      <4> QED
        BY <1>0, <1>2, <4>1, <4>2
    <3>3. ASSUME NEW c \in Certificates, DeleteStored(u, c) PROVE ctx'[u].cert \in minted'
      BY <1>0, <3>3 DEF Minting, DeleteStored, Enter, NoContext, Invariant, TypeOK
    <3> QED
      BY <1>2, <2>2, <3>1, <3>2, <3>3, Reached DEF Invariant
  <2> QED
    BY <1>2, <2>1, <2>2, OneThread DEF Invariant
<1>3. ASSUME NEW u \in Workers, pc'[u] = "remove_entry" PROVE ctx'[u].cert \notin files'
  <2>1. CASE pc'[u] = pc[u] /\ ctx'[u] = ctx[u]
    <3>1. ctx[u].cert \in minted /\ ctx[u].cert \notin files
      BY <1>0, <1>3, <2>1 DEF Minting
    <3> QED
      BY <2>1, <3>1, FilesMade
  <2>2. CASE Request(u) \/ Step(u)
    <3>1. RemoveFiles(u)
      BY <1>3, <2>2, Reached DEF Invariant
    <3> QED
      BY <1>3, <3>1 DEF RemoveFiles, Return, Goto, Invariant, TypeOK
  <2> QED
    BY <1>3, <2>1, <2>2, OneThread DEF Invariant
<1> QED
  BY <1>1, <1>2, <1>3 DEF Minting

\* A row of certificates goes when its files have gone.
LEMMA EntryRemoved ==
  ASSUME Invariant, [Next]_vars, NEW c \in entries, c \notin entries'
  PROVE  files' = files /\ \E w \in Workers : pc[w] = "remove_entry" /\ ctx[w].cert = c
<1>1. ASSUME NEW w \in Workers, Step(w)
      PROVE  files' = files /\ pc[w] = "remove_entry" /\ ctx[w].cert = c
  BY <1>1 DEF Step, StoreCsr, AwaitExternalCa, UndoCsr, StoreSet, RecordImported, RecordLocal,
     UndoSet, DropCsr, FinishLocal, RemoveFiles, RemoveEntry, DeleteRow, Push, Verify,
     MarkVerified, MarkDeployed, NoteFailure, store
<1>2. ASSUME NEW w \in Workers, Request(w) PROVE entries' = entries
  BY <1>2 DEF Request, CreateCsr, CompleteCsr, ImportExisting, StartLocal, DeleteTerminalJob,
     IssueDirectly, DeleteStored, Deploy, store
<1> QED
  BY <1>1, <1>2 DEF Next, CreateJob, CancelJob, Crash, vars, store

\* A thread that stores a certificate goes on to, until it is recorded or its
\* files are gone again.
LEMMA StoringGoesOn ==
  ASSUME Invariant, [Next]_vars, NEW w \in Workers, pc[w] \in {"record", "undo"},
         NEW c, ctx[w].cert = c, c \in files'
  PROVE  \/ c \in entries' \/ Storing(c)' \/ c \in dropped'
<1> USE DEF Invariant, TypeOK
<1>1. CASE pc'[w] = pc[w] /\ ctx'[w] = ctx[w]
  BY <1>1 DEF Storing
<1>2. CASE Request(w)
  BY <1>2 DEF Request, CreateCsr, CompleteCsr, ImportExisting, StartLocal, DeleteTerminalJob,
     IssueDirectly, DeleteStored, Deploy, Enter
<1>3. CASE Step(w)
  <2>1. CASE RecordImported(w) \/ RecordLocal(w)
    <3>1. c \in entries' \/ (pc'[w] = "undo" /\ ctx'[w] = ctx[w])
      BY <2>1 DEF RecordImported, RecordLocal, Goto
    <3> QED
      BY <3>1 DEF Storing
  <2>2. CASE UndoSet(w)
    BY <2>2 DEF UndoSet
  <2> QED
    BY <1>3, <2>1, <2>2 DEF Step, StoreCsr, AwaitExternalCa, UndoCsr, StoreSet, DropCsr,
       FinishLocal, RemoveFiles, RemoveEntry, DeleteRow, Push, Verify, MarkVerified,
       MarkDeployed, NoteFailure
<1>4. CASE Crash
  <2>1. c \in Certificates /\ Storing(c)
    BY DEF Storing, ThreadsOK, ThreadOK
  <2> QED
    BY <1>4, <2>1 DEF Crash
<1>5. CASE \E v \in Workers : v # w /\ (Request(v) \/ Step(v))
  BY <1>1, <1>5, OthersStay
<1>6. CASE (\E j \in Jobs : CreateJob(j) \/ CancelJob(j)) \/ UNCHANGED vars
  BY <1>1, <1>6 DEF CreateJob, CancelJob, vars
<1> QED
  BY <1>2, <1>3, <1>4, <1>5, <1>6 DEF Next

\* Files without a row belong to a thread at work, or did when the process stopped.
LEMMA OrphansKept ==
  ASSUME Invariant, [Next]_vars PROVE NoOrphanFiles'
<1>1. ASSUME NEW c \in files', c \notin entries' PROVE Storing(c)' \/ c \in dropped'
  <2>1. CASE c \notin files
    BY <1>1, <2>1, FilesMade DEF Storing
  <2>2. CASE c \in files /\ c \in entries
    BY <1>1, <2>2, EntryRemoved DEF Invariant, Minting
  <2>3. CASE c \in files /\ c \notin entries /\ Storing(c)
    BY <1>1, <2>3, StoringGoesOn DEF Storing
  <2>4. CASE c \in dropped
    BY <2>4, HistoryGrows
  <2> QED
    BY <2>1, <2>2, <2>3, <2>4 DEF Invariant, NoOrphanFiles
<1> QED
  BY <1>1 DEF NoOrphanFiles

(***************************************************************************)
(* The theorems                                                            *)
(***************************************************************************)

\* Nothing is there at first.
LEMMA InvariantInit == Init => Invariant
<1> SUFFICES ASSUME Init PROVE Invariant
  OBVIOUS
<1>1. TypeOK /\ ThreadsOK
  <2>1. ThreadOK("idle", NoContext) /\ ReadOK("idle", NoContext)
    BY DEF ThreadOK, ReadOK, Labels, Context, NoContext
  <2>2. row \in [Jobs -> Row]
    BY DEF Init, Row, Missing, NoRow
  <2> QED
    BY <2>1, <2>2 DEF Init, TypeOK, ThreadsOK, ThreadOK
<1>2. KeysExternal /\ KeyHeld /\ AwaitingHasKey /\ IssuedRecorded /\ DeployedWasServed
  BY DEF Init, KeysExternal, KeyHeld, HoldsKey, AwaitingHasKey, IssuedRecorded,
     DeployedWasServed, Missing
<1>3. RowsOK
  BY DEF Init, RowsOK, CertificateLast, BlankRows, Marking, Deleting, Missing, NoRow
<1>4. Minting /\ NoOrphanFiles
  BY DEF Init, Minting, NoOrphanFiles
<1> QED
  BY <1>1, <1>2, <1>3, <1>4 DEF Invariant

\* Every step keeps it.
LEMMA InvariantStep == Invariant /\ [Next]_vars => Invariant'
BY TypesKept, RowsOKKept, CompletedKept, KeysKept, MintingKept, OrphansKept DEF Invariant

\* The inductive invariant holds in every state.
LEMMA InvariantHolds == Spec => []Invariant
BY InvariantInit, InvariantStep, PTL DEF Spec

\* Every variable keeps its type, and every thread has the locals its label needs.
THEOREM StoreTypeCorrect == Spec => []TypeOK
<1>1. Invariant => TypeOK
  BY DEF Invariant
<1> QED
  BY <1>1, InvariantHolds, PTL

\* A job that waits for its external CA has the private key of its CSR, however many
\* requests for one overtake each other and fail (create_csr_job, complete_csr_job); but
\* for a job whose own request failed after its transition had been committed.
THEOREM AwaitingKeepsKey == Spec => []AwaitingHasKey
<1>1. Invariant => AwaitingHasKey
  BY DEF Invariant
<1> QED
  BY <1>1, InvariantHolds, PTL

\* The row of the certificate a job names stays as long as the job does, whoever
\* deletes certificates meanwhile (delete_stored_certificate).
THEOREM IssuedStaysRecorded == Spec => []IssuedRecorded
<1>1. Invariant => IssuedRecorded
  BY DEF Invariant
<1> QED
  BY <1>1, InvariantHolds, PTL

\* A deployed job's own certificate has been seen on a device, also when other
\* deployments and a deletion of the job come in between (deploy_certificate).
THEOREM DeployedWasSeen == Spec => []DeployedWasServed
<1>1. Invariant => DeployedWasServed
  BY DEF Invariant
<1> QED
  BY <1>1, InvariantHolds, PTL

\* Files without a row belong to a request at work, did when the process stopped, or
\* could not be removed: every failure after create_certificate_set takes the files back
\* or fails to.
THEOREM FilesAreOwned == Spec => []NoOrphanFiles
<1>1. Invariant => NoOrphanFiles
  BY DEF Invariant
<1> QED
  BY <1>1, InvariantHolds, PTL

\* RenewalStates and JobTable mean the same states and transitions.
LEMMA TableStates ==
  /\ States = Table!States /\ Deletable = Table!Deletable
  /\ \A s, t : ValidTransition(s, t) <=> Table!ValidTransition(s, t)
BY DEF States, Table!States, Deletable, Table!Deletable, ValidTransition,
   Table!ValidTransition, AllowedTransitions, Table!AllowedTransitions

\* Imports, issuing, deployments, cancellations and deletions implement JobTable.
THEOREM StoreImplementsTable == Spec => ImplementsTable
<1>1. Init => Table!Init
  BY DEF Init, Table!Init, Missing, Table!Missing
<1>2. ASSUME Invariant, [Next]_vars PROVE [Table!Next]_row
  <2>0. RowEffect /\ row \in [Jobs -> Row]
    BY <1>2, NextRow DEF Invariant, TypeOK
  <2>1. ASSUME NEW j \in Jobs, row[j].state = "absent",
               row' = [row EXCEPT ![j] = Missing("draft")]
        PROVE  Table!Next
    BY <2>1 DEF Missing, Table!Missing, Table!Insert, Table!Next
  <2>2. ASSUME NEW j \in Jobs, NEW s \in States, NEW c \in Certificates \cup {NoCertificate},
               Update(j, s, c)
        PROVE  Table!Next
    <3>1. CASE ValidTransition(row[j].state, s)
      <4>1. Table!Move(j, s, c)
        BY <2>2, <3>1, TableStates DEF Update, SetRow, Table!Move
      <4> QED
        BY <4>1, TableStates DEF Table!Next
    <3>2. CASE row[j].state = s /\ s = "deployment_pending"
      <4>1. row[j].cert = c
        <5>1. c \in entries'
          BY <2>2, <3>2 DEF Update, Completed
        <5>2. row[j].cert \in entries
          BY <1>2, <3>2 DEF Invariant, IssuedRecorded
        <5> QED
          BY <1>2, <2>2, <5>2, CertificateAssumption DEF Update, Invariant, TypeOK
      <4>2. row' = [row EXCEPT ![j].version = @ + 1]
        BY <2>0, <2>2, <3>2, <4>1 DEF Update, SetRow, Row
      <4>3. Table!Touch(j)
        BY <3>2, <4>2 DEF Table!Touch
      <4> QED
        BY <4>3 DEF Table!Next
    <3> QED
      BY <2>2, <3>1, <3>2 DEF Update
  <2>3. ASSUME NEW w \in Workers, pc[w] = "delete_job",
               row' = [row EXCEPT ![ctx[w].job] = Missing("deleted")]
        PROVE  [Table!Next]_row
    <3> DEFINE j == ctx[w].job
    <3>1. j \in Jobs /\ Deleting(w)
      BY <1>2, <2>3 DEF Invariant, ThreadsOK, ThreadOK, RowsOK
    <3>2. CASE row[j].state = "deleted"
      <4>1. row[j] = Missing("deleted")
        BY <1>2, <3>1, <3>2 DEF Invariant, RowsOK, BlankRows, NoRow
      <4> QED
        BY <2>0, <2>3, <4>1
    <3>3. CASE row[j].state # "deleted"
      <4>1. Table!Remove(j)
        BY <2>3, <3>1, <3>3, TableStates DEF Deleting, Missing, Table!Missing, Table!Remove
      <4> QED
        BY <3>1, <4>1 DEF Table!Next
    <3> QED
      BY <3>2, <3>3
  <2> QED
    BY <2>0, <2>1, <2>2, <2>3 DEF RowEffect
<1> QED
  BY <1>1, <1>2, InvariantHolds, PTL DEF Spec, ImplementsTable, Table!Spec

\* What becomes of a row that was once x: it is still x, or has a later version and the
\* certificate x had, or it is deleted.
Follows(j, x) ==
  \/ row[j].state = "deleted"
  \/ /\ row[j].state \in States
     /\ row[j] = x \/ row[j].version > x.version
     /\ x.cert # NoCertificate => row[j].cert = x.cert

\* JobTable keeps to that.
LEMMA TableFollows ==
  ASSUME row \in [Jobs -> Row], [Table!Next]_row, NEW j \in Jobs, NEW x \in Row, Follows(j, x)
  PROVE  Follows(j, x)'
<1>1. row[j] \in Row /\ row[j].version \in Nat /\ x.version \in Nat
  BY DEF Row
<1>2. "absent" \notin States /\ "deleted" \notin States
  BY DEF States
<1>3. CASE row'[j] = row[j]
  BY <1>3 DEF Follows
<1>4. ASSUME NEW i \in Jobs, Table!Insert(i) PROVE row'[j] = row[j]
  BY <1>2, <1>4 DEF Table!Insert, Follows
<1>5. ASSUME NEW i \in Jobs, NEW s \in States, NEW c, Table!Move(i, s, c) PROVE Follows(j, x)'
  <2>1. CASE i # j
    <3>1. row'[j] = row[j]
      BY <1>5, <2>1 DEF Table!Move
    <3> QED
      BY <1>3, <3>1
  <2>2. CASE i = j
    <3>1. row'[j] = [state |-> s, version |-> row[j].version + 1, cert |-> c]
      BY <1>5, <2>2 DEF Table!Move
    <3>2. row[j].cert \in {NoCertificate, c} /\ row[j].state # "deleted"
      BY <1>2, <1>5, <2>2, TableStates DEF Table!Move, Table!ValidTransition
    <3>3. row'[j].state = s /\ row'[j].version = row[j].version + 1 /\ row'[j].cert = c
      BY <3>1
    <3> QED
      BY <1>1, <3>2, <3>3 DEF Follows
  <2> QED
    BY <2>1, <2>2
<1>6. ASSUME NEW i \in Jobs, Table!Touch(i) PROVE Follows(j, x)'
  <2>1. CASE i # j
    <3>1. row'[j] = row[j]
      BY <1>6, <2>1 DEF Table!Touch
    <3> QED
      BY <1>3, <3>1
  <2>2. CASE i = j
    <3>1. row'[j] = [row[j] EXCEPT !.version = @ + 1] /\ row[j].state = "deployment_pending"
      BY <1>6, <2>2 DEF Table!Touch
    <3>2. /\ row'[j].state = row[j].state /\ row'[j].version = row[j].version + 1
          /\ row'[j].cert = row[j].cert
      BY ONLY <1>1, <3>1 DEF Row
    <3> QED
      BY <1>1, <3>1, <3>2 DEF Follows
  <2> QED
    BY <2>1, <2>2
<1>7. ASSUME NEW i \in Jobs, Table!Remove(i) PROVE row'[j] = row[j] \/ row'[j].state = "deleted"
  BY <1>7 DEF Table!Remove, Table!Missing
<1> QED
  BY <1>3, <1>4, <1>5, <1>6, <1>7, TableStates DEF Table!Next, Follows

\* A version names one state of a job for good: a row that is later found with the version that was
\* read is the row that was read, which is what _update_job and transition_job compare versions for;
\* and a certificate, once attached, is never exchanged, through deployments and their repetitions.
THEOREM VersionsAreFinal ==
  ASSUME NEW j \in Jobs, NEW x \in Row, x.state \in States
  PROVE  Spec => [](row[j] = x => []Follows(j, x))
<1>1. row[j] = x => Follows(j, x)
  BY DEF Follows
<1>2. row \in [Jobs -> Row] /\ Follows(j, x) /\ [Table!Next]_row => Follows(j, x)'
  BY TableFollows
<1>3. TypeOK => row \in [Jobs -> Row]
  BY DEF TypeOK
<1>4. Spec => [][Table!Next]_row
  BY StoreImplementsTable, PTL DEF ImplementsTable, Table!Spec
<1> QED
  BY <1>1, <1>2, <1>3, <1>4, StoreTypeCorrect, PTL

=============================================================================

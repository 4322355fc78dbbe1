-------------------------- MODULE AcmeRecordsProofs --------------------------
(***************************************************************************)
(* What becomes of the TXT records of an ACME renewal when requests on one  *)
(* job do not overlap, for every set of jobs, orders and threads: a job that*)
(* has come to an end has left none behind.  Requests on different jobs may *)
(* overlap in any way; a DNS provider may refuse a DELETE or break off, and *)
(* an answer of the ACME server may be lost.  And what becomes of a job in  *)
(* flight: it comes to rest.                                               *)
(***************************************************************************)
EXTENDS AcmeRenewalProofs

\* Requests on one job do not overlap; those on different jobs may, step by step.
Apart ==
  \A v, w \in Workers :
    pc[v] # "idle" /\ pc[w] # "idle" /\ ctx[v].job = ctx[w].job => v = w

\* With one thread no requests overlap at all.
OneThread == \A v, w \in Workers : v = w

\* The faults that leave a record nobody knows of do not happen: the process does not
\* stop, present does not fail halfway, and no write fails between presenting the records
\* and recording them and the state awaiting_dns.
NoLeaks == Faults \cap {"crash", "present_leaks", "unrecorded"} = {}

\* The records of a job that are live.
Left(j) == placed[j] \cap zone

\* A record is never live before its order is placed, and never another job's.
OwnRecords ==
  /\ \A j \in Jobs : presented[j] \in placed[j] \cup {NoOrder}
  /\ \A o \in zone : status[o] # "unused"
  /\ \A w \in Workers : pc[w] \in {"present", "tag"} => ctx[w].rec \in placed[ctx[w].job]

\* Between two requests only a job that shows it has live records: one in
\* cleanup_required, or one left on the way by a request that failed.
Unmarked(j) ==
  Left(j) = {} \/ row[j].state \in {"awaiting_dns", "validating", "issuing", "cleanup_required"}
Resting(j) == Left(j) \subseteq {presented[j]} /\ Unmarked(j)

\* The labels at which nothing of the job is live: not yet, or not any more.
Removed(label, c) ==
  \/ label \in {"ensure_key", "create_order", "present", "svc_cancel", "retarget", "delete",
                "untag", "prove"}
  \/ label \in {"drop_key", "mark_issued", "finish", "reread", "fail"} /\ ~c.errors

\* The labels at which the thread has the record that is live.
Knowing == {"await", "validate", "answer", "poll", "polling", "issue", "finalize", "store",
            "cleanup", "handle", "cancel_cleanup", "retry"}

Recorded(label, c) ==
  /\ Left(c.job) \subseteq {IF label = "tag" THEN c.rec ELSE presented[c.job]}
  /\ Removed(label, c) => Left(c.job) = {}
  /\ label \in {"cancel_cleanup", "mark_cancelled", "require_cleanup", "retry"} => Unmarked(c.job)
  /\ label \in Knowing => c.rec = presented[c.job]

\* The labels up to the end of the issuance and of its failure: a thread that is
\* alone has read the row as it is, so that its transitions are accepted.
Issuing == {"finalize", "store", "cleanup", "drop_key", "mark_issued", "finish"}
Following(label, c) ==
  LET r == row[c.job] IN
  /\ label \in {"ensure_key"} \cup Starting => r.state = "draft" /\ c.state = "draft"
  /\ label = "validate" => r.state = "awaiting_dns"
  /\ label \in {"answer", "poll", "polling", "issue"} => r.state = "validating"
  /\ label \in Issuing => r.state = "issuing"
  /\ label \in {"handle", "reread", "fail"} => r.state \in {"validating", "issuing"}
  /\ label = "fail" => c.state = r.state
  /\ label \in {"ensure_key", "validate", "fail"} \cup Starting \cup Asking \cup Issuing =>
       c.version = r.version

\* What holds of the thread while it works on a job whose records it can remove.
Orderly(label, c) ==
  label # "idle" /\ c.job \in CloudflareJobs => Recorded(label, c) /\ Following(label, c)

Records ==
  /\ mode = "serving"
  /\ \A w \in Workers : Orderly(pc[w], ctx[w])
  /\ \A j \in CloudflareJobs : ~Busy(j) => Resting(j)

RecordsInvariant == Invariant /\ OwnRecords /\ Records

-----------------------------------------------------------------------------
(* Records belong to the job of their order.                               *)

\* Before the first request there are none.
LEMMA OwnRecordsInit == Init => OwnRecords
BY DEF Init, OwnRecords

\* A request of any kind takes its record from its order, and an order is used from
\* then on.
LEMMA OwnRecordsStep ==
  ASSUME Invariant, OwnRecords, NEW w \in Workers, Step(w) PROVE OwnRecords'
<1> USE DEF Invariant, TypeOK, OwnOrders, settings, artifacts, world, process
<1> DEFINE j == ctx[w].job
<1>0. /\ pc[w] # "idle" /\ j \in Jobs
      /\ \A v \in Workers \ {w} : pc'[v] = pc[v] /\ ctx'[v] = ctx[v]
  BY StepFlow, ThreadJob DEF Flow
<1>1. CASE CreateOrder(w)
  <2>1. PICK o \in Orders :
          /\ status[o] = "unused"
          /\ status' = [status EXCEPT ![o] = "pending"]
          /\ placed' = [placed EXCEPT ![j] = @ \cup {o}]
          /\ ctx' = [ctx EXCEPT ![w].rec = o]
    BY <1>1 DEF CreateOrder
  <2>2. ctx'[w].rec = o /\ ctx'[w].job = j
    BY <2>1 DEF Threads, Context
  <2> QED
    BY <1>0, <1>1, <2>1, <2>2 DEF CreateOrder, OwnRecords
<1>2. CASE Present(w) \/ PresentLeaks(w)
  <2>1. ctx[w].rec \in placed[j] /\ status[ctx[w].rec] # "unused"
    BY <1>0, <1>2 DEF Present, PresentLeaks, OwnRecords
  <2>2. /\ zone' \subseteq zone \cup {ctx[w].rec}
        /\ UNCHANGED <<presented, placed, status>>
        /\ pc'[w] \in {"present", "tag"} => ctx' = ctx
    BY <1>2 DEF Present, PresentLeaks, Goto, Return, Threads
  <2> QED
    BY <1>0, <1>2, <2>1, <2>2 DEF OwnRecords, Present
<1>3. CASE TagRecords(w) \/ Untag(w)
  <2>1. \/ presented' = [presented EXCEPT ![j] = ctx[w].rec] /\ pc[w] = "tag"
        \/ presented' = [presented EXCEPT ![j] = NoOrder]
    BY <1>3 DEF TagRecords, Untag
  <2>2. UNCHANGED <<zone, placed, status>> /\ pc'[w] \notin {"present", "tag"}
    BY <1>3 DEF TagRecords, Untag, Goto, Return, Threads
  <2> QED
    BY <1>0, <2>1, <2>2 DEF OwnRecords
<1>4. CASE AnswerChallenges(w) \/ Finalize(w)
  <2>1. /\ UNCHANGED <<zone, placed, presented>> /\ pc'[w] \notin {"present", "tag"}
        /\ \A o \in Orders : status'[o] = "unused" => status[o] = "unused"
    BY <1>4 DEF AnswerChallenges, Finalize, Goto, Threads
  <2> QED
    BY <1>0, <2>1 DEF OwnRecords
<1>5. CASE CleanupRecords(w) \/ HandleFailure(w) \/ CancelCleanup(w) \/ RetryRemove(w)
  <2>1. /\ UNCHANGED <<placed, presented, status>> /\ pc'[w] \notin {"present", "tag"}
        /\ zone' \subseteq zone
    BY <1>5 DEF CleanupRecords, HandleFailure, CancelCleanup, RetryRemove, Cleanup, Goto, Return, Threads
  <2> QED
    BY <1>0, <2>1 DEF OwnRecords
<1>6. CASE \/ EnsurePendingKey(w) \/ Abort(w) \/ AwaitDns(w) \/ BeginValidating(w) \/ PollOrder(w)
           \/ PollReady(w) \/ BeginIssuing(w) \/ StoreCertificate(w) \/ CompletionFails(w)
           \/ DropPendingKey(w) \/ DropKeyRaises(w) \/ MarkIssued(w) \/ FinishIssuing(w)
           \/ ProveStaging(w) \/ Reread(w) \/ FailJob(w) \/ Conflict(w) \/ Unread(w)
           \/ MarkCancelled(w) \/ RequireCleanup(w) \/ ServiceCancel(w) \/ Retarget(w) \/ DeleteRow(w)
  <2>1. UNCHANGED <<zone, placed, presented, status>>
    BY <1>6 DEF EnsurePendingKey, Abort, AwaitDns, BeginValidating, PollOrder, PollReady,
       BeginIssuing, StoreCertificate, CompletionFails, DropPendingKey, DropKeyRaises, MarkIssued,
       FinishIssuing, ProveStaging, Reread, FailJob, Conflict, Unread, MarkCancelled,
       RequireCleanup, ServiceCancel, Retarget, DeleteRow
  <2>2. pc'[w] \notin {"present", "tag"}
    <3>0. pc \in [Workers -> Labels]
      BY DEF Threads
    <3>1. CASE \/ EnsurePendingKey(w) \/ Abort(w) \/ AwaitDns(w) \/ BeginValidating(w)
               \/ PollOrder(w) \/ PollReady(w) \/ BeginIssuing(w) \/ StoreCertificate(w)
      BY ONLY <3>0, <3>1, w \in Workers DEF EnsurePendingKey, Abort, AwaitDns, BeginValidating,
         PollOrder, PollReady, BeginIssuing, StoreCertificate, Goto, Return, Advance
    <3>2. CASE \/ CompletionFails(w) \/ DropPendingKey(w) \/ DropKeyRaises(w) \/ MarkIssued(w)
               \/ FinishIssuing(w) \/ ProveStaging(w) \/ Reread(w) \/ FailJob(w)
      BY ONLY <3>0, <3>2, w \in Workers DEF CompletionFails, DropPendingKey, DropKeyRaises,
         MarkIssued, FinishIssuing, ProveStaging, Reread, FailJob, Goto, Return
    <3>3. CASE \/ Conflict(w) \/ Unread(w) \/ MarkCancelled(w) \/ RequireCleanup(w)
               \/ ServiceCancel(w) \/ Retarget(w) \/ DeleteRow(w)
      BY ONLY <3>0, <3>3, w \in Workers DEF Conflict, Unread, MarkCancelled, RequireCleanup,
         ServiceCancel, Retarget, DeleteRow, Goto, Return
    <3> QED
      BY <1>6, <3>1, <3>2, <3>3
  <2> QED
    BY <1>0, <2>1, <2>2 DEF OwnRecords
<1> QED
  BY <1>1, <1>2, <1>3, <1>4, <1>5, <1>6 DEF Step

\* Every step keeps records with their jobs.
LEMMA OwnRecordsNext ==
  ASSUME Invariant, OwnRecords, [Next]_vars PROVE OwnRecords'
<1> USE DEF Invariant, TypeOK, OwnOrders, settings, artifacts, world, process
<1>1. ASSUME NEW w \in Workers, Request(w) PROVE OwnRecords'
  <2>1. /\ UNCHANGED <<presented, placed, zone, status>>
        /\ \A v \in Workers \ {w} : pc'[v] = pc[v] /\ ctx'[v] = ctx[v]
        /\ pc'[w] \notin {"present", "tag"}
    BY <1>1, RequestEntry DEF Entry, Request, StartAcme, ContinueManualDns, CancelAcme, RetryCleanup,
       DeleteTerminalJob
  <2> QED
    BY <2>1 DEF OwnRecords
<1>2. CASE System
  <2>1. /\ UNCHANGED <<presented, placed>>
        /\ \A w \in Workers : pc'[w] \in {"present", "tag"} => pc'[w] = pc[w] /\ ctx'[w] = ctx[w]
        /\ \A o \in Orders : status'[o] = "unused" => status[o] = "unused"
    BY <1>2, SystemThreads, SystemBooks DEF System, CreateJob, Crash, Recovery, RecoverJob,
       RecoveryRaises, Serve, Outside, ServerValidates, UserPublishes
  <2>2. \/ zone' = zone
        \/ \E j \in Jobs : presented[j] \in Orders /\ zone' = zone \cup {presented[j]}
    BY <1>2 DEF System, CreateJob, Crash, Recovery, RecoverJob, RecoveryRaises, Serve, Outside,
       ServerValidates, UserPublishes
  <2>3. \A o \in zone' : o \in Orders /\ status[o] # "unused"
    BY <2>2, OrderAssumption DEF OwnRecords
  <2> QED
    BY <2>1, <2>3 DEF OwnRecords
<1>3. CASE UNCHANGED vars
  BY <1>3 DEF vars, OwnRecords
<1> QED
  BY <1>1, <1>2, <1>3, OwnRecordsStep DEF Next, System

-----------------------------------------------------------------------------
(* The thread that has a job to itself.                                    *)

\* What a step does that is about job j: other jobs keep their rows, and no record
\* of theirs appears.
About(j) ==
  \A k \in Jobs \ {j} : /\ row'[k] = row[k] /\ presented'[k] = presented[k]
                        /\ Left(k)' \subseteq Left(k)

\* A step of this thread, which has its job to itself.
Lone(w) ==
  /\ Apart /\ Apart'
  /\ \A v \in Workers \ {w} : pc'[v] = pc[v] /\ ctx'[v] = ctx[v]

\* The thread was free or on job j, and it is now: no other is, so what the others know of
\* their jobs stays true.
LEMMA LoneStep ==
  ASSUME TypeOK, TypeOK', Records, NEW w \in Workers, Lone(w), NEW j \in Jobs, About(j), mode' = mode,
         pc[w] # "idle" => ctx[w].job = j,
         pc'[w] # "idle" => ctx'[w].job = j /\ Orderly(pc[w], ctx[w])',
         pc[w] # "idle" \/ pc'[w] # "idle",
         pc'[w] = "idle" /\ j \in CloudflareJobs => Resting(j)'
  PROVE  Records'
<1>1. ASSUME NEW v \in Workers \ {w}, pc[v] # "idle"
      PROVE  /\ pc'[v] = pc[v] /\ ctx'[v] = ctx[v]
             /\ ctx[v].job \in Jobs \ {j}
  <2>1. pc'[v] = pc[v] /\ ctx'[v] = ctx[v] /\ ctx[v].job \in Jobs
    BY <1>1, ThreadJob DEF Lone
  <2>2. CASE pc[w] # "idle"
    BY <1>1, <2>1, <2>2 DEF Lone, Apart
  <2>3. CASE pc'[w] # "idle"
    BY <1>1, <2>1, <2>3 DEF Lone, Apart
  <2> QED
    BY <2>1, <2>2, <2>3
<1>2. ASSUME NEW v \in Workers PROVE Orderly(pc[v], ctx[v])'
  <2>1. CASE v = w
    BY <2>1 DEF Orderly
  <2>2. CASE v # w
    <3>1. SUFFICES ASSUME pc[v] # "idle", ctx[v].job \in CloudflareJobs
                   PROVE  (Recorded(pc[v], ctx[v]) /\ Following(pc[v], ctx[v]))'
      BY <2>2 DEF Orderly, Lone
    <3>2. pc'[v] = pc[v] /\ ctx'[v] = ctx[v]
      BY <1>1, <2>2, <3>1
    <3>3. PICK k \in Jobs \ {j} : k = ctx[v].job
      BY <1>1, <2>2, <3>1
    <3>4. row'[k] = row[k] /\ presented'[k] = presented[k] /\ Left(k)' \subseteq Left(k)
      BY <3>3 DEF About
    <3>5. Recorded(pc[v], ctx[v]) /\ Following(pc[v], ctx[v])
      BY <3>1 DEF Records, Orderly
    <3>6. Recorded(pc[v], ctx[v])'
      BY <3>2, <3>3, <3>4, <3>5 DEF Recorded, Removed, Unmarked
    <3>7. Following(pc[v], ctx[v])'
      BY <3>2, <3>3, <3>4, <3>5 DEF Following
    <3> QED
      BY <3>6, <3>7
  <2> QED
    BY <2>1, <2>2
<1>3. ASSUME NEW k \in CloudflareJobs, ~Busy(k)' PROVE Resting(k)'
  <2>1. CASE k = j
    BY <1>3, <2>1 DEF Busy
  <2>2. CASE k # j
    <3>1. ~Busy(k)
      BY <1>1, <1>3, <2>2 DEF Busy
    <3>2. Resting(k) /\ k \in Jobs
      BY <3>1, JobAssumption DEF Records
    <3> QED
      BY <2>2, <3>2 DEF About, Resting, Unmarked
  <2> QED
    BY <2>1, <2>2
<1> QED
  BY <1>2, <1>3 DEF Records

\* A step that changes neither a row nor a record, and only goes on.
LEMMA QuietStep ==
  ASSUME TypeOK, TypeOK', Records, NEW w \in Workers, Lone(w), pc[w] # "idle",
         UNCHANGED <<row, presented, zone, placed, mode>>,
         /\ ctx'[w].job = ctx[w].job /\ ctx'[w].rec = ctx[w].rec /\ ctx'[w].state = ctx[w].state
         /\ ctx'[w].version = ctx[w].version /\ ctx'[w].errors = ctx[w].errors,
         \/ pc[w] = "ensure_key" /\ pc'[w] = "create_order"
         \/ pc[w] = "answer" /\ pc'[w] = "poll"
         \/ pc[w] = "poll" /\ pc'[w] = "polling"
         \/ pc[w] = "polling" /\ pc'[w] = "issue"
         \/ pc[w] = "finalize" /\ pc'[w] = "store"
         \/ pc[w] = "store" /\ pc'[w] = "cleanup"
         \/ pc[w] \in {"answer", "poll", "polling", "issue", "finalize", "store"}
            /\ pc'[w] = "handle"
         \/ pc[w] = "drop_key" /\ pc'[w] \in {"mark_issued", "finish"}
         \/ pc[w] = "mark_issued" /\ pc'[w] = "finish"
         \/ pc[w] = "mark_cancelled" /\ pc'[w] = "require_cleanup"
  PROVE  Records'
<1>1. PICK j \in Jobs : j = ctx[w].job
  BY ThreadJob
<1>2. About(j)
  BY DEF About, Left
<1>3. Orderly(pc[w], ctx[w])'
  <2>1. SUFFICES ASSUME j \in CloudflareJobs PROVE (Recorded(pc[w], ctx[w]) /\ Following(pc[w], ctx[w]))'
    BY <1>1 DEF Orderly
  <2>2. Recorded(pc[w], ctx[w]) /\ Following(pc[w], ctx[w])
    BY <1>1, <2>1 DEF Records, Orderly
  <2>3. Left(j)' = Left(j)
    BY DEF Left
  <2>4. Recorded(pc[w], ctx[w])'
    BY <1>1, <2>2, <2>3 DEF Recorded, Removed, Unmarked, Knowing
  <2>5. Following(pc[w], ctx[w])'
    BY <1>1, <2>2 DEF Following, Starting, Asking, Issuing
  <2> QED
    BY <2>4, <2>5
<1> QED
  BY <1>1, <1>2, <1>3, LoneStep

\* The steps of a request that leave rows and records alone.
LEMMA QuietActs ==
  ASSUME TypeOK, TypeOK', Records, NEW w \in Workers, Lone(w),
         \/ EnsurePendingKey(w) \/ AnswerChallenges(w) \/ PollOrder(w) \/ PollReady(w)
         \/ Finalize(w) \/ StoreCertificate(w) \/ CompletionFails(w) \/ DropPendingKey(w)
         \/ MarkIssued(w) \/ MarkCancelled(w)
  PROVE  Records'
<1> USE DEF settings, artifacts, world, process, Goto
<1>0. /\ pc \in [Workers -> Labels] /\ ctx \in [Workers -> Context] /\ ctx[w] \in Context
      /\ pc[w] # "idle"
  BY DEF TypeOK, Threads, EnsurePendingKey, AnswerChallenges, PollOrder, PollReady, Finalize,
     StoreCertificate, CompletionFails, DropPendingKey, MarkIssued, MarkCancelled
<1>1. UNCHANGED <<row, presented, zone, placed, mode>>
  BY DEF EnsurePendingKey, AnswerChallenges, PollOrder, PollReady, Finalize,
     StoreCertificate, CompletionFails, DropPendingKey, MarkIssued, MarkCancelled
<1>2. /\ ctx'[w].job = ctx[w].job /\ ctx'[w].rec = ctx[w].rec /\ ctx'[w].state = ctx[w].state
      /\ ctx'[w].version = ctx[w].version /\ ctx'[w].errors = ctx[w].errors
  <2>1. ctx' = ctx \/ \E o : ctx' = [ctx EXCEPT ![w] = [ctx[w] EXCEPT !.ord = o]]
    BY DEF EnsurePendingKey, AnswerChallenges, PollOrder, PollReady, Finalize,
       StoreCertificate, CompletionFails, DropPendingKey, MarkIssued, MarkCancelled
  <2> QED
    BY <1>0, <2>1 DEF Context
<1>3. CASE EnsurePendingKey(w) \/ AnswerChallenges(w) \/ PollOrder(w) \/ PollReady(w)
  <2>1. \/ pc[w] = "ensure_key" /\ pc'[w] = "create_order"
        \/ pc[w] = "answer" /\ pc'[w] = "poll"
        \/ pc[w] = "poll" /\ pc'[w] = "polling"
        \/ pc[w] = "polling" /\ pc'[w] = "issue"
    BY <1>0, <1>3 DEF EnsurePendingKey, AnswerChallenges, PollOrder, PollReady
  <2> QED
    BY <1>0, <1>1, <1>2, <2>1, QuietStep
<1>4. CASE Finalize(w) \/ StoreCertificate(w) \/ CompletionFails(w)
  <2>1. \/ pc[w] = "finalize" /\ pc'[w] = "store"
        \/ pc[w] = "store" /\ pc'[w] = "cleanup"
        \/ pc[w] \in {"answer", "poll", "polling", "issue", "finalize", "store"}
           /\ pc'[w] = "handle"
    BY <1>0, <1>4 DEF Finalize, StoreCertificate, CompletionFails
  <2> QED
    BY <1>0, <1>1, <1>2, <2>1, QuietStep
<1>5. CASE DropPendingKey(w) \/ MarkIssued(w) \/ MarkCancelled(w)
  <2>1. \/ pc[w] = "drop_key" /\ pc'[w] \in {"mark_issued", "finish"}
        \/ pc[w] = "mark_issued" /\ pc'[w] = "finish"
        \/ pc[w] = "mark_cancelled" /\ pc'[w] = "require_cleanup"
    BY <1>0, <1>5 DEF DropPendingKey, MarkIssued, MarkCancelled
  <2> QED
    BY <1>0, <1>1, <1>2, <2>1, QuietStep
<1> QED
  BY <1>3, <1>4, <1>5

\* What the thread knows of a job whose records it can remove.
LEMMA Knows ==
  ASSUME Records, NEW w \in Workers, pc[w] # "idle", ctx[w].job \in CloudflareJobs
  PROVE  Recorded(pc[w], ctx[w]) /\ Following(pc[w], ctx[w])
BY DEF Records, Orderly

\* The edges a completion takes are in the table.
LEMMA CompletionEdges ==
  /\ ValidTransition("draft", "awaiting_dns") /\ ValidTransition("awaiting_dns", "validating")
  /\ ValidTransition("validating", "issuing")
  /\ \A t \in {"issued", "cleanup_required"} : ValidTransition("issuing", t)
  /\ \A s \in {"validating", "issuing"}, t \in {"failed", "cleanup_required"} : ValidTransition(s, t)
BY DEF ValidTransition, AllowedTransitions, States

\* A row that is written again is the row of this job only.
LEMMA RowWritten ==
  ASSUME TypeOK, NEW j \in Jobs, NEW to, NEW cert, SetRow(j, to, cert),
         UNCHANGED <<presented, zone, placed>>
  PROVE  /\ About(j) /\ Left(j)' = Left(j)
         /\ row'[j].state = to /\ row'[j].version = row[j].version + 1
BY DEF SetRow, TypeOK, About, Left

\* The transitions on the way to the certificate.
LEMMA AdvanceActs ==
  ASSUME TypeOK, TypeOK', Records, NEW w \in Workers, Lone(w),
         AwaitDns(w) \/ BeginValidating(w) \/ BeginIssuing(w)
  PROVE  Records'
<1> USE DEF settings, artifacts, world, process
<1>1. PICK j \in Jobs : j = ctx[w].job
  BY ThreadJob DEF AwaitDns, BeginValidating, BeginIssuing
<1>2. /\ UNCHANGED <<presented, zone, placed, mode>> /\ pc[w] # "idle"
      /\ \E to : SetRow(j, to, row[j].cert)
  BY <1>1 DEF AwaitDns, BeginValidating, BeginIssuing, Advance
<1>3. About(j) /\ Left(j)' = Left(j)
  BY <1>2, RowWritten
<1>4. CASE j \notin CloudflareJobs
  <2>1. pc'[w] # "idle" => ctx'[w].job = j
    BY <1>1, <1>4 DEF AwaitDns, BeginValidating, BeginIssuing, Advance, Goto, Return, TypeOK,
       Threads, Context
  <2> QED
    BY <1>1, <1>2, <1>3, <1>4, <2>1, LoneStep DEF Orderly
<1>5. CASE j \in CloudflareJobs
  <2>1. Recorded(pc[w], ctx[w]) /\ Following(pc[w], ctx[w])
    BY <1>1, <1>2, <1>5, Knows
  <2>2. \/ pc[w] = "await" /\ Advance(w, "draft", "awaiting_dns", "validate")
        \/ pc[w] = "validate" /\ Advance(w, "awaiting_dns", "validating", "answer")
        \/ pc[w] = "issue" /\ Advance(w, "validating", "issuing", "finalize")
    BY <1>1, <1>5 DEF AwaitDns, BeginValidating, BeginIssuing
  <2>3. \/ pc[w] = "await" /\ pc'[w] = "validate" /\ SetRow(j, "awaiting_dns", row[j].cert)
        \/ pc[w] = "validate" /\ pc'[w] = "answer" /\ SetRow(j, "validating", row[j].cert)
        \/ pc[w] = "issue" /\ pc'[w] = "finalize" /\ SetRow(j, "issuing", row[j].cert)
    BY <1>1, <2>2 DEF Advance, Goto, TypeOK, Threads
  <2>4. /\ \/ pc[w] = "await" /\ pc'[w] = "validate" /\ row'[j].state = "awaiting_dns"
           \/ pc[w] = "validate" /\ pc'[w] = "answer" /\ row'[j].state = "validating"
           \/ pc[w] = "issue" /\ pc'[w] = "finalize" /\ row'[j].state = "issuing"
        /\ row'[j].version = row[j].version + 1
    BY <1>2, <2>3 DEF SetRow, TypeOK
  <2>5. ctx'[w].job = j /\ ctx'[w].rec = ctx[w].rec /\ ctx'[w].version = ctx[w].version + 1
    <3>1. PICK to : ctx' = [ctx EXCEPT ![w].state = to, ![w].version = @ + 1]
      BY <2>2 DEF Advance
    <3>2. ctx \in [Workers -> Context]
      BY DEF TypeOK, Threads
    <3>3. ctx'[w] = [ctx[w] EXCEPT !.state = to, !.version = ctx[w].version + 1]
      BY ONLY <3>1, <3>2 DEF Context
    <3> QED
      BY ONLY <1>1, <3>2, <3>3 DEF Context
  <2>6. ctx[w].version = row[j].version
    BY <1>1, <2>1, <2>4 DEF Following, Starting, Asking
  <2>7. Following(pc[w], ctx[w])'
    BY <2>4, <2>5, <2>6 DEF Following, Starting, Asking, Issuing
  <2>8. Recorded(pc[w], ctx[w])'
    BY <1>1, <1>2, <1>3, <2>1, <2>4, <2>5 DEF Recorded, Removed, Knowing
  <2> QED
    BY <1>1, <1>2, <1>3, <2>4, <2>5, <2>7, <2>8, LoneStep DEF Orderly
<1> QED
  BY <1>4, <1>5

\* An order that is new has no record yet.
LEMMA CreateOrderAct ==
  ASSUME TypeOK, TypeOK', OwnRecords, Records, NEW w \in Workers, Lone(w), CreateOrder(w)
  PROVE  Records'
<1> USE DEF settings, artifacts, world, process
<1>1. PICK j \in Jobs : j = ctx[w].job
  BY ThreadJob DEF CreateOrder
<1>2. PICK o \in Orders :
        /\ status[o] = "unused"
        /\ placed' = [placed EXCEPT ![j] = @ \cup {o}]
        /\ ctx' = [ctx EXCEPT ![w].rec = o]
  BY <1>1 DEF CreateOrder
<1>3. /\ pc[w] = "create_order" /\ pc'[w] = "present"
      /\ UNCHANGED <<row, presented, zone, mode>>
  BY DEF CreateOrder, Goto, TypeOK, Threads
<1>4. o \notin zone
  BY <1>2 DEF OwnRecords
<1>5. Left(j)' = Left(j) /\ About(j)
  BY <1>2, <1>3, <1>4 DEF Left, About, TypeOK
<1>6. /\ ctx'[w].job = j /\ ctx'[w].state = ctx[w].state /\ ctx'[w].version = ctx[w].version
      /\ ctx'[w].errors = ctx[w].errors
  <2>1. ctx'[w] = [ctx[w] EXCEPT !.rec = o] /\ ctx[w] \in Context
    BY <1>2 DEF TypeOK, Threads
  <2> QED
    BY ONLY <1>1, <2>1 DEF Context
<1>7. Orderly(pc[w], ctx[w])'
  <2>1. SUFFICES ASSUME j \in CloudflareJobs PROVE (Recorded(pc[w], ctx[w]) /\ Following(pc[w], ctx[w]))'
    BY <1>6 DEF Orderly
  <2>2. Recorded(pc[w], ctx[w]) /\ Following(pc[w], ctx[w])
    BY <1>1, <1>3, <2>1, Knows
  <2>3. Left(j) = {}
    BY <1>1, <1>3, <2>2 DEF Recorded, Removed
  <2>4. Recorded(pc[w], ctx[w])'
    BY <1>3, <1>5, <1>6, <2>3 DEF Recorded, Removed, Knowing
  <2>5. Following(pc[w], ctx[w])'
    BY <1>1, <1>3, <1>6, <2>2 DEF Following, Starting, Asking, Issuing
  <2> QED
    BY <2>4, <2>5
<1> QED
  BY <1>1, <1>3, <1>5, <1>6, <1>7, LoneStep

\* What is presented is the record of the order just placed, and of no other job.
LEMMA PresentAct ==
  ASSUME Invariant, TypeOK', OwnRecords, Records, NEW w \in Workers, Lone(w), Present(w)
  PROVE  Records'
<1> USE DEF settings, artifacts, world, process
<1>0. TypeOK /\ OwnOrders
  BY DEF Invariant
<1>1. PICK j \in Jobs : j = ctx[w].job
  BY <1>0, ThreadJob DEF Present
<1>3. /\ pc[w] = "present" /\ pc'[w] = "tag" /\ ctx' = ctx
      /\ UNCHANGED <<row, presented, placed, mode>>
  BY <1>0 DEF Present, Goto, TypeOK, Threads
<1>4. PICK o : o = ctx[w].rec /\ o \in placed[j]
  BY <1>1, <1>3 DEF OwnRecords
<1>5. zone' = zone \/ zone' = zone \cup {o}
  BY <1>1, <1>4 DEF Present
<1>6. \A k \in Jobs \ {j} : o \notin placed[k]
  BY <1>0, <1>4 DEF OwnOrders
<1>7. About(j) /\ Left(j)' \subseteq Left(j) \cup {o}
  BY <1>3, <1>5, <1>6 DEF Left, About
<1>8. Orderly(pc[w], ctx[w])'
  <2>1. SUFFICES ASSUME j \in CloudflareJobs PROVE (Recorded(pc[w], ctx[w]) /\ Following(pc[w], ctx[w]))'
    BY <1>1, <1>3 DEF Orderly
  <2>2. Recorded(pc[w], ctx[w]) /\ Following(pc[w], ctx[w])
    BY <1>1, <1>3, <2>1, Knows
  <2>3. Left(j) = {}
    BY <1>1, <1>3, <2>2 DEF Recorded, Removed
  <2>4. Recorded(pc[w], ctx[w])'
    BY <1>1, <1>3, <1>4, <1>7, <2>3 DEF Recorded, Removed, Knowing
  <2>5. Following(pc[w], ctx[w])'
    BY <1>1, <1>3, <2>2 DEF Following, Starting, Asking, Issuing
  <2> QED
    BY <2>4, <2>5
<1> QED
  BY <1>0, <1>1, <1>3, <1>7, <1>8, LoneStep

\* acme-dns:<job> then names what was presented.
LEMMA TagAct ==
  ASSUME TypeOK, TypeOK', Records, NEW w \in Workers, Lone(w), TagRecords(w)
  PROVE  Records'
<1> USE DEF settings, artifacts, world, process
<1>1. PICK j \in Jobs : j = ctx[w].job
  BY ThreadJob DEF TagRecords
<1>2. /\ pc[w] = "tag" /\ UNCHANGED <<row, zone, placed, mode>>
      /\ presented' = [presented EXCEPT ![j] = ctx[w].rec]
  BY <1>1 DEF TagRecords
<1>3. About(j) /\ Left(j)' = Left(j) /\ presented'[j] = ctx[w].rec
  BY <1>2 DEF Left, About, TypeOK
<1>4. CASE j \notin CloudflareJobs
  <2>1. pc'[w] # "idle" => ctx'[w].job = j
    BY <1>1 DEF TagRecords, Return, Goto, TypeOK, Threads
  <2> QED
    BY <1>1, <1>2, <1>3, <1>4, <2>1, LoneStep DEF Orderly
<1>5. CASE j \in CloudflareJobs
  <2>1. Recorded(pc[w], ctx[w]) /\ Following(pc[w], ctx[w])
    BY <1>1, <1>2, <1>5, Knows
  <2>2. pc'[w] = "await" /\ ctx' = ctx
    BY <1>1, <1>2, <2>1 DEF Following, Starting, TagRecords, Goto, TypeOK, Threads
  <2>3. Recorded(pc[w], ctx[w])'
    BY <1>1, <1>2, <1>3, <2>1, <2>2 DEF Recorded, Removed, Knowing
  <2>4. Following(pc[w], ctx[w])'
    BY <1>1, <1>2, <2>1, <2>2 DEF Following, Starting, Asking, Issuing
  <2> QED
    BY <1>1, <1>2, <1>3, <2>2, <2>3, <2>4, LoneStep DEF Orderly
<1> QED
  BY <1>4, <1>5

\* A request that an exception ends leaves nothing, or a job that shows it.
LEMMA AbortAct ==
  ASSUME NoLeaks, TypeOK, TypeOK', Records, NEW w \in Workers, Lone(w),
         Abort(w) \/ DropKeyRaises(w)
  PROVE  Records'
<1> USE DEF settings, artifacts, world, process
<1>1. PICK j \in Jobs : j = ctx[w].job
  BY ThreadJob DEF Abort, Unguarded, DropKeyRaises
<1>2. /\ pc[w] \in {"ensure_key", "create_order", "present", "drop_key"} \cup Unguarded
      /\ pc'[w] = "idle" /\ UNCHANGED <<row, presented, zone, placed, mode>>
  BY DEF Abort, DropKeyRaises, Return, Goto, TypeOK, Threads, NoLeaks
<1>3. About(j) /\ Left(j)' = Left(j)
  BY <1>2 DEF Left, About
<1>4. ASSUME j \in CloudflareJobs PROVE Resting(j)'
  <2>1. Recorded(pc[w], ctx[w]) /\ Following(pc[w], ctx[w])
    BY <1>1, <1>2, <1>4, Knows DEF Unguarded
  <2>2. CASE Removed(pc[w], ctx[w])
    BY <1>1, <1>3, <2>1, <2>2 DEF Recorded, Resting, Unmarked
  <2>3. CASE ~Removed(pc[w], ctx[w])
    <3>1. Unmarked(j)
      BY <1>1, <1>2, <2>1, <2>3 DEF Unguarded, Removed, Recorded, Following, Issuing, Unmarked
    <3>2. Left(j) \subseteq {presented[j]}
      BY <1>1, <1>2, <2>1 DEF Unguarded, Recorded
    <3> QED
      BY <1>2, <1>3, <3>1, <3>2 DEF Resting, Unmarked
  <2> QED
    BY <2>2, <2>3
<1> QED
  BY <1>1, <1>2, <1>3, <1>4, LoneStep DEF Unguarded

\* After the issuance nothing is left to be named.
LEMMA UntagAct ==
  ASSUME TypeOK, TypeOK', Records, NEW w \in Workers, Lone(w), Untag(w) \/ ProveStaging(w)
  PROVE  Records'
<1> USE DEF settings, artifacts, world, process
<1>1. PICK j \in Jobs : j = ctx[w].job
  BY ThreadJob DEF Untag, ProveStaging
<1>2. /\ pc[w] \in {"untag", "prove"} /\ UNCHANGED <<row, zone, placed, mode>>
      /\ \A k \in Jobs \ {j} : presented'[k] = presented[k]
      /\ \/ pc'[w] = "idle"
         \/ pc'[w] = "prove" /\ ctx' = ctx
  BY <1>1 DEF Untag, ProveStaging, Return, Goto, TypeOK, Threads
<1>3. About(j) /\ Left(j)' = Left(j)
  BY <1>2 DEF Left, About
<1>4. ASSUME j \in CloudflareJobs
      PROVE  /\ Left(j)' = {}
             /\ pc'[w] = "prove" => (Recorded(pc[w], ctx[w]) /\ Following(pc[w], ctx[w]))'
  <2>1. Recorded(pc[w], ctx[w])
    BY <1>1, <1>2, <1>4, Knows
  <2>2. Left(j) = {}
    BY <1>1, <1>2, <2>1 DEF Recorded, Removed
  <2>3. pc'[w] = "prove" => Recorded(pc[w], ctx[w])'
    BY <1>1, <1>2, <1>3, <2>2 DEF Recorded, Removed, Knowing
  <2>4. pc'[w] = "prove" => Following(pc[w], ctx[w])'
    BY <1>2 DEF Following, Starting, Asking, Issuing
  <2> QED
    BY <1>3, <2>2, <2>3, <2>4
<1>5. pc'[w] = "idle" /\ j \in CloudflareJobs => Resting(j)'
  BY <1>4 DEF Resting, Unmarked
<1>6. pc'[w] # "idle" => ctx'[w].job = j /\ Orderly(pc[w], ctx[w])'
  BY <1>1, <1>2, <1>4 DEF Orderly
<1> QED
  BY <1>1, <1>2, <1>3, <1>5, <1>6, LoneStep

\* A failed completion reads its row again before it moves it.
LEMMA RereadAct ==
  ASSUME TypeOK, TypeOK', Records, NEW w \in Workers, Lone(w), Reread(w)
  PROVE  Records'
<1> USE DEF settings, artifacts, world, process
<1>1. PICK j \in Jobs : j = ctx[w].job
  BY ThreadJob DEF Reread
<1>2. pc[w] = "reread" /\ UNCHANGED <<row, presented, zone, placed, mode>>
  BY DEF Reread
<1>3. About(j) /\ Left(j)' = Left(j)
  BY <1>2 DEF Left, About
<1>4. \/ pc'[w] = "idle" /\ ~Exists(j)
      \/ /\ pc'[w] = "fail"
         /\ ctx'[w].job = j /\ ctx'[w].rec = ctx[w].rec /\ ctx'[w].errors = ctx[w].errors
         /\ ctx'[w].state = row[j].state /\ ctx'[w].version = row[j].version
  <2>1. CASE Exists(j)
    <3>1. pc'[w] = "fail"
      BY <1>1, <2>1 DEF Reread, Goto, TypeOK, Threads
    <3>2. ctx' = [ctx EXCEPT ![w] = [ctx[w] EXCEPT !.state = row[j].state, !.version = row[j].version]]
      BY <1>1, <2>1 DEF Reread, TypeOK, Threads
    <3>3. ctx[w] \in Context /\ ctx'[w] = [ctx[w] EXCEPT !.state = row[j].state, !.version = row[j].version]
      BY <3>2 DEF TypeOK, Threads
    <3> QED
      BY ONLY <1>1, <3>1, <3>3 DEF Context
  <2>2. CASE ~Exists(j)
    BY <1>1, <2>2 DEF Reread, Return, Goto, TypeOK, Threads
  <2> QED
    BY <2>1, <2>2
<1>5. CASE j \notin CloudflareJobs
  BY <1>1, <1>2, <1>3, <1>4, <1>5, LoneStep DEF Orderly
<1>6. CASE j \in CloudflareJobs
  <2>1. Recorded(pc[w], ctx[w]) /\ Following(pc[w], ctx[w])
    BY <1>1, <1>2, <1>6, Knows
  <2>2. row[j].state \in {"validating", "issuing"}
    BY <1>1, <1>2, <2>1 DEF Following
  <2>3. pc'[w] = "fail"
    BY <1>4, <2>2 DEF Exists, States
  <2>4. Recorded(pc[w], ctx[w])'
    BY <1>1, <1>2, <1>3, <1>4, <2>1, <2>3 DEF Recorded, Removed, Knowing
  <2>5. Following(pc[w], ctx[w])'
    BY <1>2, <1>4, <2>2, <2>3 DEF Following, Starting, Asking, Issuing
  <2> QED
    BY <1>1, <1>2, <1>3, <1>4, <2>3, <2>4, <2>5, LoneStep DEF Orderly
<1> QED
  BY <1>5, <1>6

-----------------------------------------------------------------------------
(* Removing the records.                                                   *)

\* The record of the job is gone, or the thread knows that it is refused, or the
\* request is over.
Outcome(w, j, clean, refused) ==
  \/ /\ Left(j)' = {} /\ pc'[w] = clean
     /\ clean # "idle" => ctx'[w] = [ctx[w] EXCEPT !.errors = FALSE]
  \/ /\ Left(j)' = Left(j) /\ pc'[w] = refused
     /\ refused # "idle" => ctx'[w] = [ctx[w] EXCEPT !.errors = TRUE]
  \/ Left(j)' \subseteq Left(j) /\ pc'[w] = "idle"

\* The record the thread has is the one that is live, so these are the outcomes.
LEMMA CleanupOutcome ==
  ASSUME TypeOK, NEW w \in Workers, NEW j \in CloudflareJobs, j = ctx[w].job,
         NEW clean, NEW refused, Cleanup(w, clean, refused),
         placed' = placed, Left(j) \subseteq {ctx[w].rec}
  PROVE  Outcome(w, j, clean, refused)
<1> DEFINE rec == ctx[w].rec
           remote == ctx[w].job \in CloudflareJobs /\ rec # NoOrder
<1>0. pc \in [Workers -> Labels] /\ ctx \in [Workers -> Context] /\ j \in Jobs
  BY JobAssumption DEF TypeOK, Threads
<1>1. CASE zone' \in {zone, zone \ {rec}} /\ Return(w)
  <2>1. Left(j)' \subseteq Left(j)
    BY <1>1 DEF Left
  <2> QED
    BY <1>0, <1>1, <2>1 DEF Outcome, Return, Goto
<1>2. CASE /\ zone' = IF remote THEN zone \ {rec} ELSE zone
           /\ Goto(w, clean)
           /\ ctx' = [ctx EXCEPT ![w].errors = FALSE]
  <2>1. Left(j)' = {}
    <3>1. Left(j) \subseteq Orders
      BY <1>0 DEF Left, TypeOK
    <3>2. zone' \subseteq zone /\ (rec # NoOrder => rec \notin zone')
      BY <1>2
    <3> QED
      BY <1>0, <3>1, <3>2, OrderAssumption DEF Left
  <2>2. pc'[w] = clean /\ ctx'[w] = [ctx[w] EXCEPT !.errors = FALSE]
    BY <1>0, <1>2 DEF Goto
  <2> QED
    BY <2>1, <2>2 DEF Outcome
<1>3. CASE /\ UNCHANGED zone
           /\ Goto(w, refused)
           /\ ctx' = [ctx EXCEPT ![w] = IF refused = "idle" THEN NoContext
                                        ELSE [@ EXCEPT !.errors = TRUE]]
  <2>1. Left(j)' = Left(j)
    BY <1>3 DEF Left
  <2>2. pc'[w] = refused /\ (refused # "idle" => ctx'[w] = [ctx[w] EXCEPT !.errors = TRUE])
    BY <1>0, <1>3 DEF Goto
  <2> QED
    BY <2>1, <2>2 DEF Outcome
<1> QED
  BY <1>1, <1>2, <1>3 DEF Cleanup

\* A manual provider touches nothing.
LEMMA ManualCleanup ==
  ASSUME TypeOK, NEW w \in Workers, NEW clean, NEW refused, Cleanup(w, clean, refused),
         ctx[w].job \notin CloudflareJobs
  PROVE  zone' = zone /\ pc'[w] = clean /\ ctx'[w].job = ctx[w].job
<1>1. /\ zone' = zone /\ Goto(w, clean)
      /\ ctx' = [ctx EXCEPT ![w].errors = FALSE]
  BY DEF Cleanup
<1>2. ctx'[w] = [ctx[w] EXCEPT !.errors = FALSE] /\ ctx[w] \in Context
  BY <1>1 DEF TypeOK, Threads
<1>3. ctx'[w].job = ctx[w].job
  BY ONLY <1>2 DEF Context
<1> QED
  BY <1>1, <1>3 DEF Goto, TypeOK, Threads

\* The four places that remove records (_complete_dns twice, cancel, retry_cleanup).
LEMMA CleanupActs ==
  ASSUME TypeOK, TypeOK', Records, NEW w \in Workers, Lone(w),
         CleanupRecords(w) \/ HandleFailure(w) \/ CancelCleanup(w) \/ RetryRemove(w)
  PROVE  Records'
<1> USE DEF settings, artifacts, world, process
<1>1. PICK j \in Jobs : j = ctx[w].job
  BY ThreadJob DEF CleanupRecords, HandleFailure, CancelCleanup, RetryRemove
<1>2. /\ UNCHANGED <<row, presented, placed, mode>>
      /\ \/ pc[w] = "cleanup" /\ Cleanup(w, "drop_key", "drop_key")
         \/ pc[w] = "handle" /\ Cleanup(w, "reread", "reread")
         \/ pc[w] = "cancel_cleanup" /\ Cleanup(w, "svc_cancel", "mark_cancelled")
         \/ pc[w] = "retry" /\ Cleanup(w, "retarget", "idle")
  BY DEF CleanupRecords, HandleFailure, CancelCleanup, RetryRemove
<1>3. About(j)
  <2>1. zone' \subseteq zone
    BY <1>2 DEF Cleanup
  <2> QED
    BY <1>2, <2>1 DEF About, Left
<1>4. CASE j \notin CloudflareJobs
  <2>1. pc'[w] # "idle" => ctx'[w].job = j
    BY <1>1, <1>2, <1>4, ManualCleanup
  <2> QED
    BY <1>1, <1>2, <1>3, <1>4, <2>1, LoneStep DEF Orderly
<1>5. CASE j \in CloudflareJobs
  <2>1. Recorded(pc[w], ctx[w]) /\ Following(pc[w], ctx[w])
    BY <1>1, <1>2, <1>5, Knows
  <2>2. /\ Left(j) \subseteq {presented[j]} /\ presented[j] = ctx[w].rec
        /\ pc[w] \in {"cancel_cleanup", "retry"} => Unmarked(j)
    BY <1>1, <1>2, <2>1 DEF Recorded, Knowing
  <2>3. \/ pc[w] = "cleanup" /\ Outcome(w, j, "drop_key", "drop_key")
        \/ pc[w] = "handle" /\ Outcome(w, j, "reread", "reread")
        \/ pc[w] = "cancel_cleanup" /\ Outcome(w, j, "svc_cancel", "mark_cancelled")
        \/ pc[w] = "retry" /\ Outcome(w, j, "retarget", "idle")
    BY <1>1, <1>2, <1>5, <2>2, CleanupOutcome
  <2>4. Left(j)' \subseteq Left(j)
    BY <2>3 DEF Outcome
  <2>5. CASE pc'[w] = "idle"
    <3>1. Unmarked(j)
      <4>1. pc[w] \in {"cleanup", "handle"} => row[j].state \in {"validating", "issuing"}
        BY <1>1, <2>1 DEF Following, Issuing
      <4> QED
        BY <1>2, <2>2, <4>1 DEF Unmarked
    <3>2. Resting(j)'
      BY <1>2, <2>2, <2>4, <3>1 DEF Resting, Unmarked
    <3> QED
      BY <1>1, <1>2, <1>3, <2>5, <3>2, LoneStep
  <2>6. CASE pc'[w] # "idle"
    <3>1. PICK e \in BOOLEAN :
            /\ ctx'[w] = [ctx[w] EXCEPT !.errors = e]
            /\ ~e => Left(j)' = {}
      BY <2>3, <2>6 DEF Outcome
    <3>2. /\ ctx'[w].job = j /\ ctx'[w].rec = ctx[w].rec /\ ctx'[w].state = ctx[w].state
          /\ ctx'[w].version = ctx[w].version /\ ctx'[w].errors = e
      <4>1. ctx[w] \in Context
        BY DEF TypeOK, Threads
      <4> QED
        BY ONLY <1>1, <3>1, <4>1 DEF Context
    <3>3. \/ pc[w] = "cleanup" /\ pc'[w] = "drop_key"
          \/ pc[w] = "handle" /\ pc'[w] = "reread"
          \/ pc[w] = "cancel_cleanup" /\ pc'[w] = "svc_cancel" /\ Left(j)' = {}
          \/ pc[w] = "cancel_cleanup" /\ pc'[w] = "mark_cancelled" /\ Left(j)' = Left(j)
          \/ pc[w] = "retry" /\ pc'[w] = "retarget" /\ Left(j)' = {}
      BY <2>3, <2>6 DEF Outcome
    <3>4. Following(pc[w], ctx[w])'
      BY <1>1, <1>2, <2>1, <3>2, <3>3 DEF Following, Starting, Asking, Issuing
    <3>5. Recorded(pc[w], ctx[w])'
      <4>1. (Left(j) \subseteq {presented[j]})'
        BY <1>2, <2>2, <2>4
      <4>2. Removed(pc[w], ctx[w])' => Left(j)' = {}
        BY <3>1, <3>2, <3>3 DEF Removed
      <4>3. pc'[w] = "mark_cancelled" => Unmarked(j)'
        BY <1>2, <2>2, <3>3 DEF Unmarked
      <4> QED
        BY <3>2, <3>3, <4>1, <4>2, <4>3 DEF Recorded, Knowing
    <3> QED
      BY <1>1, <1>2, <1>3, <2>6, <3>2, <3>4, <3>5, LoneStep DEF Orderly
  <2> QED
    BY <2>5, <2>6
<1> QED
  BY <1>4, <1>5

-----------------------------------------------------------------------------
(* The ends of a request.                                                  *)

\* Ending a request is in order when the job has nothing left or says so.
LEMMA EndStep ==
  ASSUME TypeOK, TypeOK', Records, NEW w \in Workers, Lone(w), NEW j \in Jobs, j = ctx[w].job,
         pc[w] \notin {"idle", "tag"}, About(j), mode' = mode, pc'[w] = "idle", Left(j)' = Left(j),
         presented' = presented,
         j \in CloudflareJobs => Left(j) = {} \/ Unmarked(j)'
  PROVE  Records'
<1>1. ASSUME j \in CloudflareJobs PROVE Resting(j)'
  <2>1. Recorded(pc[w], ctx[w])
    BY <1>1, Knows
  <2>2. Left(j) \subseteq {presented[j]}
    BY <2>1 DEF Recorded
  <2> QED
    BY <1>1, <2>2 DEF Resting, Unmarked
<1> QED
  BY <1>1, LoneStep

\* The transition that ends the issuance, its failure, a cancellation or a retry.
LEMMA EndActs ==
  ASSUME TypeOK, TypeOK', Records, NEW w \in Workers, Lone(w),
         \/ FinishIssuing(w) \/ FailJob(w) \/ RequireCleanup(w) \/ ServiceCancel(w)
         \/ Retarget(w) \/ DeleteRow(w)
  PROVE  Records'
<1> USE DEF settings, artifacts, world, process
<1>1. PICK j \in Jobs : j = ctx[w].job
  BY ThreadJob DEF FinishIssuing, FailJob, RequireCleanup, ServiceCancel, Retarget, DeleteRow
<1>2. /\ UNCHANGED <<presented, zone, placed, mode>>
      /\ \/ pc[w] = "finish" /\ SetRow(j, FinishTarget(ctx[w]), ctx[w].ord)
         \/ pc[w] = "fail" /\ SetRow(j, FailTarget(ctx[w]), row[j].cert)
         \/ pc[w] = "require_cleanup" /\ SetRow(j, "cleanup_required", row[j].cert)
         \/ pc[w] = "svc_cancel" /\ SetRow(j, "cancelled", row[j].cert)
         \/ pc[w] = "svc_cancel" /\ row' = row
         \/ pc[w] = "retarget" /\ SetRow(j, CleanupTarget(j), row[j].cert)
         \/ pc[w] = "delete" /\ row' = [row EXCEPT ![j] = Missing("deleted")]
  BY <1>1 DEF FinishIssuing, FailJob, RequireCleanup, ServiceCancel, Retarget, DeleteRow
<1>3. /\ pc[w] # "idle"
      /\ \/ pc'[w] = "idle"
         \/ pc[w] = "finish" /\ pc'[w] = "untag" /\ ctx' = ctx /\ ~ctx[w].errors
  BY DEF FinishIssuing, FailJob, RequireCleanup, ServiceCancel, Retarget, DeleteRow, Goto, Return,
     TypeOK, Threads
<1>4. /\ About(j) /\ Left(j)' = Left(j)
      /\ \/ pc[w] = "finish" /\ row'[j].state = FinishTarget(ctx[w])
         \/ pc[w] = "fail" /\ row'[j].state = FailTarget(ctx[w])
         \/ pc[w] = "require_cleanup" /\ row'[j].state = "cleanup_required"
         \/ pc[w] \in {"svc_cancel", "retarget", "delete"}
  <2>1. ASSUME NEW to, NEW cert, SetRow(j, to, cert)
        PROVE  About(j) /\ Left(j)' = Left(j) /\ row'[j].state = to
    BY <1>2, <2>1, RowWritten
  <2>2. CASE row' = row \/ row' = [row EXCEPT ![j] = Missing("deleted")]
    <3>1. About(j) /\ Left(j)' = Left(j)
      BY <1>2, <2>2 DEF About, Left, TypeOK
    <3>2. CASE pc[w] \in {"svc_cancel", "retarget", "delete"}
      BY <3>1, <3>2
    <3> QED
      BY <1>2, <2>1, <3>1, <3>2
  <2>3. CASE \/ pc[w] = "svc_cancel" /\ SetRow(j, "cancelled", row[j].cert)
             \/ pc[w] = "retarget" /\ SetRow(j, CleanupTarget(j), row[j].cert)
    BY <2>1, <2>3
  <2>4. CASE pc[w] = "finish" /\ SetRow(j, FinishTarget(ctx[w]), ctx[w].ord)
    BY <2>1, <2>4
  <2>5. CASE pc[w] = "fail" /\ SetRow(j, FailTarget(ctx[w]), row[j].cert)
    BY <2>1, <2>5
  <2>6. CASE pc[w] = "require_cleanup" /\ SetRow(j, "cleanup_required", row[j].cert)
    BY <2>1, <2>6
  <2> QED
    BY <1>2, <2>2, <2>3, <2>4, <2>5, <2>6
<1>5. ASSUME j \in CloudflareJobs
      PROVE  \/ Left(j) = {}
             \/ row'[j].state = "cleanup_required" /\ pc'[w] = "idle"
  <2>1. Recorded(pc[w], ctx[w])
    BY <1>1, <1>3, <1>5, Knows
  <2>2. pc[w] \in {"finish", "fail"} /\ ~ctx[w].errors => Left(j) = {}
    BY <1>1, <2>1 DEF Recorded, Removed
  <2>3. pc[w] \in {"svc_cancel", "retarget", "delete"} => Left(j) = {}
    BY <1>1, <2>1 DEF Recorded, Removed
  <2> QED
    BY <1>3, <1>4, <2>2, <2>3 DEF FinishTarget, FailTarget
<1>6. CASE pc'[w] = "idle"
  <2>1. pc[w] \notin {"idle", "tag"}
    BY <1>2, <1>3
  <2> QED
    BY <1>1, <1>2, <1>4, <1>5, <1>6, <2>1, EndStep DEF Unmarked
<1>7. CASE pc'[w] = "untag" /\ ctx' = ctx
  <2>1. ASSUME j \in CloudflareJobs PROVE (Recorded(pc[w], ctx[w]) /\ Following(pc[w], ctx[w]))'
    <3>1. Left(j)' = {}
      BY <1>4, <1>5, <1>7, <2>1
    <3> QED
      BY <1>1, <1>7, <3>1 DEF Recorded, Removed, Knowing, Following, Starting, Asking, Issuing
  <2> QED
    BY <1>1, <1>2, <1>3, <1>4, <1>7, <2>1, LoneStep DEF Orderly
<1> QED
  BY <1>3, <1>6, <1>7

\* A thread that is alone is never refused a transition on the way to the certificate, nor
\* after a failure.
LEMMA Accepted ==
  ASSUME Records, NEW w \in Workers, ctx[w].job \in CloudflareJobs,
         pc[w] \in {"await", "validate", "issue", "finish", "fail"}
  PROVE  CanTransition(w, Attempt(w)[1], Attempt(w)[2])
<1>1. Following(pc[w], ctx[w])
  BY Knows
<1>2. ctx[w].version = row[ctx[w].job].version
  BY <1>1 DEF Following, Starting, Asking, Issuing
<1>3. CASE pc[w] = "await"
  BY <1>1, <1>2, <1>3, CompletionEdges DEF Following, Starting, CanTransition, Current, Attempt
<1>4. CASE pc[w] = "validate"
  BY <1>1, <1>2, <1>4, CompletionEdges DEF Following, CanTransition, Current, Attempt
<1>5. CASE pc[w] = "issue"
  BY <1>1, <1>2, <1>5, CompletionEdges DEF Following, CanTransition, Current, Attempt
<1>6. CASE pc[w] = "finish"
  BY <1>1, <1>2, <1>6, CompletionEdges DEF Following, Issuing, CanTransition, Current, Attempt,
     FinishTarget
<1>7. CASE pc[w] = "fail"
  BY <1>1, <1>2, <1>7, CompletionEdges DEF Following, CanTransition, Current, Attempt, FailTarget
<1> QED
  BY <1>3, <1>4, <1>5, <1>6, <1>7

\* A refused transition leaves the job as it was.
LEMMA ConflictAct ==
  ASSUME TypeOK, TypeOK', Records, NEW w \in Workers, Lone(w), Conflict(w)
  PROVE  Records'
<1> USE DEF settings, artifacts, world, process
<1>1. PICK j \in Jobs : j = ctx[w].job
  BY ThreadJob DEF Conflict, Asks
<1>2. /\ UNCHANGED <<row, presented, zone, placed, mode>> /\ pc[w] # "idle"
      /\ About(j) /\ Left(j)' = Left(j)
  BY DEF Conflict, Asks, About, Left
<1>3. CASE j \notin CloudflareJobs
  <2>1. pc'[w] # "idle" => ctx'[w].job = j
    BY <1>1 DEF Conflict, Asks, Goto, Return, TypeOK, Threads
  <2> QED
    BY <1>1, <1>2, <1>3, <2>1, LoneStep DEF Orderly
<1>4. CASE j \in CloudflareJobs
  <2>1. pc[w] \in {"require_cleanup", "retarget"}
    BY <1>1, <1>4, Accepted DEF Conflict, Asks
  <2>2. pc'[w] = "idle"
    BY <2>1 DEF Conflict, Asks, Goto, Return, TypeOK, Threads
  <2>3. Unmarked(j)
    BY <1>1, <1>2, <1>4, <2>1, Knows DEF Recorded, Removed, Unmarked
  <2>4. Unmarked(j)' /\ pc[w] \notin {"idle", "tag"}
    BY <1>2, <2>1, <2>3 DEF Unmarked
  <2> QED
    BY <1>1, <1>2, <2>2, <2>4, EndStep
<1> QED
  BY <1>3, <1>4

\* A transition that is not read back ends the request, or fails the completion.
LEMMA UnreadAct ==
  ASSUME TypeOK, TypeOK', Records, NEW w \in Workers, Lone(w), Unread(w)
  PROVE  Records'
<1> USE DEF settings, artifacts, world, process
<1>1. PICK j \in Jobs : j = ctx[w].job
  BY ThreadJob DEF Unread, Asks
<1>2. /\ UNCHANGED <<presented, zone, placed, mode>> /\ pc[w] \in Asks
      /\ SetRow(j, Attempt(w)[2], IF pc[w] = "finish" THEN ctx[w].ord ELSE row[j].cert)
      /\ CanTransition(w, Attempt(w)[1], Attempt(w)[2])
      /\ \/ pc'[w] = "idle"
         \/ pc[w] = "issue" /\ pc'[w] = "handle" /\ ctx' = ctx
  BY <1>1 DEF Unread, Goto, Return, TypeOK, Threads
<1>3. About(j) /\ Left(j)' = Left(j) /\ row'[j].state = Attempt(w)[2]
  BY <1>2, RowWritten
<1>4. pc[w] \notin {"idle", "tag"}
  BY <1>2 DEF Asks
<1>5. CASE pc'[w] = "idle"
  <2>1. ASSUME j \in CloudflareJobs PROVE Left(j) = {} \/ Unmarked(j)'
    <3>1. Recorded(pc[w], ctx[w])
      BY <1>1, <1>4, <2>1, Knows
    <3>2. PICK a \in Asks : pc[w] = a
      BY <1>2
    <3>3. CASE a \in {"await", "validate", "issue", "require_cleanup"}
      BY <1>3, <3>2, <3>3 DEF Attempt, Unmarked
    <3>4. CASE a \in {"finish", "fail"} /\ ctx[w].errors
      BY <1>3, <3>2, <3>4 DEF Attempt, Unmarked, FinishTarget, FailTarget
    <3>5. CASE a \in {"finish", "fail"} /\ ~ctx[w].errors
      BY <1>1, <3>1, <3>2, <3>5 DEF Recorded, Removed
    <3>6. CASE a = "retarget"
      BY <1>1, <3>1, <3>2, <3>6 DEF Recorded, Removed
    <3> QED
      BY <3>3, <3>4, <3>5, <3>6 DEF Asks
  <2> QED
    BY <1>1, <1>2, <1>3, <1>4, <1>5, <2>1, EndStep
<1>6. CASE pc[w] = "issue" /\ pc'[w] = "handle" /\ ctx' = ctx
  <2>1. ASSUME j \in CloudflareJobs PROVE (Recorded(pc[w], ctx[w]) /\ Following(pc[w], ctx[w]))'
    <3>1. Recorded(pc[w], ctx[w])
      BY <1>1, <1>4, <2>1, Knows
    <3>2. row'[j].state = "issuing"
      BY <1>3, <1>6 DEF Attempt
    <3>3. Recorded(pc[w], ctx[w])'
      BY <1>1, <1>2, <1>3, <1>6, <3>1 DEF Recorded, Removed, Knowing
    <3>4. Following(pc[w], ctx[w])'
      BY <1>1, <1>6, <3>2 DEF Following, Starting, Asking, Issuing
    <3> QED
      BY <3>3, <3>4
  <2> QED
    BY <1>1, <1>2, <1>3, <1>4, <1>6, <2>1, LoneStep DEF Orderly
<1> QED
  BY <1>2, <1>5, <1>6

-----------------------------------------------------------------------------
(* Requests come in, and the world outside.                                *)

\* A request finds its job at rest.
LEMMA RequestAct ==
  ASSUME TypeOK, TypeOK', Records, NEW w \in Workers, Lone(w), Request(w)
  PROVE  Records'
<1> USE DEF settings, artifacts, world, process
<1>1. PICK j \in Jobs : \/ StartAcme(w, j) \/ ContinueManualDns(w, j) \/ CancelAcme(w, j)
                        \/ RetryCleanup(w, j) \/ DeleteTerminalJob(w, j)
  BY DEF Request
<1>2. /\ pc[w] = "idle" /\ UNCHANGED <<row, presented, zone, placed, mode>>
      /\ ctx'[w].job = j /\ ctx'[w].state = row[j].state /\ ctx'[w].version = row[j].version
  BY <1>1 DEF StartAcme, ContinueManualDns, CancelAcme, RetryCleanup, DeleteTerminalJob, Enter,
     TypeOK, Threads
<1>3. About(j) /\ Left(j)' = Left(j)
  BY <1>2 DEF About, Left
<1>4. \/ j \notin CloudflareJobs /\ pc'[w] # "idle"
      \/ pc'[w] = "ensure_key" /\ row[j].state = "draft"
      \/ pc'[w] = "svc_cancel" /\ presented[j] = NoOrder
      \/ pc'[w] \in {"cancel_cleanup", "retry"} /\ ctx'[w].rec = presented[j]
      \/ pc'[w] = "delete" /\ row[j].state \in Deletable
  BY <1>1 DEF StartAcme, ContinueManualDns, CancelAcme, RetryCleanup, DeleteTerminalJob, Enter,
     Goto, TypeOK, Threads
<1>5. ASSUME j \in CloudflareJobs PROVE (Recorded(pc[w], ctx[w]) /\ Following(pc[w], ctx[w]))'
  <2>1. Resting(j)
    <3>1. pc'[w] # "idle" /\ pc[w] = "idle"
      BY <1>2, <1>4
    <3>2. ~Busy(j)
      BY <1>2, <3>1 DEF Busy, Lone, Apart
    <3> QED
      BY <1>5, <3>2 DEF Records
  <2>2. Left(j) \subseteq Orders
    BY DEF Left, TypeOK
  <2>3. pc'[w] \notin {"cancel_cleanup", "retry"} => Left(j) = {}
    BY <1>4, <1>5, <2>1, <2>2, OrderAssumption DEF Resting, Unmarked, Deletable
  <2>4. Recorded(pc[w], ctx[w])'
    BY <1>2, <1>3, <1>4, <1>5, <2>1, <2>3 DEF Recorded, Removed, Knowing, Resting, Unmarked
  <2>5. Following(pc[w], ctx[w])'
    BY <1>2, <1>4, <1>5 DEF Following, Starting, Asking, Issuing
  <2> QED
    BY <2>4, <2>5
<1>6. pc'[w] # "idle"
  BY <1>4
<1> QED
  BY <1>2, <1>3, <1>5, <1>6, LoneStep DEF Orderly

\* Nothing that is not a request changes the records of a Cloudflare job, and a job that is
\* created is one no request is working on.
LEMMA SystemAct ==
  ASSUME NoLeaks, Invariant, TypeOK', OwnRecords, Records, System
  PROVE  Records'
<1> USE DEF settings, artifacts, world, process
<1>0. TypeOK /\ OwnOrders /\ mode = "serving"
  BY DEF Invariant, Records
<1>1. /\ UNCHANGED <<pc, ctx, presented, placed, mode>>
      /\ \/ row' = row
         \/ \E k \in Jobs : row[k].state = "absent" /\ row' = [row EXCEPT ![k] = Missing("draft")]
      /\ \/ zone' = zone
         \/ \E k \in Jobs \ CloudflareJobs :
              presented[k] \in Orders /\ zone' = zone \cup {presented[k]}
  BY <1>0 DEF System, CreateJob, Crash, NoLeaks, Recovery, RecoverJob, RecoveryRaises, Serve,
     Outside, ServerValidates, UserPublishes
<1>2. ASSUME NEW j \in CloudflareJobs PROVE Left(j)' = Left(j)
  <2>1. CASE zone' = zone
    BY <1>1, <2>1 DEF Left
  <2>2. ASSUME NEW k \in Jobs \ CloudflareJobs, presented[k] \in Orders,
               zone' = zone \cup {presented[k]}
        PROVE  Left(j)' = Left(j)
    <3>1. presented[k] \in placed[k]
      BY <2>2, OrderAssumption DEF OwnRecords
    <3>2. presented[k] \notin placed[j]
      BY <1>0, <3>1, JobAssumption DEF OwnOrders
    <3> QED
      BY <1>1, <2>2, <3>2 DEF Left
  <2> QED
    BY <1>1, <2>1, <2>2
<1>3. ASSUME NEW j \in Jobs
      PROVE  \/ row'[j] = row[j]
             \/ row[j].state = "absent" /\ row'[j].state = "draft"
  BY <1>0, <1>1 DEF Missing, TypeOK
<1>4. ASSUME NEW j \in CloudflareJobs, Unmarked(j) PROVE Unmarked(j)'
  BY <1>2, <1>3, <1>4, JobAssumption DEF Unmarked
<1>5. ASSUME NEW w \in Workers PROVE Orderly(pc[w], ctx[w])'
  <2>1. PICK j : j = ctx[w].job
    OBVIOUS
  <2>2. SUFFICES ASSUME pc[w] # "idle", j \in CloudflareJobs
                 PROVE  (Recorded(pc[w], ctx[w]) /\ Following(pc[w], ctx[w]))'
    BY <1>1, <2>1 DEF Orderly
  <2>3. Recorded(pc[w], ctx[w]) /\ Following(pc[w], ctx[w])
    BY <2>1, <2>2, Knows
  <2>4. Recorded(pc[w], ctx[w])'
    BY <1>1, <1>2, <1>4, <2>1, <2>2, <2>3 DEF Recorded, Removed
  <2>5. Following(pc[w], ctx[w])'
    BY <1>1, <1>3, <2>1, <2>2, <2>3, JobAssumption DEF Following, Starting, Asking, Issuing
  <2> QED
    BY <2>4, <2>5
<1>6. ASSUME NEW j \in CloudflareJobs, ~Busy(j)' PROVE Resting(j)'
  BY <1>1, <1>2, <1>4, <1>6 DEF Records, Busy, Resting
<1> QED
  BY <1>0, <1>1, <1>5, <1>6 DEF Records

-----------------------------------------------------------------------------
(* The theorem.                                                            *)

\* Before the first request there is neither a thread nor a record.
LEMMA RecordsInit == Init => Records
BY DEF Init, Records, Orderly, Resting, Unmarked, Left

\* No step leaves a record behind.
LEMMA RecordsNext ==
  ASSUME Apart, Apart', NoLeaks, RecordsInvariant, Invariant', [Next]_vars
  PROVE  Records'
<1>0. Invariant /\ TypeOK /\ TypeOK' /\ OwnRecords /\ Records
  BY DEF RecordsInvariant, Invariant
<1>1. ASSUME NEW w \in Workers, Step(w) PROVE Records'
  <2>0. Lone(w)
    BY <1>0, <1>1, StepFlow DEF Flow, Lone
  <2>1. CASE \/ EnsurePendingKey(w) \/ AnswerChallenges(w) \/ PollOrder(w) \/ PollReady(w)
             \/ Finalize(w) \/ StoreCertificate(w) \/ CompletionFails(w) \/ DropPendingKey(w)
             \/ MarkIssued(w) \/ MarkCancelled(w)
    BY <1>0, <2>0, <2>1, QuietActs
  <2>2. CASE \/ CreateOrder(w) \/ Present(w) \/ TagRecords(w) \/ Abort(w) \/ DropKeyRaises(w)
             \/ Reread(w)
    BY <1>0, <2>0, <2>2, CreateOrderAct, PresentAct, TagAct, AbortAct, RereadAct
  <2>3. CASE PresentLeaks(w)
    BY <2>3 DEF PresentLeaks, NoLeaks
  <2>4. CASE AwaitDns(w) \/ BeginValidating(w) \/ BeginIssuing(w)
    BY <1>0, <2>0, <2>4, AdvanceActs
  <2>5. CASE Untag(w) \/ ProveStaging(w)
    BY <1>0, <2>0, <2>5, UntagAct
  <2>6. CASE CleanupRecords(w) \/ HandleFailure(w) \/ CancelCleanup(w) \/ RetryRemove(w)
    BY <1>0, <2>0, <2>6, CleanupActs
  <2>7. CASE \/ FinishIssuing(w) \/ FailJob(w) \/ RequireCleanup(w) \/ ServiceCancel(w)
             \/ Retarget(w) \/ DeleteRow(w)
    BY <1>0, <2>0, <2>7, EndActs
  <2>8. CASE Conflict(w) \/ Unread(w)
    BY <1>0, <2>0, <2>8, ConflictAct, UnreadAct
  <2> QED
    BY <1>1, <2>1, <2>2, <2>3, <2>4, <2>5, <2>6, <2>7, <2>8 DEF Step
<1>2. ASSUME NEW w \in Workers, Request(w) PROVE Records'
  <2>1. Lone(w)
    BY <1>0, <1>2, RequestEntry DEF Entry, Lone
  <2> QED
    BY <1>0, <1>2, <2>1, RequestAct
<1>3. CASE System
  BY <1>0, <1>3, SystemAct
<1>4. CASE UNCHANGED vars
  <2>1. /\ UNCHANGED <<row, presented, zone, placed, mode, pc, ctx>>
    BY <1>4 DEF vars, settings, artifacts, world, process
  <2> QED
    BY <1>0, <2>1 DEF Records, Orderly, Recorded, Removed, Following, Resting, Unmarked, Left, Busy
<1> QED
  BY <1>1, <1>2, <1>3, <1>4 DEF Next, System

\* When no two requests on one job overlap and none of the faults of NoLeaks happens, a
\* Cloudflare job that has come to its end has none of its TXT records left, whatever requests
\* on other jobs do in the meantime, however often the provider refused or broke off, whatever
\* answers were lost and whatever else raised in a request.
THEOREM NoRecordLeft ==
  ASSUME NoLeaks
  PROVE  Spec /\ []Apart => []SettledLeavesNoRecord
<1>1. Init => RecordsInvariant
  BY InvariantInit, OwnRecordsInit, RecordsInit DEF RecordsInvariant
<1>2. RecordsInvariant /\ Apart /\ Apart' /\ [Next]_vars => RecordsInvariant'
  BY InvariantNext, OwnRecordsNext, RecordsNext DEF RecordsInvariant
<1>3. RecordsInvariant => SettledLeavesNoRecord
  BY DEF RecordsInvariant, Records, Resting, Unmarked, Left, SettledLeavesNoRecord
<1> QED
  BY <1>1, <1>2, <1>3, PTL DEF Spec

\* In particular with a server that serves one request after the other, as in the run AcmeHygiene.
THEOREM NoRecordLeftByOneThread ==
  ASSUME OneThread, NoLeaks
  PROVE  Spec => []SettledLeavesNoRecord
<1>1. Apart
  BY DEF OneThread, Apart
<1> QED
  BY <1>1, NoRecordLeft, PTL

-----------------------------------------------------------------------------
(* A job in flight comes to rest.  Liveness needs two things of the threads: *)
(* that one of them has the job in hand, and that each goes on.  The first   *)
(* is an invariant; the second is a hypothesis here, and under weak fairness *)
(* of Step(w) what TLC checks.                                              *)

\* No fault takes a thread out of _complete_dns without a transition of its job: the
\* process does not stop, no connection breaks off during a DELETE, and outside the try,
\* the except clauses among them, neither the database nor the disk fails.
NoAbandonment == Faults \cap {"crash", "cleanup_raises", "request_error"} = {}

\* How many steps a request has at most before it at a label.
Remaining(label) ==
  CASE label \in {"fail", "prove", "require_cleanup", "svc_cancel", "retarget", "delete"} -> 1
    [] label \in {"untag", "reread", "mark_cancelled", "retry"} -> 2
    [] label \in {"finish", "handle", "cancel_cleanup"} -> 3
    [] label = "mark_issued" -> 4
    [] label = "drop_key" -> 5
    [] label = "cleanup" -> 6
    [] label = "store" -> 7
    [] label = "finalize" -> 8
    [] label = "issue" -> 9
    [] label = "polling" -> 10
    [] label = "poll" -> 11
    [] label = "answer" -> 12
    [] label = "validate" -> 13
    [] label = "await" -> 14
    [] label = "tag" -> 15
    [] label = "present" -> 16
    [] label = "create_order" -> 17
    [] label = "ensure_key" -> 18
    [] OTHER -> 0

\* The labels of _complete_dns up to the transition that takes the job out of flight.
Underway == Asking \cup Issuing \cup {"handle", "reread", "fail"}

\* A thread that has a job in hand has read its row as it is now.
Attends(w, j) ==
  LET r == row[j] IN
  /\ pc[w] \in Underway /\ ctx[w].job = j
  /\ pc[w] \in {"answer", "poll", "polling", "issue"} => r.state = "validating"
  /\ pc[w] \in Issuing => r.state = "issuing"
  /\ pc[w] = "fail" => ctx[w].state = r.state
  /\ pc[w] \in Asking \cup Issuing \cup {"fail"} => ctx[w].version = r.version

\* No job is in flight but in the hands of a thread.
NoneAbandoned ==
  \A j \in Jobs : Interrupted(j) =>
    \E w \in Workers : pc[w] \in Completing /\ ctx[w].job = j

InHand ==
  /\ mode = "serving"
  /\ \A j \in Jobs : Interrupted(j) => \E w \in Workers : Attends(w, j)

\* The number of steps is that of the label.
LEMMA Levels ==
  /\ Remaining("idle") = 0
  /\ Remaining("fail") = 1 /\ Remaining("prove") = 1 /\ Remaining("require_cleanup") = 1
  /\ Remaining("svc_cancel") = 1 /\ Remaining("retarget") = 1 /\ Remaining("delete") = 1
  /\ Remaining("untag") = 2 /\ Remaining("reread") = 2 /\ Remaining("mark_cancelled") = 2
  /\ Remaining("retry") = 2
  /\ Remaining("finish") = 3 /\ Remaining("handle") = 3 /\ Remaining("cancel_cleanup") = 3
  /\ Remaining("mark_issued") = 4 /\ Remaining("drop_key") = 5 /\ Remaining("cleanup") = 6
  /\ Remaining("store") = 7 /\ Remaining("finalize") = 8 /\ Remaining("issue") = 9
  /\ Remaining("polling") = 10 /\ Remaining("poll") = 11 /\ Remaining("answer") = 12
  /\ Remaining("validate") = 13 /\ Remaining("await") = 14 /\ Remaining("tag") = 15
  /\ Remaining("present") = 16 /\ Remaining("create_order") = 17
  /\ Remaining("ensure_key") = 18
BY DEF Remaining

\* Every step brings its request nearer to its end: no request retries or goes round.
LEMMA StepForward ==
  ASSUME TypeOK, NEW w \in Workers, Step(w)
  PROVE  Remaining(pc'[w]) < Remaining(pc[w])
<1>0. pc \in [Workers -> Labels]
  BY DEF TypeOK, Threads
<1>1. CASE EnsurePendingKey(w) \/ CreateOrder(w) \/ Present(w) \/ PresentLeaks(w) \/ Abort(w)
  BY ONLY <1>0, <1>1, Levels, w \in Workers DEF EnsurePendingKey, CreateOrder, Present,
     PresentLeaks, Abort, Unguarded, Goto, Return
<1>2. CASE TagRecords(w) \/ AwaitDns(w) \/ BeginValidating(w) \/ BeginIssuing(w)
  BY ONLY <1>0, <1>2, Levels, w \in Workers DEF TagRecords, AwaitDns, BeginValidating,
     BeginIssuing, Advance, Goto, Return
<1>3. CASE AnswerChallenges(w) \/ PollOrder(w) \/ PollReady(w) \/ Finalize(w) \/ StoreCertificate(w)
           \/ CompletionFails(w)
  BY ONLY <1>0, <1>3, Levels, w \in Workers DEF AnswerChallenges, PollOrder, PollReady, Finalize,
     StoreCertificate, CompletionFails, Goto
<1>4. CASE CleanupRecords(w) \/ HandleFailure(w) \/ CancelCleanup(w) \/ RetryRemove(w)
  BY ONLY <1>0, <1>4, Levels, w \in Workers DEF CleanupRecords, HandleFailure, CancelCleanup,
     RetryRemove, Cleanup, Goto, Return
<1>5. CASE \/ DropPendingKey(w) \/ DropKeyRaises(w) \/ MarkIssued(w) \/ FinishIssuing(w)
           \/ Untag(w) \/ ProveStaging(w)
  BY ONLY <1>0, <1>5, Levels, w \in Workers DEF DropPendingKey, DropKeyRaises, MarkIssued,
     FinishIssuing, Untag, ProveStaging, Goto, Return
<1>6. CASE Reread(w) \/ FailJob(w) \/ Conflict(w) \/ Unread(w)
  BY ONLY <1>0, <1>6, Levels, w \in Workers DEF Reread, FailJob, Conflict, Unread, Asks, Goto,
     Return
<1>7. CASE MarkCancelled(w) \/ RequireCleanup(w) \/ ServiceCancel(w) \/ Retarget(w) \/ DeleteRow(w)
  BY ONLY <1>0, <1>7, Levels, w \in Workers DEF MarkCancelled, RequireCleanup, ServiceCancel,
     Retarget, DeleteRow, Goto, Return
<1> QED
  BY <1>1, <1>2, <1>3, <1>4, <1>5, <1>6, <1>7 DEF Step

\* Only three steps take a job into flight or on in it.
LEMMA IntoFlight ==
  ASSUME TypeOK, NEW v \in Workers, Step(v), NEW j \in Jobs
  PROVE  \/ row'[j] = row[j]
         \/ ~Interrupted(j)'
         \/ ctx[v].job = j /\ (BeginValidating(v) \/ BeginIssuing(v))
         \/ ctx[v].job = j /\ pc[v] \in {"validate", "issue"} /\ Unread(v)
<1>0. row \in [Jobs -> Row] /\ ctx[v].job \in Jobs /\ pc[v] # "idle"
  BY StepFlow, ThreadJob DEF Flow, TypeOK
<1>1. ASSUME NEW s \in States \ {"validating", "issuing"}, NEW c, SetRow(ctx[v].job, s, c)
      PROVE  row'[j] = row[j] \/ ~Interrupted(j)'
  BY <1>0, <1>1 DEF SetRow, Interrupted
<1>2. CASE AwaitDns(v)
  <2>1. SetRow(ctx[v].job, "awaiting_dns", row[ctx[v].job].cert)
    BY <1>2 DEF AwaitDns, Advance
  <2> QED
    BY <1>1, <2>1 DEF States
<1>3. CASE FinishIssuing(v)
  BY <1>1, <1>3 DEF FinishIssuing, FinishTarget, States
<1>4. CASE FailJob(v)
  BY <1>1, <1>4 DEF FailJob, FailTarget, States
<1>5. CASE RequireCleanup(v)
  BY <1>1, <1>5 DEF RequireCleanup, States
<1>6. CASE ServiceCancel(v)
  BY <1>1, <1>6 DEF ServiceCancel, States
<1>7. CASE Retarget(v)
  <2>1. CleanupTarget(ctx[v].job) \in {"issued", "cancelled"}
    BY <1>0 DEF CleanupTarget, TypeOK
  <2> QED
    BY <1>1, <1>7, <2>1 DEF Retarget, States
<1>8. CASE DeleteRow(v)
  BY <1>0, <1>8 DEF DeleteRow, Missing, Interrupted
<1>9. CASE BeginValidating(v) \/ BeginIssuing(v)
  BY <1>0, <1>9 DEF BeginValidating, BeginIssuing, Advance, SetRow
<1>10. CASE Unread(v)
  <2>1. CASE pc[v] \in {"validate", "issue"}
    <3>1. row'[j] = row[j] \/ ctx[v].job = j
      BY <1>0, <1>10 DEF Unread, SetRow
    <3> QED
      BY <1>10, <2>1, <3>1
  <2>2. CASE pc[v] \notin {"validate", "issue"}
    <3>1. PICK a \in Asks \ {"validate", "issue"} : pc[v] = a
      BY <1>10, <2>2 DEF Unread
    <3>2. CleanupTarget(ctx[v].job) \in {"issued", "cancelled"}
      BY <1>0 DEF CleanupTarget, TypeOK
    <3>3. Attempt(v)[2] \in States \ {"validating", "issuing"}
      BY <3>1, <3>2 DEF Asks, Attempt, FinishTarget, FailTarget, States
    <3>4. PICK c : SetRow(ctx[v].job, Attempt(v)[2], c)
      BY <1>10 DEF Unread
    <3> QED
      BY <1>1, <3>3, <3>4
  <2> QED
    BY <2>1, <2>2
<1> QED
  BY <1>2, <1>3, <1>4, <1>5, <1>6, <1>7, <1>8, <1>9, <1>10 DEF Step,
     EnsurePendingKey, CreateOrder, Present, PresentLeaks, Abort,
     TagRecords, AnswerChallenges, PollOrder, PollReady, Finalize,
     StoreCertificate, CompletionFails, CleanupRecords, DropPendingKey, DropKeyRaises,
     MarkIssued, Untag, ProveStaging, HandleFailure, Reread, Conflict,
     CancelCleanup, MarkCancelled, RetryRemove

\* A thread that goes on without a look at the rows keeps the job in hand.
LEMMA KeepsHand ==
  ASSUME NEW w \in Workers, NEW j \in Jobs, Attends(w, j), row' = row,
         /\ ctx'[w].job = j /\ ctx'[w].state = ctx[w].state /\ ctx'[w].version = ctx[w].version,
         \/ pc[w] = "answer" /\ pc'[w] = "poll"
         \/ pc[w] = "poll" /\ pc'[w] = "polling"
         \/ pc[w] = "polling" /\ pc'[w] = "issue"
         \/ pc[w] = "finalize" /\ pc'[w] = "store"
         \/ pc[w] = "store" /\ pc'[w] = "cleanup"
         \/ pc[w] = "cleanup" /\ pc'[w] = "drop_key"
         \/ pc[w] = "drop_key" /\ pc'[w] \in {"mark_issued", "finish"}
         \/ pc[w] = "mark_issued" /\ pc'[w] = "finish"
         \/ pc'[w] \in {"handle", "reread"}
  PROVE  Attends(w, j)'
BY DEF Attends, Underway, Asking, Issuing

\* The thread that has the job in hand either keeps it or takes it out of flight.
LEMMA AttendStep ==
  ASSUME NoAbandonment, TypeOK, NEW w \in Workers, NEW j \in Jobs, Attends(w, j), Interrupted(j),
         Step(w)
  PROVE  ~Interrupted(j)' \/ Attends(w, j)'
<1> USE DEF settings, artifacts, world, process
<1>0. /\ pc \in [Workers -> Labels] /\ ctx \in [Workers -> Context] /\ ctx[w] \in Context
      /\ row \in [Jobs -> Row] /\ ctx[w].job = j /\ pc[w] \in Underway
  BY DEF TypeOK, Threads, Attends
<1>1. CASE \/ AnswerChallenges(w) \/ PollOrder(w) \/ PollReady(w) \/ Finalize(w)
           \/ StoreCertificate(w) \/ CompletionFails(w) \/ DropPendingKey(w) \/ MarkIssued(w)
  <2>1. row' = row /\ (ctx' = ctx \/ \E o : ctx' = [ctx EXCEPT ![w] = [ctx[w] EXCEPT !.ord = o]])
    BY <1>1 DEF AnswerChallenges, PollOrder, PollReady, Finalize, StoreCertificate,
       CompletionFails, DropPendingKey, MarkIssued
  <2>2. ctx'[w].job = j /\ ctx'[w].state = ctx[w].state /\ ctx'[w].version = ctx[w].version
    BY <1>0, <2>1 DEF Context
  <2>3. \/ pc[w] = "answer" /\ pc'[w] = "poll"
        \/ pc[w] = "poll" /\ pc'[w] = "polling"
        \/ pc[w] = "polling" /\ pc'[w] = "issue"
        \/ pc[w] = "finalize" /\ pc'[w] = "store"
        \/ pc[w] = "store" /\ pc'[w] = "cleanup"
        \/ pc[w] = "drop_key" /\ pc'[w] \in {"mark_issued", "finish"}
        \/ pc[w] = "mark_issued" /\ pc'[w] = "finish"
        \/ pc'[w] = "handle"
    BY ONLY <1>0, <1>1, w \in Workers DEF AnswerChallenges, PollOrder, PollReady, Finalize,
       StoreCertificate, CompletionFails, DropPendingKey, MarkIssued, Goto
  <2> QED
    BY <2>1, <2>2, <2>3, KeepsHand
<1>2. CASE CleanupRecords(w) \/ HandleFailure(w)
  <2>1. /\ row' = row
        /\ \/ pc[w] = "cleanup" /\ pc'[w] = "drop_key"
           \/ pc[w] = "handle" /\ pc'[w] = "reread"
        /\ \E e \in BOOLEAN : ctx' = [ctx EXCEPT ![w] = [ctx[w] EXCEPT !.errors = e]]
    BY <1>0, <1>2 DEF CleanupRecords, HandleFailure, Cleanup, Goto, NoAbandonment
  <2>2. PICK e \in BOOLEAN : ctx'[w] = [ctx[w] EXCEPT !.errors = e]
    BY <1>0, <2>1
  <2>3. ctx'[w].job = j /\ ctx'[w].state = ctx[w].state /\ ctx'[w].version = ctx[w].version
    BY ONLY <1>0, <2>2 DEF Context
  <2> QED
    BY <2>1, <2>3, KeepsHand
<1>3. CASE BeginIssuing(w)
  <2>1. /\ pc[w] = "issue" /\ pc'[w] = "finalize"
        /\ row' = [row EXCEPT ![j] = [state |-> "issuing", version |-> row[j].version + 1,
                                      cert |-> row[j].cert]]
        /\ ctx' = [ctx EXCEPT ![w].state = "issuing", ![w].version = @ + 1]
    BY <1>0, <1>3 DEF BeginIssuing, Advance, SetRow, Goto
  <2>2. ctx'[w].job = j /\ ctx'[w].version = ctx[w].version + 1
    <3>1. ctx'[w] = [ctx[w] EXCEPT !.state = "issuing", !.version = ctx[w].version + 1]
      BY ONLY <1>0, <2>1, w \in Workers DEF Context
    <3> QED
      BY ONLY <1>0, <3>1 DEF Context
  <2>3. row'[j].state = "issuing" /\ row'[j].version = row[j].version + 1
    BY <1>0, <2>1
  <2>4. ctx[w].version = row[j].version
    BY <2>1 DEF Attends, Asking
  <2> QED
    BY <2>1, <2>2, <2>3, <2>4 DEF Attends, Underway, Asking, Issuing
<1>4. CASE FinishIssuing(w) \/ FailJob(w)
  <2>1. \E t \in States \ {"validating", "issuing"} : \E c : SetRow(j, t, c)
    BY <1>0, <1>4 DEF FinishIssuing, FinishTarget, FailJob, FailTarget, States
  <2> QED
    BY <1>0, <2>1 DEF SetRow, Interrupted
<1>5. CASE Reread(w)
  <2>1. /\ pc[w] = "reread" /\ row' = row /\ pc'[w] = "fail"
        /\ ctx' = [ctx EXCEPT ![w].state = row[j].state, ![w].version = row[j].version]
    BY <1>0, <1>5 DEF Reread, Exists, Interrupted, States, Goto
  <2>2. ctx'[w].job = j /\ ctx'[w].state = row[j].state /\ ctx'[w].version = row[j].version
    <3>1. ctx'[w] = [ctx[w] EXCEPT !.state = row[j].state, !.version = row[j].version]
      BY ONLY <1>0, <2>1, w \in Workers DEF Context
    <3> QED
      BY ONLY <1>0, <3>1 DEF Context
  <2> QED
    BY <2>1, <2>2 DEF Attends, Underway, Asking, Issuing
<1>6. CASE Conflict(w)
  <2>1. pc[w] \in {"issue", "finish", "fail"}
    BY <1>0, <1>6 DEF Conflict, Asks, Underway, Asking, Issuing
  <2>2. ctx[w].version = row[j].version
    BY <2>1 DEF Attends, Asking, Issuing
  <2>3. CanTransition(w, Attempt(w)[1], Attempt(w)[2])
    <3>1. CASE pc[w] = "issue"
      BY <1>0, <2>2, <3>1, CompletionEdges DEF Attends, CanTransition, Current, Attempt
    <3>2. CASE pc[w] = "finish"
      BY <1>0, <2>2, <3>2, CompletionEdges DEF Attends, Issuing, CanTransition, Current, Attempt,
         FinishTarget
    <3>3. CASE pc[w] = "fail"
      BY <1>0, <2>2, <3>3, CompletionEdges DEF Attends, Interrupted, CanTransition, Current,
         Attempt, FailTarget
    <3> QED
      BY <2>1, <3>1, <3>2, <3>3
  <2> QED
    BY <1>6, <2>3 DEF Conflict
<1>7. CASE Unread(w)
  <2>1. /\ pc[w] \in {"issue", "finish", "fail"}
        /\ \/ pc'[w] = "handle" /\ ctx' = ctx
           \/ pc[w] # "issue"
    BY <1>0, <1>7 DEF Unread, Asks, Underway, Asking, Issuing, Goto
  <2>2. pc[w] = "issue"
    BY <1>7, <2>1 DEF Unread, NoAbandonment
  <2> QED
    BY <1>0, <2>1, <2>2 DEF Attends, Underway, Asking, Issuing
<1> QED
  <2>1. pc[w] \notin {"ensure_key", "create_order", "present", "tag", "await", "validate", "untag",
                      "prove", "cancel_cleanup", "mark_cancelled", "require_cleanup", "svc_cancel",
                      "retry", "retarget", "delete"}
    BY <1>0 DEF Underway, Asking, Issuing
  <2>2. \/ AnswerChallenges(w) \/ PollOrder(w) \/ PollReady(w) \/ Finalize(w)
        \/ StoreCertificate(w) \/ CompletionFails(w) \/ DropPendingKey(w) \/ MarkIssued(w)
        \/ CleanupRecords(w) \/ HandleFailure(w) \/ BeginIssuing(w) \/ FinishIssuing(w)
        \/ FailJob(w) \/ Reread(w) \/ Conflict(w) \/ Unread(w)
    BY <2>1 DEF Step, EnsurePendingKey, CreateOrder, Present, PresentLeaks, Abort, NoAbandonment,
       DropKeyRaises, TagRecords, AwaitDns, BeginValidating, Untag, ProveStaging, CancelCleanup,
       MarkCancelled, RequireCleanup, ServiceCancel, RetryRemove, Retarget, DeleteRow
  <2> QED
    BY <1>1, <1>2, <1>3, <1>4, <1>5, <1>6, <1>7, <2>2

\* Whatever else happens, the job stays in that thread's hands as long as it is in flight.
LEMMA AttendNext ==
  ASSUME NoAbandonment, TypeOK, Exclusive, mode = "serving", NEW w \in Workers, NEW j \in Jobs,
         Attends(w, j), Interrupted(j), [Next]_vars
  PROVE  \/ ~Interrupted(j)'
         \/ Attends(w, j)' /\ (pc'[w] = pc[w] \/ Remaining(pc'[w]) < Remaining(pc[w]))
<1> USE DEF settings, artifacts, world, process
<1>0. pc[w] \in Completing /\ pc[w] # "idle" /\ ctx[w].job = j
  BY DEF Attends, Underway, Asking, Issuing, Completing
<1>7. row \in [Jobs -> Row]
  BY DEF TypeOK
<1>1. ASSUME pc'[w] = pc[w], ctx'[w] = ctx[w], row'[j] = row[j] PROVE Attends(w, j)'
  BY <1>1 DEF Attends
<1>2. CASE Step(w)
  BY <1>2, AttendStep, StepForward
<1>3. ASSUME NEW v \in Workers \ {w}, Step(v)
      PROVE  ~Interrupted(j)' \/ (Attends(w, j)' /\ pc'[w] = pc[w])
  <2>1. pc'[w] = pc[w] /\ ctx'[w] = ctx[w]
    BY <1>3, StepFlow DEF Flow
  <2>2. ~(ctx[v].job = j /\ BeginValidating(v))
    BY DEF BeginValidating, Advance, CanTransition, Current, Interrupted
  <2>3. ~(ctx[v].job = j /\ (BeginIssuing(v) \/ (pc[v] = "issue" /\ Unread(v))))
    BY <1>0 DEF BeginIssuing, Exclusive, Completing
  <2>4. ~(pc[v] = "validate" /\ Unread(v))
    BY DEF Unread, NoAbandonment
  <2> QED
    BY <1>1, <1>3, <2>1, <2>2, <2>3, <2>4, IntoFlight
<1>4. ASSUME NEW v \in Workers, Request(v) PROVE Attends(w, j)' /\ pc'[w] = pc[w]
  <2>1. pc[v] = "idle"
    BY <1>4 DEF Request, StartAcme, ContinueManualDns, CancelAcme, RetryCleanup,
       DeleteTerminalJob, Enter
  <2>2. pc'[w] = pc[w] /\ ctx'[w] = ctx[w] /\ row' = row
    BY <1>0, <1>4, <2>1, RequestEntry DEF Entry
  <2> QED
    BY <1>1, <2>2
<1>5. CASE System
  <2>1. UNCHANGED <<pc, ctx>> /\ row'[j] = row[j]
    BY <1>7, <1>5 DEF System, CreateJob, Crash, NoAbandonment, Recovery, RecoverJob, RecoveryRaises,
       Serve, Outside, ServerValidates, UserPublishes, Interrupted
  <2> QED
    BY <1>1, <2>1
<1>6. CASE UNCHANGED vars
  BY <1>1, <1>6 DEF vars
<1> QED
  BY <1>2, <1>3, <1>4, <1>5, <1>6 DEF Next, System

\* A job comes into flight by the thread that then has it in hand.
LEMMA NewlyInFlight ==
  ASSUME TypeOK, mode = "serving", NEW j \in Jobs, ~Interrupted(j), Interrupted(j)', [Next]_vars,
         NoAbandonment
  PROVE  \E w \in Workers : Attends(w, j)'
<1> USE DEF settings, artifacts, world, process
<1>0. /\ ctx \in [Workers -> Context] /\ row \in [Jobs -> Row] /\ pc \in [Workers -> Labels]
      /\ row'[j] # row[j]
  BY DEF TypeOK, Threads, Interrupted
<1>1. ~System
  BY <1>0 DEF System, CreateJob, Missing, Crash, Recovery, RecoverJob, RecoveryRaises,
     Serve, Outside, ServerValidates, UserPublishes, Interrupted
<1>2. ~\E w \in Workers : Request(w)
  BY <1>0, RequestEntry DEF Entry
<1>3. PICK w \in Workers : Step(w)
  BY <1>0, <1>1, <1>2 DEF Next, System, vars
<1>9. ~(ctx[w].job = j /\ pc[w] \in {"validate", "issue"} /\ Unread(w))
  <2>1. pc[w] = "issue" /\ Unread(w) => row[ctx[w].job].state = "validating"
    BY DEF Unread, Attempt, CanTransition, Current
  <2> QED
    BY <2>1 DEF Unread, NoAbandonment, Interrupted
<1>4. ctx[w].job = j /\ (BeginValidating(w) \/ BeginIssuing(w))
  BY <1>0, <1>3, <1>9, IntoFlight
<1>5. BeginValidating(w)
  BY <1>4 DEF BeginIssuing, Advance, CanTransition, Current, Interrupted
<1>6. /\ pc'[w] = "answer"
      /\ row' = [row EXCEPT ![j] = [state |-> "validating", version |-> row[j].version + 1,
                                    cert |-> row[j].cert]]
      /\ ctx' = [ctx EXCEPT ![w].state = "validating", ![w].version = @ + 1]
      /\ ctx[w].version = row[j].version
  BY <1>0, <1>4, <1>5 DEF BeginValidating, Advance, CanTransition, Current, SetRow, Goto
<1>7. ctx'[w].job = j /\ ctx'[w].version = ctx[w].version + 1
  <2>1. ctx[w] \in Context /\ ctx'[w] = [ctx[w] EXCEPT !.state = "validating", !.version = ctx[w].version + 1]
    BY ONLY <1>0, <1>6, w \in Workers DEF Context
  <2> QED
    BY ONLY <1>4, <2>1 DEF Context
<1>8. row'[j].state = "validating" /\ row'[j].version = row[j].version + 1
  BY <1>0, <1>6
<1> QED
  BY <1>6, <1>7, <1>8 DEF Attends, Underway, Asking, Issuing

\* In hand from one step to the next.
LEMMA InHandNext ==
  ASSUME NoAbandonment, TypeOK, Exclusive, InHand, [Next]_vars PROVE InHand'
<1>1. mode' = "serving"
  <2>1. ASSUME NEW w \in Workers, Step(w) PROVE mode' = mode
    <3>1. UNCHANGED process
      BY <2>1 DEF Step, EnsurePendingKey, CreateOrder, Present, PresentLeaks, Abort, TagRecords,
         AwaitDns, BeginValidating, AnswerChallenges, PollOrder, PollReady, BeginIssuing, Finalize,
         StoreCertificate, CompletionFails, CleanupRecords, DropPendingKey, DropKeyRaises,
         MarkIssued, FinishIssuing, Untag, ProveStaging, HandleFailure, Reread, FailJob, Conflict,
         Unread, CancelCleanup, MarkCancelled, RequireCleanup, ServiceCancel, RetryRemove, Retarget,
         DeleteRow
    <3> QED
      BY <3>1 DEF process
  <2>2. ASSUME NEW w \in Workers, Request(w) PROVE mode' = mode
    BY <2>2 DEF Request, StartAcme, ContinueManualDns, CancelAcme, RetryCleanup, DeleteTerminalJob,
       process
  <2>3. ASSUME System PROVE mode' = "serving"
    BY <2>3 DEF InHand, NoAbandonment, System, CreateJob, Crash, Recovery, RecoverJob,
       RecoveryRaises, Serve, Outside, ServerValidates, UserPublishes, process
  <2>4. CASE UNCHANGED vars
    BY <2>4 DEF vars, process, InHand
  <2> QED
    BY <2>1, <2>2, <2>3, <2>4 DEF Next, System, InHand
<1>2. ASSUME NEW j \in Jobs, Interrupted(j)' PROVE \E w \in Workers : Attends(w, j)'
  BY <1>2, AttendNext, NewlyInFlight DEF InHand
<1> QED
  BY <1>1, <1>2 DEF InHand

\* Before the first request no job is in flight.
LEMMA InHandInit == Init => InHand
BY DEF Init, InHand, Interrupted, Missing

\* When none of the faults of NoAbandonment happens, no job is left in validating or issuing
\* without a thread that completes it, whatever other requests cancel or delete and whatever
\* raises inside the try: the ACME server, the database, the disk or the DNS provider's refusal.
THEOREM NoJobAbandoned ==
  ASSUME NoAbandonment
  PROVE  Spec => []NoneAbandoned
<1>1. Init => InHand
  BY InHandInit
<1>2. Invariant /\ InHand /\ [Next]_vars => InHand'
  BY InHandNext DEF Invariant
<1>3. InHand => NoneAbandoned
  BY DEF InHand, NoneAbandoned, Attends, Underway, Asking, Issuing, Completing
<1> QED
  BY <1>1, <1>2, <1>3, InvariantHolds, PTL DEF Spec

\* What weak fairness of Step(w) comes to, as a step of a request can always be taken.
GoesOn(w) == []<>(pc[w] = "idle") \/ []<><<Step(w)>>_vars
EveryThreadGoesOn == \A w \in Workers : GoesOn(w)

Sound == TypeOK /\ Exclusive /\ InHand

\* The job is in flight and in the hands of w, with at most n steps to go.
Within(w, j, n) == Interrupted(j) /\ Attends(w, j) /\ Remaining(pc[w]) <= n

\* From n steps to go to m, unless the job is out of flight before.
LeadsDown(w, j, n, m) == Within(w, j, n) => <>(~Interrupted(j) \/ Within(w, j, m))

\* The number of steps to go is a natural number.
LEMMA RemainingNat == ASSUME NEW label PROVE Remaining(label) \in Nat
BY DEF Remaining

\* With each step of the thread there is one step less to go.
LEMMA OneStepLess ==
  ASSUME NoAbandonment, []Sound, [][Next]_vars, NEW w \in Workers, NEW j \in Jobs,
         NEW n \in Nat, NEW m \in Nat, n = m + 1, []GoesOn(w)
  PROVE  LeadsDown(w, j, n, m)
<1>1. Sound /\ Within(w, j, n) /\ [Next]_vars => (~Interrupted(j) \/ Within(w, j, n))'
  <2>1. SUFFICES ASSUME Sound, Within(w, j, n), [Next]_vars, Interrupted(j)'
                 PROVE  Within(w, j, n)'
    OBVIOUS
  <2>2. Attends(w, j)' /\ (pc'[w] = pc[w] \/ Remaining(pc'[w]) < Remaining(pc[w]))
    BY <2>1, AttendNext DEF Sound, InHand, Within
  <2>3. Remaining(pc'[w]) \in Nat /\ Remaining(pc[w]) \in Nat
    BY RemainingNat
  <2> QED
    BY <2>1, <2>2, <2>3 DEF Within
<1>2. Sound /\ Within(w, j, n) /\ [Next]_vars /\ <<Step(w)>>_vars =>
        (~Interrupted(j) \/ Within(w, j, m))'
  <2>1. SUFFICES ASSUME Sound, Within(w, j, n), [Next]_vars, Step(w), Interrupted(j)'
                 PROVE  Within(w, j, m)'
    OBVIOUS
  <2>2. Attends(w, j)' /\ Remaining(pc'[w]) < Remaining(pc[w])
    BY <2>1, AttendNext, StepForward DEF Sound, InHand, Within
  <2>3. Remaining(pc'[w]) \in Nat /\ Remaining(pc[w]) \in Nat
    BY RemainingNat
  <2> QED
    BY <2>1, <2>2, <2>3 DEF Within
<1>3. pc[w] = "idle" => ~Within(w, j, n)
  BY DEF Within, Attends, Underway, Asking, Issuing
<1> QED
  BY <1>1, <1>2, <1>3, PTL DEF GoesOn, LeadsDown

\* A thread that goes on takes the job it has in hand out of flight, in the twelve steps
\* _complete_dns has at most.
LEMMA HandSettles ==
  ASSUME NoAbandonment, []Sound, [][Next]_vars, NEW w \in Workers, NEW j \in Jobs, []GoesOn(w)
  PROVE  Interrupted(j) /\ Attends(w, j) => <>~Interrupted(j)
<1>0. \A n \in {0, 1, 2, 3, 4, 5, 6, 7, 8, 9, 10, 11, 12} : n \in Nat
  OBVIOUS
<1>1. LeadsDown(w, j, 1, 0)
  BY <1>0, 1 = 0 + 1, OneStepLess
<1>2. LeadsDown(w, j, 2, 1)
  BY <1>0, 2 = 1 + 1, OneStepLess
<1>3. LeadsDown(w, j, 3, 2)
  BY <1>0, 3 = 2 + 1, OneStepLess
<1>4. LeadsDown(w, j, 4, 3)
  BY <1>0, 4 = 3 + 1, OneStepLess
<1>5. LeadsDown(w, j, 5, 4)
  BY <1>0, 5 = 4 + 1, OneStepLess
<1>6. LeadsDown(w, j, 6, 5)
  BY <1>0, 6 = 5 + 1, OneStepLess
<1>7. LeadsDown(w, j, 7, 6)
  BY <1>0, 7 = 6 + 1, OneStepLess
<1>8. LeadsDown(w, j, 8, 7)
  BY <1>0, 8 = 7 + 1, OneStepLess
<1>9. LeadsDown(w, j, 9, 8)
  BY <1>0, 9 = 8 + 1, OneStepLess
<1>10. LeadsDown(w, j, 10, 9)
  BY <1>0, 10 = 9 + 1, OneStepLess
<1>11. LeadsDown(w, j, 11, 10)
  BY <1>0, 11 = 10 + 1, OneStepLess
<1>12. LeadsDown(w, j, 12, 11)
  BY <1>0, 12 = 11 + 1, OneStepLess
<1>13. Interrupted(j) /\ Attends(w, j) => Within(w, j, 12)
  BY Levels DEF Within, Attends, Underway, Asking, Issuing
<1>14. ~Within(w, j, 0)
  BY Levels DEF Within, Attends, Underway, Asking, Issuing
<1> QED
  BY <1>1, <1>2, <1>3, <1>4, <1>5, <1>6, <1>7, <1>8, <1>9, <1>10, <1>11, <1>12, <1>13, <1>14, PTL
     DEF LeadsDown

\* And some thread has it in hand.
LEMMA JobSettles ==
  ASSUME NoAbandonment, []Sound, [][Next]_vars, []EveryThreadGoesOn, NEW j \in Jobs
  PROVE  Interrupted(j) => <>~Interrupted(j)
<1>1. ASSUME NEW w \in Workers PROVE Interrupted(j) /\ Attends(w, j) => <>~Interrupted(j)
  <2>1. EveryThreadGoesOn => GoesOn(w)
    BY DEF EveryThreadGoesOn
  <2>2. []GoesOn(w)
    BY <2>1, PTL
  <2> QED
    BY <2>2, HandSettles
<1>2. (\E w \in Workers : Interrupted(j) /\ Attends(w, j)) => <>~Interrupted(j)
  BY <1>1
<1>3. Sound /\ Interrupted(j) => \E w \in Workers : Interrupted(j) /\ Attends(w, j)
  BY DEF Sound, InHand
<1> QED
  BY <1>2, <1>3, PTL

\* When every thread that serves a request goes on and none of the faults of NoAbandonment
\* happens, a job that is being validated or issued comes to rest (_complete_dns), with any number
\* of jobs, orders and threads and however requests cross.
THEOREM InFlightComesToRest ==
  ASSUME NoAbandonment
  PROVE  Spec /\ []EveryThreadGoesOn => InFlightSettles
<1>1. Spec => []Sound
  <2>1. Init => InHand
    BY InHandInit
  <2>2. Invariant /\ InHand /\ [Next]_vars => InHand'
    BY InHandNext DEF Invariant
  <2>3. Invariant /\ InHand => Sound
    BY DEF Invariant, Sound
  <2> QED
    BY <2>1, <2>2, <2>3, InvariantHolds, PTL DEF Spec
<1> SUFFICES ASSUME []Sound, [][Next]_vars, []EveryThreadGoesOn PROVE InFlightSettles
  BY <1>1, PTL DEF Spec
<1>2. ASSUME NEW j \in Jobs PROVE Interrupted(j) ~> ~Interrupted(j)
  <2>1. Interrupted(j) => <>~Interrupted(j)
    BY JobSettles
  <2> QED
    BY <2>1, PTL
<1> QED
  BY <1>2 DEF InFlightSettles

=============================================================================

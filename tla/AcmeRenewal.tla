----------------------------- MODULE AcmeRenewal -----------------------------
(***************************************************************************)
(* An ACME renewal as the request threads of the server run it             *)
(* (certmon/renewals.py, certmon/acme_service.py, certmon/dns), over the    *)
(* renewal_jobs table, three settings and two artifact sets, with a DNS     *)
(* zone and an ACME server outside, and a process that may stop anywhere    *)
(* and reconciles its jobs before it serves again.                          *)
(*                                                                         *)
(* Nothing in the code keeps two requests away from one job: every thread   *)
(* works on what it read, and only the compare-and-set of transition_job    *)
(* and the order of the steps protect a job.  An action is one step of one  *)
(* thread between two points where another thread, or a crash, can come in. *)
(***************************************************************************)
EXTENDS Naturals, RenewalStates

CONSTANTS
  Jobs,            \* renewal jobs, all of one set of identifiers
  Orders,          \* ACME orders; an order also names its TXT record and
                   \* the certificate it yields
  Workers,         \* threads of the web server
  NoOrder,
  CloudflareJobs,  \* jobs with dns_provider cloudflare; the others are manual
  StagingJobs,     \* jobs of the staging environment; the others production
  Faults           \* which of FaultKinds may happen

FaultKinds ==
  {"crash",           \* the process stops and is started again
   "cleanup_error",   \* the DNS provider refuses a DELETE
   "cleanup_raises",  \* the connection fails during a DELETE
   "present_leaks",   \* present fails and leaves the TXT record behind
   "unrecorded",      \* a write fails between presenting the records and the
                      \* transition to awaiting_dns
   "request_error",   \* the database or the disk fails in a request, outside
                      \* the try of _complete_dns
   "lost_reply",      \* the ACME server issues and its answer is lost
   "ca_down"}         \* the ACME server does not answer during recovery

ASSUME OrderAssumption == NoOrder \notin Orders
ASSUME JobAssumption == CloudflareJobs \subseteq Jobs /\ StagingJobs \subseteq Jobs
ASSUME FaultAssumption == Faults \subseteq FaultKinds

VARIABLES
  row,         \* renewal_jobs: state, version and certificate_id of each job
  order,       \* setting acme-order:<job>
  presented,   \* setting acme-dns:<job>, NoOrder when there is none
  target,      \* setting acme-cleanup-target:<job>, "none" when there is none
  proof,       \* setting acme-staging-proof:<identifiers> is there
  pendingKey,  \* artifact set acme-<job> (private key and CSR) is there
  certs,       \* stored certificates: artifact set and row of certificates
  zone,        \* TXT records that are live
  placed,      \* ACME server: the orders created for each job
  status,      \* ACME server: the status of each order
  mode,        \* the process: serving, recovering, or down after recovery failed
  todo,        \* the jobs recovery has still to look at
  pc,          \* where each thread is
  ctx          \* the locals of each thread

settings == <<order, presented, target, proof>>
artifacts == <<pendingKey, certs>>
world == <<zone, placed, status>>
process == <<mode, todo>>
vars == <<row, settings, artifacts, world, process, pc, ctx>>

None == "none"

\* The steps of _complete_dns, from the transition to validating on.
Completing ==
  {"answer", "poll", "polling", "issue", "finalize", "store", "cleanup",
   "drop_key", "mark_issued", "finish", "untag", "prove",
   "handle", "reread", "fail"}

\* From the answer of finalize on, a thread holds a certificate.
Holding == {"store", "cleanup", "drop_key", "mark_issued", "finish", "untag",
            "prove"}

Labels ==
  Completing \cup
  {"idle", "ensure_key", "create_order", "present", "tag", "await", "validate",
   "svc_cancel", "cancel_cleanup", "mark_cancelled", "require_cleanup",
   "retry", "retarget", "delete"}

\* The locals of a request: the job row it read, the record it presented or
\* loaded, the order it polls or has finalized, and cleanup.errors.
Context == [job : Jobs \cup {None}, state : States \cup {None}, version : Nat,
            rec : Orders \cup {NoOrder}, ord : Orders \cup {NoOrder},
            errors : BOOLEAN]

NoContext == [job |-> None, state |-> None, version |-> 0, rec |-> NoOrder,
              ord |-> NoOrder, errors |-> FALSE]

Row == [state : States \cup NoRow, version : Nat, cert : Orders \cup {NoOrder}]

Missing(s) == [state |-> s, version |-> 0, cert |-> NoOrder]

\* What the locals of a thread are at each label.
ThreadOK(label, c) ==
  /\ label \in Labels
  /\ c \in Context
  /\ label # "idle" => c.job \in Jobs /\ c.state \in States
  /\ label \in {"present", "tag", "await"} => c.rec \in Orders
  /\ label \in {"polling", "issue"} \cup Holding => c.ord \in Orders

Threads ==
  /\ pc \in [Workers -> Labels]
  /\ ctx \in [Workers -> Context]
  /\ \A w \in Workers : ThreadOK(pc[w], ctx[w])

TypeOK ==
  /\ row \in [Jobs -> Row]
  /\ order \in [Jobs -> Orders \cup {NoOrder}]
  /\ presented \in [Jobs -> Orders \cup {NoOrder}]
  /\ target \in [Jobs -> {"none", "issued", "cancelled"}]
  /\ proof \in BOOLEAN
  /\ pendingKey \in [Jobs -> BOOLEAN]
  /\ certs \in SUBSET Orders
  /\ zone \in SUBSET Orders
  /\ placed \in [Jobs -> SUBSET Orders]
  /\ status \in [Orders -> {"unused", "pending", "answered", "ready", "valid",
                            "invalid"}]
  /\ mode \in {"serving", "recovering", "down"}
  /\ todo \in SUBSET Jobs
  /\ Threads

Init ==
  /\ row = [j \in Jobs |-> Missing("absent")]
  /\ order = [j \in Jobs |-> NoOrder]
  /\ presented = [j \in Jobs |-> NoOrder]
  /\ target = [j \in Jobs |-> "none"]
  /\ proof = FALSE
  /\ pendingKey = [j \in Jobs |-> FALSE]
  /\ certs = {}
  /\ zone = {}
  /\ placed = [j \in Jobs |-> {}]
  /\ status = [o \in Orders |-> "unused"]
  /\ mode = "serving"
  /\ todo = {}
  /\ pc = [w \in Workers |-> "idle"]
  /\ ctx = [w \in Workers |-> NoContext]

(***************************************************************************)
(* What every request is made of                                           *)
(***************************************************************************)

Goto(w, label) == pc' = [pc EXCEPT ![w] = label]

\* The request ends, with a result or with an exception.
Return(w) == Goto(w, "idle") /\ ctx' = [ctx EXCEPT ![w] = NoContext]

\* A request comes in on a free thread and reads its job.
Enter(w, j, rec, label) ==
  /\ mode = "serving"
  /\ pc[w] = "idle"
  /\ Goto(w, label)
  /\ ctx' = [ctx EXCEPT ![w] = [job |-> j, state |-> row[j].state,
                                version |-> row[j].version, rec |-> rec,
                                ord |-> NoOrder, errors |-> FALSE]]

Exists(j) == row[j].state \in States

\* Mutant: the UPDATE looks for the job by its identifier only.
CurrentById(j, state, version) == Exists(j)

\* The WHERE clause of the UPDATE in transition_job: is the row still the one
\* this thread read?
Current(j, state, version) == row[j].state = state /\ row[j].version = version

\* Mutant: transition goes to the database without validate_transition.
CanTransitionUnchecked(w, state, to) == Current(ctx[w].job, state, ctx[w].version)

\* RenewalService.transition accepts: the edge is in the table and the row is
\* the expected one.
CanTransition(w, state, to) ==
  /\ ValidTransition(state, to)
  /\ Current(ctx[w].job, state, ctx[w].version)

\* The UPDATE of transition_job.
SetRow(j, to, cert) ==
  row' = [row EXCEPT ![j] = [state |-> to, version |-> row[j].version + 1,
                             cert |-> cert]]

\* The transition of a thread that goes on with the row transition_job returns.
Advance(w, from, to, label) ==
  /\ CanTransition(w, from, to)
  /\ SetRow(ctx[w].job, to, row[ctx[w].job].cert)
  /\ ctx' = [ctx EXCEPT ![w].state = to, ![w].version = @ + 1]
  /\ Goto(w, label)

(***************************************************************************)
(* DNS providers.  A manual provider touches no zone; Cloudflare's cleanup   *)
(* deletes the record (404 counts as deleted), collects a refusal in        *)
(* cleanup.errors, or lets a connection error out of the whole request.      *)
(***************************************************************************)

Cleanup(w, clean, refused) ==
  LET rec == ctx[w].rec
      remote == ctx[w].job \in CloudflareJobs /\ rec # NoOrder
  IN \/ /\ zone' = IF remote THEN zone \ {rec} ELSE zone
        /\ Goto(w, clean)
        /\ ctx' = [ctx EXCEPT ![w].errors = FALSE]
     \/ /\ "cleanup_error" \in Faults /\ remote
        /\ UNCHANGED zone
        /\ Goto(w, refused)
        /\ ctx' = [ctx EXCEPT ![w] = IF refused = "idle" THEN NoContext
                                     ELSE [@ EXCEPT !.errors = TRUE]]
     \/ /\ "cleanup_raises" \in Faults /\ remote
        /\ zone' \in {zone, zone \ {rec}}
        /\ Return(w)

(***************************************************************************)
(* Creating and starting a job                                             *)
(***************************************************************************)

\* RenewalService.create_job.
CreateJob(j) ==
  /\ mode = "serving"
  /\ row[j].state = "absent"
  /\ row' = [row EXCEPT ![j] = Missing("draft")]
  /\ UNCHANGED <<settings, artifacts, world, process, pc, ctx>>

\* Mutant: a staging job that has begun is taken for one that has succeeded.
StagingBegun(j) == j \in StagingJobs \/ \E k \in StagingJobs : row[k].state # "absent"

\* A production job needs the proof a staging issuance leaves behind.
StagingGate(j) == j \in StagingJobs \/ proof

\* start_acme, up to the account: the job is a draft and the gate is open.
StartAcme(w, j) ==
  /\ row[j].state = "draft"
  /\ StagingGate(j)
  /\ Enter(w, j, NoOrder, "ensure_key")
  /\ UNCHANGED <<row, settings, artifacts, world, process>>

\* _ensure_pending_key_and_csr: the key and CSR are made once and then reused.
EnsurePendingKey(w) ==
  /\ pc[w] = "ensure_key"
  /\ pendingKey' = [pendingKey EXCEPT ![ctx[w].job] = TRUE]
  /\ Goto(w, "create_order")
  /\ UNCHANGED <<row, settings, certs, world, process, ctx>>

\* create_order: an order at the ACME server, written over acme-order:<job>
\* whatever was there and whoever is working on it.
CreateOrder(w) ==
  LET j == ctx[w].job IN
  /\ pc[w] = "create_order"
  /\ Exists(j)
  /\ \E o \in Orders :
       /\ status[o] = "unused"
       /\ status' = [status EXCEPT ![o] = "pending"]
       /\ placed' = [placed EXCEPT ![j] = @ \cup {o}]
       /\ order' = [order EXCEPT ![j] = o]
       /\ ctx' = [ctx EXCEPT ![w].rec = o]
  /\ Goto(w, "present")
  /\ UNCHANGED <<row, presented, target, proof, artifacts, zone, process>>

\* _present, the provider's part.
Present(w) ==
  LET c == ctx[w] IN
  /\ pc[w] = "present"
  /\ zone' = IF c.job \in CloudflareJobs THEN zone \cup {c.rec} ELSE zone
  /\ Goto(w, "tag")
  /\ UNCHANGED <<row, settings, artifacts, placed, status, process, ctx>>

\* present raises after the provider created a record and could not take it
\* back: present ignores the result of its own cleanup.
PresentLeaks(w) ==
  /\ pc[w] = "present"
  /\ "present_leaks" \in Faults
  /\ ctx[w].job \in CloudflareJobs
  /\ zone' = zone \cup {ctx[w].rec}
  /\ Return(w)
  /\ UNCHANGED <<row, settings, artifacts, placed, status, process>>

\* The steps of a request that no except clause guards, from the transition to
\* awaiting_dns on: the except clauses themselves are among them.
Unguarded == {"validate", "mark_issued", "finish", "untag", "prove", "reread", "fail",
              "mark_cancelled", "require_cleanup", "svc_cancel", "retarget", "delete"}

\* An exception leaves the request, and nothing is taken back: before anything is
\* presented, between presenting the records and recording them and the job's new
\* state, and wherever else the step fails before it has changed anything.
Abort(w) ==
  /\ \/ pc[w] \in {"ensure_key", "create_order", "present"}
     \/ "unrecorded" \in Faults /\ pc[w] \in {"tag", "await"}
     \/ "request_error" \in Faults /\ pc[w] \in Unguarded
  /\ Return(w)
  /\ UNCHANGED <<row, settings, artifacts, world, process>>

\* _present, put_setting: acme-dns:<job> now names these records only.  A
\* replacement of an expired challenge ends here, without a transition.
TagRecords(w) ==
  LET c == ctx[w] IN
  /\ pc[w] = "tag"
  /\ presented' = [presented EXCEPT ![c.job] = c.rec]
  /\ IF c.state = "draft" THEN Goto(w, "await") /\ UNCHANGED ctx
                          ELSE Return(w)
  /\ UNCHANGED <<row, order, target, proof, artifacts, world, process>>

\* start_acme, the transition: Cloudflare goes on by itself, a manual job
\* waits for the user.
AwaitDns(w) ==
  LET c == ctx[w] IN
  /\ pc[w] = "await"
  /\ IF c.job \in CloudflareJobs
       THEN Advance(w, "draft", "awaiting_dns", "validate")
       ELSE /\ CanTransition(w, "draft", "awaiting_dns")
            /\ SetRow(c.job, "awaiting_dns", row[c.job].cert)
            /\ Return(w)
  /\ UNCHANGED <<settings, artifacts, world, process>>

\* continue_manual_dns: an expired challenge is replaced, a visible one is
\* completed; otherwise the request changes nothing.
ContinueManualDns(w, j) ==
  LET rec == presented[j] IN
  /\ row[j].state = "awaiting_dns"
  /\ j \notin CloudflareJobs
  /\ rec # NoOrder
  /\ \/ pendingKey[j] /\ Enter(w, j, rec, "create_order")
     \/ rec \in zone /\ Enter(w, j, rec, "validate")
  /\ UNCHANGED <<row, settings, artifacts, world, process>>

(***************************************************************************)
(* _complete_dns                                                           *)
(***************************************************************************)

\* The transition to validating, outside the try.
BeginValidating(w) ==
  /\ pc[w] = "validate"
  /\ Advance(w, "awaiting_dns", "validating", "answer")
  /\ UNCHANGED <<settings, artifacts, world, process>>

\* answer_challenges, of whatever order the setting names now.
AnswerChallenges(w) ==
  LET o == order[ctx[w].job] IN
  /\ pc[w] = "answer"
  /\ o \in Orders
  /\ status' = [status EXCEPT ![o] = IF @ = "pending" THEN "answered" ELSE @]
  /\ Goto(w, "poll")
  /\ UNCHANGED <<row, settings, artifacts, zone, placed, process, ctx>>

\* poll_authorizations reads the order once ...
PollOrder(w) ==
  /\ pc[w] = "poll"
  /\ order[ctx[w].job] \in Orders
  /\ ctx' = [ctx EXCEPT ![w].ord = order[ctx[w].job]]
  /\ Goto(w, "polling")
  /\ UNCHANGED <<row, settings, artifacts, world, process>>

\* ... and, when its authorizations are valid, writes that copy back.
PollReady(w) ==
  LET c == ctx[w] IN
  /\ pc[w] = "polling"
  /\ c.ord \in Orders
  /\ status[c.ord] \in {"ready", "valid"}
  /\ order' = [order EXCEPT ![c.job] = c.ord]
  /\ Goto(w, "issue")
  /\ UNCHANGED <<row, presented, target, proof, artifacts, world, process, ctx>>

BeginIssuing(w) ==
  /\ pc[w] = "issue"
  /\ Advance(w, "validating", "issuing", "finalize")
  /\ UNCHANGED <<settings, artifacts, world, process>>

\* finalize: the ACME server issues for a ready order.
Finalize(w) ==
  LET o == order[ctx[w].job] IN
  /\ pc[w] = "finalize"
  /\ o \in Orders
  /\ status[o] = "ready"
  /\ status' = [status EXCEPT ![o] = "valid"]
  /\ \/ /\ ctx' = [ctx EXCEPT ![w].ord = o]
        /\ Goto(w, "store")
     \/ /\ "lost_reply" \in Faults
        /\ Goto(w, "handle") /\ UNCHANGED ctx
  /\ UNCHANGED <<row, settings, artifacts, zone, placed, process>>

\* _store_certificate: the artifact set and the row of certificates, or neither.
StoreCertificate(w) ==
  /\ pc[w] = "store"
  /\ pendingKey[ctx[w].job]
  /\ certs' = certs \cup {ctx[w].ord}
  /\ Goto(w, "cleanup")
  /\ UNCHANGED <<row, settings, pendingKey, world, process, ctx>>

\* Anything raised inside the try: an ACME problem, a poll that ran out of
\* attempts, a certificate that does not validate, a disk or database error.
CompletionFails(w) ==
  /\ pc[w] \in {"answer", "poll", "polling", "issue", "finalize", "store"}
  /\ Goto(w, "handle")
  /\ UNCHANGED <<row, settings, artifacts, world, process, ctx>>

\* After the certificate is stored: the records go, then the pending key set.
CleanupRecords(w) ==
  /\ pc[w] = "cleanup"
  /\ Cleanup(w, "drop_key", "drop_key")
  /\ UNCHANGED <<row, settings, artifacts, placed, status, process>>

DropPendingKey(w) ==
  /\ pc[w] = "drop_key"
  /\ pendingKey' = [pendingKey EXCEPT ![ctx[w].job] = FALSE]
  /\ Goto(w, IF ctx[w].errors THEN "mark_issued" ELSE "finish")
  /\ UNCHANGED <<row, settings, certs, world, process, ctx>>

\* A file of the set is in use: rmtree raises, and the job stays in issuing.
DropKeyRaises(w) ==
  /\ pc[w] = "drop_key"
  /\ "request_error" \in Faults
  /\ pendingKey' \in {pendingKey, [pendingKey EXCEPT ![ctx[w].job] = FALSE]}
  /\ Return(w)
  /\ UNCHANGED <<row, settings, certs, world, process>>

\* The cleanup failed: retry_cleanup is to end in issued.
MarkIssued(w) ==
  /\ pc[w] = "mark_issued"
  /\ target' = [target EXCEPT ![ctx[w].job] = "issued"]
  /\ Goto(w, "finish")
  /\ UNCHANGED <<row, order, presented, proof, artifacts, world, process, ctx>>

\* The job gets its certificate, in issued or in cleanup_required.
FinishTarget(c) == IF c.errors THEN "cleanup_required" ELSE "issued"

\* Mutant: the job gets the certificate of the order the setting names by now.
FinishIssuingByOrder(w) ==
  LET c == ctx[w] IN
  /\ pc[w] = "finish"
  /\ CanTransition(w, "issuing", FinishTarget(c))
  /\ SetRow(c.job, FinishTarget(c), order[c.job])
  /\ IF c.errors THEN Return(w) ELSE Goto(w, "untag") /\ UNCHANGED ctx
  /\ UNCHANGED <<settings, artifacts, world, process>>

FinishIssuing(w) ==
  LET c == ctx[w] IN
  /\ pc[w] = "finish"
  /\ CanTransition(w, "issuing", FinishTarget(c))
  /\ SetRow(c.job, FinishTarget(c), c.ord)
  /\ IF c.errors THEN Return(w) ELSE Goto(w, "untag") /\ UNCHANGED ctx
  /\ UNCHANGED <<settings, artifacts, world, process>>

Untag(w) ==
  LET c == ctx[w] IN
  /\ pc[w] = "untag"
  /\ presented' = [presented EXCEPT ![c.job] = NoOrder]
  /\ IF c.job \in StagingJobs THEN Goto(w, "prove") /\ UNCHANGED ctx
                               ELSE Return(w)
  /\ UNCHANGED <<row, order, target, proof, artifacts, world, process>>

\* A staging issuance opens the gate for production.
ProveStaging(w) ==
  /\ pc[w] = "prove"
  /\ proof' = TRUE
  /\ Return(w)
  /\ UNCHANGED <<row, order, presented, target, artifacts, world, process>>

\* The except clauses: clean up, read the job again, and move it to failed, or
\* to cleanup_required when the records are still there.
HandleFailure(w) ==
  /\ pc[w] = "handle"
  /\ Cleanup(w, "reread", "reread")
  /\ UNCHANGED <<row, settings, artifacts, placed, status, process>>

\* Mutant: the handler drops the pending key set as the success path does.
RereadDroppingKey(w) ==
  LET j == ctx[w].job IN
  /\ pc[w] = "reread"
  /\ pendingKey' = [pendingKey EXCEPT ![j] = FALSE]
  /\ IF Exists(j)
       THEN /\ ctx' = [ctx EXCEPT ![w].state = row[j].state,
                                  ![w].version = row[j].version]
            /\ Goto(w, "fail")
       ELSE Return(w)
  /\ UNCHANGED <<row, settings, certs, world, process>>

Reread(w) ==
  LET j == ctx[w].job IN
  /\ pc[w] = "reread"
  /\ IF Exists(j)
       THEN /\ ctx' = [ctx EXCEPT ![w].state = row[j].state,
                                  ![w].version = row[j].version]
            /\ Goto(w, "fail")
       ELSE Return(w)
  /\ UNCHANGED <<row, settings, artifacts, world, process>>

\* Mutant: the errors of the cleanup are not looked at.
FailTargetWithoutErrors(c) == "failed"

\* The state a failed completion leaves the job in.
FailTarget(c) == IF c.errors THEN "cleanup_required" ELSE "failed"

\* Mutant: the failure is reported to the caller and not written to the job.
FailJobSilently(w) ==
  /\ pc[w] = "fail"
  /\ Return(w)
  /\ UNCHANGED <<row, settings, artifacts, world, process>>

FailJob(w) ==
  LET c == ctx[w] IN
  /\ pc[w] = "fail"
  /\ CanTransition(w, c.state, FailTarget(c))
  /\ SetRow(c.job, FailTarget(c), row[c.job].cert)
  /\ Return(w)
  /\ UNCHANGED <<settings, artifacts, world, process>>

(***************************************************************************)
(* Cancelling, retrying the cleanup and deleting                           *)
(***************************************************************************)

\* Mutant: a job that is not there is not reported.
CancelAnything(w, j) ==
  /\ Enter(w, j, presented[j],
           IF presented[j] = NoOrder THEN "svc_cancel" ELSE "cancel_cleanup")
  /\ UNCHANGED <<row, settings, artifacts, world, process>>

\* cancel: the state is not looked at before the records are removed.
CancelAcme(w, j) ==
  /\ Exists(j)
  /\ Enter(w, j, presented[j],
           IF presented[j] = NoOrder THEN "svc_cancel" ELSE "cancel_cleanup")
  /\ UNCHANGED <<row, settings, artifacts, world, process>>

CancelCleanup(w) ==
  /\ pc[w] = "cancel_cleanup"
  /\ Cleanup(w, "svc_cancel", "mark_cancelled")
  /\ UNCHANGED <<row, settings, artifacts, placed, status, process>>

\* retry_cleanup is to end in cancelled; written before the transition.
MarkCancelled(w) ==
  /\ pc[w] = "mark_cancelled"
  /\ target' = [target EXCEPT ![ctx[w].job] = "cancelled"]
  /\ Goto(w, "require_cleanup")
  /\ UNCHANGED <<row, order, presented, proof, artifacts, world, process, ctx>>

RequireCleanup(w) ==
  LET c == ctx[w] IN
  /\ pc[w] = "require_cleanup"
  /\ CanTransition(w, c.state, "cleanup_required")
  /\ SetRow(c.job, "cleanup_required", row[c.job].cert)
  /\ Return(w)
  /\ UNCHANGED <<settings, artifacts, world, process>>

\* RenewalService.cancel reads the job again and moves it; nothing happens to a
\* job that is cancelled already or cannot be, or that another thread moves
\* between the reading and the UPDATE.
ServiceCancel(w) ==
  LET j == ctx[w].job IN
  /\ pc[w] = "svc_cancel"
  /\ \/ /\ ValidTransition(row[j].state, "cancelled")
        /\ SetRow(j, "cancelled", row[j].cert)
     \/ UNCHANGED row
  /\ Return(w)
  /\ UNCHANGED <<settings, artifacts, world, process>>

RetryCleanup(w, j) ==
  /\ row[j].state = "cleanup_required"
  /\ Enter(w, j, presented[j], "retry")
  /\ UNCHANGED <<row, settings, artifacts, world, process>>

\* While the provider still refuses, the job stays as it is.
RetryRemove(w) ==
  /\ pc[w] = "retry"
  /\ Cleanup(w, "retarget", "idle")
  /\ UNCHANGED <<row, settings, artifacts, placed, status, process>>

\* acme-cleanup-target:<job>, or issued when no one has written it.
CleanupTarget(j) == IF target[j] = "none" THEN "issued" ELSE target[j]

Retarget(w) ==
  LET c == ctx[w] IN
  /\ pc[w] = "retarget"
  /\ CanTransition(w, "cleanup_required", CleanupTarget(c.job))
  /\ SetRow(c.job, CleanupTarget(c.job), row[c.job].cert)
  /\ Return(w)
  /\ UNCHANGED <<settings, artifacts, world, process>>

\* The transition a thread is about to ask for.
Attempt(w) ==
  CASE pc[w] = "await" -> <<"draft", "awaiting_dns">>
    [] pc[w] = "validate" -> <<"awaiting_dns", "validating">>
    [] pc[w] = "issue" -> <<"validating", "issuing">>
    [] pc[w] = "finish" -> <<"issuing", FinishTarget(ctx[w])>>
    [] pc[w] = "fail" -> <<ctx[w].state, FailTarget(ctx[w])>>
    [] pc[w] = "require_cleanup" -> <<ctx[w].state, "cleanup_required">>
    [] pc[w] = "retarget" -> <<"cleanup_required", CleanupTarget(ctx[w].job)>>

\* The steps that ask for one.  What it raises is, inside the try, one more reason to
\* fail the job; elsewhere it ends the request.
Asks == {"await", "validate", "issue", "finish", "fail", "require_cleanup", "retarget"}

\* transition_job has committed, and reading the row back for its caller raises.
Unread(w) ==
  LET c == ctx[w] IN
  /\ pc[w] \in Asks
  /\ pc[w] = "issue" \/ "request_error" \in Faults
  /\ CanTransition(w, Attempt(w)[1], Attempt(w)[2])
  /\ SetRow(c.job, Attempt(w)[2], IF pc[w] = "finish" THEN c.ord ELSE row[c.job].cert)
  /\ IF pc[w] = "issue" THEN Goto(w, "handle") /\ UNCHANGED ctx ELSE Return(w)
  /\ UNCHANGED <<settings, artifacts, world, process>>

\* InvalidTransition or ConcurrentUpdateError.
Conflict(w) ==
  /\ pc[w] \in Asks
  /\ ~CanTransition(w, Attempt(w)[1], Attempt(w)[2])
  /\ IF pc[w] = "issue" THEN Goto(w, "handle") /\ UNCHANGED ctx ELSE Return(w)
  /\ UNCHANGED <<row, settings, artifacts, world, process>>

\* delete_terminal_job looks at the state ...
DeleteTerminalJob(w, j) ==
  /\ row[j].state \in Deletable
  /\ Enter(w, j, NoOrder, "delete")
  /\ UNCHANGED <<row, settings, artifacts, world, process>>

\* ... and Database.delete_job deletes the row without a condition on it.
DeleteRow(w) ==
  /\ pc[w] = "delete"
  /\ row' = [row EXCEPT ![ctx[w].job] = Missing("deleted")]
  /\ Return(w)
  /\ UNCHANGED <<settings, artifacts, world, process>>

(***************************************************************************)
(* Stopping and starting (again, when a start failed):                      *)
(* initialize_application recovers every job before the server serves, and  *)
(* an exception there ends the start.                                       *)
(***************************************************************************)

Crash ==
  /\ "crash" \in Faults
  /\ mode' = "recovering"
  /\ todo' = {j \in Jobs : Exists(j)}
  /\ pc' = [w \in Workers |-> "idle"]
  /\ ctx' = [w \in Workers |-> NoContext]
  /\ UNCHANGED <<row, settings, artifacts, world>>

\* ACMEOrderService.reconcile: where an order of this status takes its job.
Reconciled(s) ==
  CASE s = "invalid" -> "failed"
    [] s \in {"ready", "valid"} -> "issuing"
    [] OTHER -> "awaiting_dns"

Interrupted(j) == row[j].state \in {"validating", "issuing"}

RecoverJob(j) ==
  /\ mode = "recovering"
  /\ j \in todo
  /\ IF Interrupted(j)
       THEN LET to == Reconciled(status[order[j]]) IN
            /\ order[j] \in Orders
            /\ ValidTransition(row[j].state, to)
            /\ SetRow(j, to, row[j].cert)
       ELSE UNCHANGED row
  /\ todo' = todo \ {j}
  /\ UNCHANGED <<settings, artifacts, world, mode, pc, ctx>>

RecoveryRaises(j) ==
  /\ mode = "recovering"
  /\ j \in todo
  /\ Interrupted(j)
  /\ \/ order[j] = NoOrder
     \/ order[j] \in Orders
        /\ ~ValidTransition(row[j].state, Reconciled(status[order[j]]))
     \/ "ca_down" \in Faults
  /\ mode' = "down"
  /\ todo' = {}
  /\ UNCHANGED <<row, settings, artifacts, world, pc, ctx>>

Serve ==
  /\ mode = "recovering"
  /\ todo = {}
  /\ mode' = "serving"
  /\ UNCHANGED <<row, settings, artifacts, world, todo, pc, ctx>>

(***************************************************************************)
(* The outside                                                             *)
(***************************************************************************)

\* The ACME server looks the record up, and may also refuse for other reasons.
ServerValidates(o) ==
  /\ status[o] = "answered"
  /\ \/ o \in zone /\ status' = [status EXCEPT ![o] = "ready"]
     \/ status' = [status EXCEPT ![o] = "invalid"]
  /\ UNCHANGED <<row, settings, artifacts, zone, placed, process, pc, ctx>>

\* The user publishes the records a manual job asks for.
UserPublishes(j) ==
  /\ j \notin CloudflareJobs
  /\ presented[j] \in Orders \ zone
  /\ zone' = zone \cup {presented[j]}
  /\ UNCHANGED <<row, settings, artifacts, placed, status, process, pc, ctx>>

(***************************************************************************)

Request(w) ==
  \E j \in Jobs :
    StartAcme(w, j) \/ ContinueManualDns(w, j) \/ CancelAcme(w, j)
      \/ RetryCleanup(w, j) \/ DeleteTerminalJob(w, j)

\* One step of a thread that is serving a request.
Step(w) ==
  \/ EnsurePendingKey(w) \/ CreateOrder(w) \/ Present(w) \/ PresentLeaks(w)
  \/ Abort(w) \/ TagRecords(w) \/ AwaitDns(w)
  \/ BeginValidating(w) \/ AnswerChallenges(w) \/ PollOrder(w) \/ PollReady(w)
  \/ BeginIssuing(w) \/ Finalize(w) \/ StoreCertificate(w) \/ CompletionFails(w)
  \/ CleanupRecords(w) \/ DropPendingKey(w) \/ DropKeyRaises(w) \/ MarkIssued(w)
  \/ FinishIssuing(w)
  \/ Untag(w) \/ ProveStaging(w) \/ HandleFailure(w) \/ Reread(w) \/ FailJob(w)
  \/ Conflict(w) \/ Unread(w)
  \/ CancelCleanup(w) \/ MarkCancelled(w) \/ RequireCleanup(w) \/ ServiceCancel(w)
  \/ RetryRemove(w) \/ Retarget(w) \/ DeleteRow(w)

Recovery == Serve \/ \E j \in Jobs : RecoverJob(j) \/ RecoveryRaises(j)

Outside == (\E o \in Orders : ServerValidates(o)) \/ (\E j \in Jobs : UserPublishes(j))

Next ==
  \/ \E j \in Jobs : CreateJob(j)
  \/ \E w \in Workers : Request(w) \/ Step(w)
  \/ Crash \/ Recovery \/ Outside

Spec == Init /\ [][Next]_vars

\* A thread that has begun a request runs on: every wait in it is bounded
\* (polling by attempts and a deadline, HTTP by a timeout).
FairSpec == Spec /\ \A w \in Workers : WF_vars(Step(w))

(***************************************************************************)
(* Properties                                                              *)
(***************************************************************************)

Table == INSTANCE JobTable WITH Certificates <- Orders, NoCertificate <- NoOrder,
                                ExistingJobs <- {}

\* Whatever the threads, the crashes and the recovery do, the table of jobs
\* changes as JobTable promises: an unchecked delete, a stale thread or a
\* restart never takes a job off its edges, back in version, or away from its
\* certificate (transition_job, delete_job, recover_interrupted_jobs).
ImplementsTable == Table!Spec

\* However many requests and restarts touch a job, at most one certificate is
\* ever stored for it: the transition to validating lets one thread into
\* _complete_dns and no interrupted issuance is run again.
OneCertificatePerJob ==
  \A j \in Jobs : \A a, b \in placed[j] \cap certs : a = b

\* A certificate the ACME server issued is never without its private key: until
\* it is stored, the pending key set it was requested with is kept, also when
\* the answer was lost, the process stopped or another thread failed the job.
IssuedKeyNotLost ==
  \A j \in Jobs : \A o \in placed[j] :
    status[o] = "valid" => pendingKey[j] \/ o \in certs

\* No production order exists before a staging job of the same identifiers has
\* stored its certificate (start_acme's gate, _complete_dns's proof).
ProductionAfterStaging ==
  (\E j \in Jobs \ StagingJobs : placed[j] # {}) =>
    \E j \in StagingJobs : placed[j] \cap certs # {}

\* The certificate a job names is stored and was ordered for that job, although
\* the order setting may be overwritten by another request at any time.
RowCertificateStored ==
  \A j \in Jobs :
    row[j].cert # NoOrder => row[j].cert \in certs \cap placed[j]

Busy(j) == \E w \in Workers : pc[w] # "idle" /\ ctx[w].job = j

\* Requests that do not overlap leave no TXT record behind a job that has come
\* to an end: whatever was presented was removed, or the job is in
\* cleanup_required or has not come to its end (_complete_dns, cancel and
\* retry_cleanup together).  Excepted are the faults after which a draft has a
\* record that the next start forgets: a crash, "present_leaks" and "unrecorded".
SettledLeavesNoRecord ==
  \A j \in Jobs \cap CloudflareJobs :
    row[j].state \in {"issued", "cancelled", "failed"} /\ ~Busy(j) =>
      placed[j] \cap zone = {}

\* A job that is being validated or issued comes to rest, whatever raises inside
\* the try of _complete_dns.  Excepted are the faults after which nothing but the
\* next start of the server looks at it again: a crash, "cleanup_raises" and
\* "request_error".
InFlightSettles ==
  \A j \in Jobs : Interrupted(j) ~> ~Interrupted(j)

\* A job shown as issued has its certificate.
IssuedHasCertificate ==
  \A j \in Jobs : row[j].state = "issued" => row[j].cert # NoOrder

\* Whatever it finds in the database, the recovery at startup lets the server
\* serve.
RecoveryServes == mode # "down"

(***************************************************************************)
(* Why the safety properties hold: an inductive invariant (proved in        *)
(* AcmeRenewalProofs)                                                      *)
(***************************************************************************)

\* Before the one transition to validating.
Early == {"absent", "draft", "awaiting_dns"}

\* The steps before the ACME server issues.
Asking == {"answer", "poll", "polling", "issue", "finalize"}

\* start_acme after _ensure_pending_key_and_csr.
Starting == {"create_order", "present", "tag", "await"}

\* A thread works on a job no earlier than the job's state says, and alone.
Exclusive ==
  /\ \A w \in Workers :
       /\ pc[w] \in Completing => row[ctx[w].job].state \notin Early
       /\ pc[w] = "delete" => row[ctx[w].job].state \in Deletable \cup {"deleted"}
  /\ \A v, w \in Workers :
       pc[v] \in Completing /\ pc[w] \in Completing /\ ctx[v].job = ctx[w].job
         => v = w

\* An order belongs to one job, wherever it is named.
OwnOrders ==
  /\ \A j \in Jobs : order[j] \in placed[j] \cup {NoOrder}
  /\ \A j, k \in Jobs : \A o \in placed[j] \cap placed[k] : j = k
  /\ \A j \in Jobs : \A o \in placed[j] : status[o] # "unused"
  /\ \A w \in Workers :
       pc[w] \in {"polling", "issue"} \cup Holding => ctx[w].ord \in placed[ctx[w].job]

\* The orders of a job the ACME server has issued a certificate for.
Valid(j) == {o \in placed[j] : status[o] = "valid"}

\* Nothing is issued for a job before its thread finalizes, and then only once.
IssuedOnce ==
  /\ \A o \in certs : status[o] = "valid"
  /\ \A j \in Jobs : row[j].state \in Early => Valid(j) = {}
  /\ \A w \in Workers :
       /\ pc[w] \in Asking => Valid(ctx[w].job) = {}
       /\ pc[w] \in Holding => Valid(ctx[w].job) = {ctx[w].ord}
       /\ pc[w] \in Holding \ {"store"} => ctx[w].ord \in certs
  /\ \A j \in Jobs : \A a, b \in Valid(j) : a = b

\* The pending key is there from before the order until the certificate is
\* stored.
KeyHeld ==
  /\ \A j \in Jobs : row[j].state = "awaiting_dns" => pendingKey[j]
  /\ \A w \in Workers :
       /\ pc[w] \in Starting /\ row[ctx[w].job].state \in Early => pendingKey[ctx[w].job]
       /\ pc[w] \in Asking => pendingKey[ctx[w].job]

\* A row gets its certificate in the transition that ends the issuance.
CertificateLast ==
  \A j \in Jobs :
    row[j].state \in Early \cup {"validating", "issuing"} => row[j].cert = NoOrder

\* A row that is not there has no columns.
BlankRows == \A j \in Jobs : row[j].state \in NoRow => row[j] = Missing(row[j].state)

\* Every way to an order of a production job went through the gate.
GatePassed ==
  /\ proof => \E j \in StagingJobs : placed[j] \cap certs # {}
  /\ \A w \in Workers :
       /\ pc[w] = "prove" => ctx[w].job \in StagingJobs
       /\ pc[w] \in {"ensure_key"} \cup Starting => ctx[w].job \in StagingJobs \/ proof
  /\ \A j \in Jobs \ StagingJobs :
       placed[j] # {} \/ row[j].state = "awaiting_dns" => proof

Invariant ==
  /\ TypeOK
  /\ Exclusive
  /\ OwnOrders
  /\ IssuedOnce
  /\ KeyHeld
  /\ IssuedKeyNotLost
  /\ CertificateLast
  /\ RowCertificateStored
  /\ BlankRows
  /\ GatePassed

=============================================================================

------------------------- MODULE AcmeRenewalProofs -------------------------
(***************************************************************************)
(* What is proved about AcmeRenewal for every set of jobs, orders and       *)
(* threads and every choice of faults.                                     *)
(***************************************************************************)
EXTENDS AcmeRenewal, TLAPS

\* The initial values are well typed.
LEMMA TypeInit == Init => TypeOK
<1> SUFFICES ASSUME Init PROVE TypeOK
  OBVIOUS
<1>1. row \in [Jobs -> Row]
  BY DEF Init, Row, Missing, NoRow
<1>2. Threads
  BY DEF Init, Threads, ThreadOK, Context, NoContext, Labels, Holding
<1> QED
  BY <1>1, <1>2 DEF Init, TypeOK

\* One thread moves on, to a label its locals fit.
LEMMA ThreadMoves ==
  ASSUME Threads, NEW w \in Workers, NEW label, NEW c, ThreadOK(label, c),
         pc' = [pc EXCEPT ![w] = label], ctx' = [ctx EXCEPT ![w] = c]
  PROVE  Threads'
BY DEF Threads, ThreadOK

\* A thread goes to another label with the locals it has.
LEMMA ThreadGoes ==
  ASSUME Threads, NEW w \in Workers, NEW label, ThreadOK(label, ctx[w]),
         Goto(w, label), ctx' = ctx
  PROVE  Threads'
BY DEF Threads, ThreadOK, Goto

\* A request that ends leaves an idle thread.
LEMMA ThreadReturns ==
  ASSUME Threads, NEW w \in Workers, Return(w) PROVE Threads'
<1>1. ThreadOK("idle", NoContext)
  BY DEF ThreadOK, Labels, Context, NoContext, Holding
<1> QED
  BY <1>1, ThreadMoves DEF Return, Goto

\* Reading a job on a free thread.
LEMMA ThreadEnters ==
  ASSUME TypeOK, NEW w \in Workers, NEW j \in Jobs, NEW rec \in Orders \cup {NoOrder},
         NEW label \in Labels, Enter(w, j, rec, label), Exists(j),
         label \notin {"present", "tag", "await", "polling", "issue"} \cup Holding
  PROVE  Threads'
<1> DEFINE c == [job |-> j, state |-> row[j].state, version |-> row[j].version,
                 rec |-> rec, ord |-> NoOrder, errors |-> FALSE]
<1>1. ThreadOK(label, c)
  BY DEF TypeOK, Row, ThreadOK, Context, Exists
<1> QED
  BY <1>1, ThreadMoves DEF Enter, Goto, TypeOK

\* The UPDATE of transition_job writes a well-typed row.
LEMMA RowSet ==
  ASSUME row \in [Jobs -> Row], NEW j \in Jobs, NEW to \in States,
         NEW cert \in Orders \cup {NoOrder}, SetRow(j, to, cert)
  PROVE  row' \in [Jobs -> Row]
BY DEF SetRow, Row

\* What a thread asks transition_job for.
LEMMA Attempted ==
  ASSUME TypeOK, NEW w \in Workers, pc[w] \in Asks
  PROVE  /\ Attempt(w)[2] \in States
         /\ Attempt(w)[2] = "awaiting_dns" => pc[w] = "await"
         /\ pc[w] = "finish" => Attempt(w)[1] = "issuing"
         /\ pc[w] = "validate" => Attempt(w)[1] = "awaiting_dns"
<1>1. PICK a \in Asks : pc[w] = a
  OBVIOUS
<1>2. ThreadOK(a, ctx[w])
  BY <1>1 DEF TypeOK, Threads
<1>3. CASE a \in {"await", "validate", "issue"}
  BY <1>1, <1>3 DEF Attempt, States
<1>4. CASE a \in {"finish", "fail", "require_cleanup"}
  BY <1>1, <1>4 DEF Attempt, States, FinishTarget, FailTarget
<1>5. CASE a = "retarget"
  <2>1. ctx[w].job \in Jobs
    BY <1>2, <1>5 DEF ThreadOK
  <2>2. CleanupTarget(ctx[w].job) \in {"issued", "cancelled"}
    BY <2>1 DEF TypeOK, CleanupTarget
  <2> QED
    BY <1>1, <1>5, <2>2 DEF Attempt, States
<1> QED
  BY <1>3, <1>4, <1>5 DEF Asks

\* A transition that goes on keeps the types (RenewalService.transition).
LEMMA Advances ==
  ASSUME TypeOK, NEW w \in Workers, NEW from, NEW to \in States, NEW label,
         ThreadOK(pc[w], ctx[w]), pc[w] # "idle", Advance(w, from, to, label),
         label \in {"validate", "answer"} \/ label = "finalize"
  PROVE  row' \in [Jobs -> Row] /\ Threads'
<1> DEFINE c == [ctx[w] EXCEPT !.state = to, !.version = ctx[w].version + 1]
<1>1. c \in Context /\ c.job = ctx[w].job /\ c.state = to /\ c.job \in Jobs
  <2>1. ctx[w] \in Context /\ ctx[w].job \in Jobs
    BY DEF ThreadOK
  <2>2. ctx[w].version + 1 \in Nat
    BY <2>1 DEF Context
  <2> QED
    BY ONLY <2>1, <2>2, to \in States DEF Context
<1>2. ThreadOK(label, c)
  BY <1>1 DEF ThreadOK, Labels, Completing, Holding
<1>3. ctx' = [ctx EXCEPT ![w] = c] /\ pc' = [pc EXCEPT ![w] = label]
  BY DEF Advance, Goto
<1>4. Threads'
  BY <1>2, <1>3, ThreadMoves DEF TypeOK
<1>5. row[ctx[w].job].cert \in Orders \cup {NoOrder}
  BY <1>1 DEF TypeOK, Row
<1> QED
  BY <1>1, <1>4, <1>5, RowSet DEF Advance, TypeOK

\* The three outcomes of a provider's cleanup keep the types of the zone and of
\* the threads.
LEMMA CleansUp ==
  ASSUME TypeOK, NEW w \in Workers, NEW clean, NEW refused,
         ThreadOK(pc[w], ctx[w]), pc[w] # "idle", Cleanup(w, clean, refused),
         \A e \in BOOLEAN : ThreadOK(clean, [ctx[w] EXCEPT !.errors = e]),
         refused # "idle" => \A e \in BOOLEAN : ThreadOK(refused, [ctx[w] EXCEPT !.errors = e])
  PROVE  zone' \in SUBSET Orders /\ Threads'
<1>1. zone' \in SUBSET Orders
  BY DEF Cleanup, TypeOK
<1>2. CASE ctx' = [ctx EXCEPT ![w].errors = FALSE] /\ Goto(w, clean)
  BY <1>1, <1>2, ThreadMoves DEF Goto, TypeOK
<1>3. CASE Goto(w, refused) /\ ctx' = [ctx EXCEPT ![w] = IF refused = "idle" THEN NoContext
                                                    ELSE [@ EXCEPT !.errors = TRUE]]
  <2>1. CASE refused = "idle"
    BY <1>1, <1>3, <2>1, ThreadReturns DEF Return, TypeOK
  <2>2. CASE refused # "idle"
    BY <1>1, <1>3, <2>2, ThreadMoves DEF Goto, TypeOK
  <2> QED
    BY <2>1, <2>2
<1>4. CASE Return(w)
  BY <1>1, <1>4, ThreadReturns DEF TypeOK
<1> QED
  BY <1>2, <1>3, <1>4 DEF Cleanup

\* Every request that comes in keeps the types.
LEMMA TypeRequest ==
  ASSUME TypeOK, NEW w \in Workers, Request(w) PROVE TypeOK'
<1> USE DEF TypeOK, Exists, States, Labels, Completing, Holding, settings, artifacts, world, process
<1>1. PICK j \in Jobs : \/ StartAcme(w, j) \/ ContinueManualDns(w, j)
                       \/ CancelAcme(w, j) \/ RetryCleanup(w, j)
                       \/ DeleteTerminalJob(w, j)
  BY DEF Request
<1>2. CASE StartAcme(w, j)
  BY <1>2, ThreadEnters DEF StartAcme
<1>3. CASE ContinueManualDns(w, j)
  BY <1>3, ThreadEnters DEF ContinueManualDns
<1>4. CASE CancelAcme(w, j)
  BY <1>4, ThreadEnters DEF CancelAcme
<1>5. CASE RetryCleanup(w, j)
  BY <1>5, ThreadEnters DEF RetryCleanup
<1>6. CASE DeleteTerminalJob(w, j)
  BY <1>6, ThreadEnters DEF DeleteTerminalJob, Deletable
<1> QED
  BY <1>1, <1>2, <1>3, <1>4, <1>5, <1>6

\* Every step of a request keeps the types, whatever it runs into.
LEMMA TypeStep ==
  ASSUME TypeOK, NEW w \in Workers, Step(w) PROVE TypeOK'
<1> USE DEF TypeOK, ThreadOK, Labels, Completing, Holding, settings, artifacts, world, process
<1>0. ThreadOK(pc[w], ctx[w])
  BY DEF Threads
<1>1. CASE EnsurePendingKey(w)
  BY <1>0, <1>1, ThreadGoes DEF EnsurePendingKey
<1>2. CASE CreateOrder(w)
  <2> DEFINE j == ctx[w].job
  <2>1. PICK o \in Orders :
          /\ status' = [status EXCEPT ![o] = "pending"]
          /\ placed' = [placed EXCEPT ![j] = @ \cup {o}]
          /\ order' = [order EXCEPT ![j] = o]
          /\ ctx' = [ctx EXCEPT ![w].rec = o]
    BY <1>2 DEF CreateOrder
  <2>2. ThreadOK("present", [ctx[w] EXCEPT !.rec = o])
    BY <1>0, <1>2 DEF CreateOrder, Context
  <2>3. Threads'
    BY <1>2, <2>1, <2>2, ThreadMoves DEF CreateOrder, Goto
  <2> QED
    BY <1>0, <1>2, <2>1, <2>3 DEF CreateOrder
<1>3. CASE Present(w)
  BY <1>0, <1>3, ThreadGoes DEF Present
<1>4. CASE PresentLeaks(w)
  BY <1>0, <1>4, ThreadReturns DEF PresentLeaks
<1>5. CASE Abort(w)
  BY <1>0, <1>5, ThreadReturns DEF Abort
<1>6. CASE TagRecords(w)
  BY <1>0, <1>6, ThreadGoes, ThreadReturns DEF TagRecords
<1>7. CASE AwaitDns(w)
  <2>1. CASE ctx[w].job \in CloudflareJobs
    BY <1>0, <1>7, <2>1, Advances DEF AwaitDns, States
  <2>2. CASE ctx[w].job \notin CloudflareJobs
    <3>1. row' \in [Jobs -> Row]
      BY <1>0, <1>7, <2>2, RowSet DEF AwaitDns, States, Row
    <3> QED
      BY <1>7, <2>2, <3>1, ThreadReturns DEF AwaitDns
  <2> QED
    BY <2>1, <2>2
<1>8. CASE BeginValidating(w)
  BY <1>0, <1>8, Advances DEF BeginValidating, States
<1>9. CASE AnswerChallenges(w)
  BY <1>0, <1>9, ThreadGoes DEF AnswerChallenges
<1>10. CASE PollOrder(w)
  BY <1>0, <1>10, ThreadGoes, ThreadReturns, ThreadMoves DEF PollOrder, Context, Goto
<1>11. CASE PollReady(w)
  BY <1>0, <1>11, ThreadGoes DEF PollReady
<1>12. CASE BeginIssuing(w)
  BY <1>0, <1>12, Advances DEF BeginIssuing, States
<1>13. CASE Finalize(w)
  <2>1. status' \in [Orders -> {"unused", "pending", "answered", "ready", "valid",
                               "invalid"}]
    BY <1>13 DEF Finalize
  <2>2. CASE Goto(w, "handle") /\ UNCHANGED ctx
    BY <1>0, <1>13, <2>1, <2>2, ThreadGoes DEF Finalize
  <2>3. CASE Goto(w, "store") /\ ctx' = [ctx EXCEPT ![w].ord = order[ctx[w].job]]
    <3>1. ThreadOK("store", [ctx[w] EXCEPT !.ord = order[ctx[w].job]])
      BY <1>0, <1>13 DEF Finalize, Context
    <3> QED
      BY <1>13, <2>1, <2>3, <3>1, ThreadMoves DEF Finalize, Goto
  <2> QED
    BY <1>13, <2>2, <2>3 DEF Finalize
<1>14. CASE StoreCertificate(w)
  BY <1>0, <1>14, ThreadGoes DEF StoreCertificate
<1>15. CASE CompletionFails(w)
  BY <1>0, <1>15, ThreadGoes DEF CompletionFails
<1>16. CASE CleanupRecords(w)
  <2>1. Cleanup(w, "drop_key", "drop_key")
    BY <1>16 DEF CleanupRecords
  <2>2. \A e \in BOOLEAN : ThreadOK("drop_key", [ctx[w] EXCEPT !.errors = e])
    BY <1>0, <1>16 DEF CleanupRecords, Context
  <2>3. zone' \in SUBSET Orders /\ Threads'
    BY <1>0, <1>16, <2>1, <2>2, CleansUp DEF CleanupRecords
  <2> QED
    BY <1>16, <2>3 DEF CleanupRecords
<1>17. CASE DropPendingKey(w)
  BY <1>0, <1>17, ThreadGoes DEF DropPendingKey
<1>18. CASE MarkIssued(w)
  BY <1>0, <1>18, ThreadGoes DEF MarkIssued
<1>19. CASE FinishIssuing(w)
  <2>1. row' \in [Jobs -> Row]
    BY <1>0, <1>19, RowSet DEF FinishIssuing, FinishTarget, States
  <2> QED
    BY <1>0, <1>19, <2>1, ThreadGoes, ThreadReturns DEF FinishIssuing
<1>20. CASE Untag(w)
  BY <1>0, <1>20, ThreadGoes, ThreadReturns DEF Untag
<1>21. CASE ProveStaging(w)
  BY <1>0, <1>21, ThreadReturns DEF ProveStaging
<1>22. CASE HandleFailure(w)
  <2>1. Cleanup(w, "reread", "reread")
    BY <1>22 DEF HandleFailure
  <2>2. \A e \in BOOLEAN : ThreadOK("reread", [ctx[w] EXCEPT !.errors = e])
    BY <1>0, <1>22 DEF HandleFailure, Context
  <2>3. zone' \in SUBSET Orders /\ Threads'
    BY <1>0, <1>22, <2>1, <2>2, CleansUp DEF HandleFailure
  <2> QED
    BY <1>22, <2>3 DEF HandleFailure
<1>23. CASE Reread(w)
  <2> DEFINE j == ctx[w].job
             c == [ctx[w] EXCEPT !.state = row[j].state, !.version = row[j].version]
  <2>1. CASE Exists(j)
    <3>1. ThreadOK("fail", c)
      BY <1>0, <1>23, <2>1 DEF Reread, Exists, Context, Row
    <3>2. ctx' = [ctx EXCEPT ![w] = c] /\ pc' = [pc EXCEPT ![w] = "fail"]
      BY <1>23, <2>1 DEF Reread, Goto
    <3>3. Threads'
      BY <3>1, <3>2, ThreadMoves
    <3> QED
      BY <1>23, <3>3 DEF Reread
  <2>2. CASE ~Exists(j)
    BY <1>23, <2>2, ThreadReturns DEF Reread
  <2> QED
    BY <2>1, <2>2
<1>24. CASE FailJob(w)
  BY <1>0, <1>24, ThreadReturns DEF FailJob, FailTarget, SetRow, Row, States
<1>25. CASE Conflict(w)
  BY <1>0, <1>25, ThreadGoes, ThreadReturns DEF Conflict
<1>26. CASE CancelCleanup(w)
  <2>1. \A e \in BOOLEAN : /\ ThreadOK("svc_cancel", [ctx[w] EXCEPT !.errors = e])
                           /\ ThreadOK("mark_cancelled", [ctx[w] EXCEPT !.errors = e])
    BY <1>0, <1>26 DEF CancelCleanup, Context
  <2>2. Cleanup(w, "svc_cancel", "mark_cancelled") /\ pc[w] # "idle"
    BY <1>26 DEF CancelCleanup
  <2>3. zone' \in SUBSET Orders /\ Threads'
    BY <1>0, <2>1, <2>2, CleansUp
  <2> QED
    BY <1>26, <2>3 DEF CancelCleanup
<1>27. CASE MarkCancelled(w)
  BY <1>0, <1>27, ThreadGoes DEF MarkCancelled
<1>28. CASE RequireCleanup(w)
  BY <1>0, <1>28, ThreadReturns DEF RequireCleanup, SetRow, Row, States
<1>29. CASE ServiceCancel(w)
  BY <1>0, <1>29, ThreadReturns DEF ServiceCancel, SetRow, Row, States
<1>30. CASE RetryRemove(w)
  <2>1. \A e \in BOOLEAN : ThreadOK("retarget", [ctx[w] EXCEPT !.errors = e])
    BY <1>0, <1>30 DEF RetryRemove, Context
  <2>2. Cleanup(w, "retarget", "idle") /\ pc[w] # "idle"
    BY <1>30 DEF RetryRemove
  <2>3. zone' \in SUBSET Orders /\ Threads'
    BY <1>0, <2>1, <2>2, CleansUp
  <2> QED
    BY <1>30, <2>3 DEF RetryRemove
<1>31. CASE Retarget(w)
  BY <1>0, <1>31, ThreadReturns DEF Retarget, SetRow, CleanupTarget, Row, States
<1>32. CASE DeleteRow(w)
  BY <1>0, <1>32, ThreadReturns DEF DeleteRow, Missing, NoRow, Row
<1>33. CASE DropKeyRaises(w)
  BY <1>0, <1>33, ThreadReturns DEF DropKeyRaises
<1>34. CASE Unread(w)
  <2>0. pc[w] \in Asks /\ ctx[w].job \in Jobs
    BY <1>0, <1>34 DEF Unread, Asks
  <2>1. PICK cert \in Orders \cup {NoOrder} : SetRow(ctx[w].job, Attempt(w)[2], cert)
    BY <1>0, <1>34, <2>0 DEF Unread, Row
  <2>2. row' \in [Jobs -> Row]
    BY <2>0, <2>1, Attempted, RowSet
  <2>3. Threads'
    BY <1>0, <1>34, ThreadGoes, ThreadReturns DEF Unread
  <2> QED
    BY <1>34, <2>2, <2>3 DEF Unread
<1> QED
  BY <1>1, <1>2, <1>3, <1>4, <1>5, <1>6, <1>7, <1>8, <1>9, <1>10, <1>11, <1>12, <1>13,
     <1>14, <1>15, <1>16, <1>17, <1>18, <1>19, <1>20, <1>21, <1>22, <1>23, <1>24, <1>25,
     <1>26, <1>27, <1>28, <1>29, <1>30, <1>31, <1>32, <1>33, <1>34 DEF Step

\* Creating jobs, crashes, the recovery and the outside.
LEMMA TypeSystem ==
  ASSUME TypeOK,
         (\E j \in Jobs : CreateJob(j)) \/ Crash \/ Recovery \/ Outside
  PROVE  TypeOK'
<1> USE DEF TypeOK, settings, artifacts, world, process
<1>1. ASSUME UNCHANGED <<pc, ctx>> PROVE Threads'
  BY <1>1 DEF Threads
<1>2. CASE \E j \in Jobs : CreateJob(j)
  BY <1>1, <1>2 DEF CreateJob, Row, Missing, States
<1>3. CASE Crash
  <2>1. ThreadOK("idle", NoContext)
    BY DEF ThreadOK, Labels, Context, NoContext, Holding
  <2>2. Threads'
    BY <1>3, <2>1 DEF Crash, Threads, ThreadOK
  <2> QED
    BY <1>3, <2>2 DEF Crash
<1>4. ASSUME NEW j \in Jobs, RecoverJob(j) PROVE TypeOK'
  <2>1. row[j].cert \in Orders \cup {NoOrder}
    BY DEF Row
  <2>2. row' \in [Jobs -> Row]
    BY <1>4, <2>1, RowSet DEF RecoverJob, Reconciled, States
  <2> QED
    BY <1>1, <1>4, <2>2 DEF RecoverJob
<1>5. ASSUME NEW j \in Jobs, RecoveryRaises(j) PROVE TypeOK'
  BY <1>1, <1>5 DEF RecoveryRaises
<1>6. CASE Serve
  BY <1>1, <1>6 DEF Serve
<1>7. CASE Outside
  BY <1>1, <1>7 DEF Outside, ServerValidates, UserPublishes
<1> QED
  BY <1>2, <1>3, <1>4, <1>5, <1>6, <1>7 DEF Recovery

\* TypeOK is inductive.
LEMMA TypeNext == TypeOK /\ [Next]_vars => TypeOK'
<1>1. ASSUME TypeOK, UNCHANGED vars PROVE TypeOK'
  BY <1>1 DEF vars, settings, artifacts, world, process, TypeOK, Threads
<1> QED
  BY <1>1, TypeRequest, TypeStep, TypeSystem DEF Next

\* Every value a variable takes is one the code can store there, and a thread
\* never acts on a record or a certificate it does not have.
THEOREM TypeCorrect == Spec => []TypeOK
BY TypeInit, TypeNext, PTL DEF Spec

(***************************************************************************)
(* What a step does to the rows and to the threads, for the invariants that *)
(* need no more than that                                                  *)
(***************************************************************************)

\* The table of transitions, as far as the proofs use it.
LEMMA Edges ==
  ASSUME NEW s, NEW t, ValidTransition(s, t)
  PROVE  /\ s \in States /\ t \in States
         /\ t \in Early => t = "awaiting_dns" /\ s = "draft"
         /\ t = "validating" => s = "awaiting_dns"
         /\ t = "issuing" => s \in {"draft", "validating"}
         /\ s \in Deletable => t \in Deletable
BY DEF ValidTransition, AllowedTransitions, States, Early, Deletable

\* A row is updated along an edge; only AwaitDns leads to awaiting_dns and only
\* FinishIssuing changes the certificate.
Update(j, w) ==
  \E s \in States, c \in Orders \cup {NoOrder} :
    /\ ValidTransition(row[j].state, s)
    /\ SetRow(j, s, c)
    /\ s = "awaiting_dns" => pc[w] = "await"
    /\ \/ c = row[j].cert
       \/ pc[w] = "finish" /\ c = ctx[w].ord /\ row[j].state = "issuing"

RowEffect(w) ==
  \/ row' = row
  \/ Update(ctx[w].job, w)
  \/ pc[w] = "delete" /\ row' = [row EXCEPT ![ctx[w].job] = Missing("deleted")]

\* The way of a thread through its labels.
Flow(w) ==
  LET j == ctx[w].job IN
  /\ pc[w] # "idle"
  /\ \A v \in Workers \ {w} : pc'[v] = pc[v] /\ ctx'[v] = ctx[v]
  /\ pc'[w] \in {"idle"} \/ ctx'[w].job = j
  /\ pc'[w] \notin {"ensure_key", "delete"}
  /\ pc'[w] \in Completing =>
       \/ pc[w] \in Completing
       \/ pc[w] = "validate" /\ row[j].state = "awaiting_dns"
          /\ row'[j].state = "validating"
  /\ pc'[w] \in Asking => pc[w] \in Asking \cup {"validate"}
  /\ pc'[w] \in Starting =>
       \/ pc[w] \in Starting
       \/ pc[w] = "ensure_key" /\ pendingKey'[j]
  /\ pc'[w] \in {"polling", "issue"} =>
       \/ pc[w] = "poll" /\ ctx'[w].ord = order[j] /\ order[j] \in Orders
       \/ pc[w] \in {"polling", "issue"} /\ ctx'[w].ord = ctx[w].ord
  /\ pc'[w] \in Holding =>
       \/ pc[w] = "finalize" /\ ctx'[w].ord = order[j] /\ order[j] \in Orders
          /\ status' # status
       \/ pc[w] \in Holding /\ ctx'[w].ord = ctx[w].ord
  /\ pc'[w] \in Holding \ {"store"} =>
       \/ pc[w] \in Holding \ {"store"}
       \/ pc[w] = "store" /\ ctx[w].ord \in certs'
  /\ pc'[w] = "prove" => pc[w] \in Holding /\ j \in StagingJobs

\* A transition that is not read back changes the table as one that is.
LEMMA UnreadUpdates ==
  ASSUME TypeOK, NEW w \in Workers, Unread(w) PROVE Update(ctx[w].job, w)
<1> DEFINE j == ctx[w].job
<1>1. pc[w] \in Asks /\ CanTransition(w, Attempt(w)[1], Attempt(w)[2])
      /\ SetRow(j, Attempt(w)[2], IF pc[w] = "finish" THEN ctx[w].ord ELSE row[j].cert)
  BY DEF Unread
<1>2. ValidTransition(row[j].state, Attempt(w)[2]) /\ row[j].state = Attempt(w)[1]
  BY <1>1 DEF CanTransition, Current
<1>3. pc[w] \in Labels /\ ThreadOK(pc[w], ctx[w])
  BY DEF TypeOK, Threads
<1>4. ctx[w].job \in Jobs /\ row[j].cert \in Orders \cup {NoOrder}
  BY <1>1, <1>3 DEF ThreadOK, TypeOK, Row, Asks
<1>5. pc[w] = "finish" => ctx[w].ord \in Orders
  BY <1>3 DEF ThreadOK, Holding
<1>6. /\ Attempt(w)[2] \in States
      /\ Attempt(w)[2] = "awaiting_dns" => pc[w] = "await"
      /\ pc[w] = "finish" => Attempt(w)[1] = "issuing"
  BY <1>1, Attempted
<1> QED
  BY ONLY <1>1, <1>2, <1>4, <1>5, <1>6 DEF Update

\* What each step of a request makes of the table.
LEMMA StepRow ==
  ASSUME TypeOK, NEW w \in Workers, Step(w) PROVE RowEffect(w)
<1> DEFINE c == ctx[w]
<1>0. pc[w] # "idle" => c.job \in Jobs /\ row[c.job].cert \in Orders \cup {NoOrder}
  BY DEF TypeOK, Threads, ThreadOK, Row
<1>1. CASE AwaitDns(w)
  BY <1>0, <1>1 DEF AwaitDns, Advance, CanTransition, Current, RowEffect, Update, States
<1>2. CASE BeginValidating(w)
  BY <1>0, <1>2 DEF BeginValidating, Advance, CanTransition, Current, RowEffect, Update, States
<1>3. CASE BeginIssuing(w)
  BY <1>0, <1>3 DEF BeginIssuing, Advance, CanTransition, Current, RowEffect, Update, States
<1>4. CASE FinishIssuing(w)
  <2>1. c.ord \in Orders
    BY <1>4 DEF FinishIssuing, TypeOK, Threads, ThreadOK, Holding
  <2> QED
    BY <1>4, <2>1 DEF FinishIssuing, FinishTarget, CanTransition, Current, RowEffect, Update, States
<1>5. CASE FailJob(w)
  BY <1>0, <1>5 DEF FailJob, FailTarget, CanTransition, Current, RowEffect, Update, States
<1>6. CASE RequireCleanup(w)
  BY <1>0, <1>6 DEF RequireCleanup, CanTransition, Current, RowEffect, Update, States
<1>7. CASE ServiceCancel(w)
  BY <1>0, <1>7 DEF ServiceCancel, RowEffect, Update, States
<1>8. CASE Retarget(w)
  <2>1. CleanupTarget(c.job) \in {"issued", "cancelled"}
    BY <1>0, <1>8 DEF Retarget, CleanupTarget, TypeOK
  <2> QED
    BY <1>0, <1>8, <2>1 DEF Retarget, CanTransition, Current, RowEffect, Update, States
<1>9. CASE DeleteRow(w)
  BY <1>9 DEF DeleteRow, RowEffect
<1>10. CASE Unread(w)
  BY <1>10, UnreadUpdates DEF RowEffect
<1> QED
  BY <1>1, <1>2, <1>3, <1>4, <1>5, <1>6, <1>7, <1>8, <1>9, <1>10 DEF Step,
     RowEffect, EnsurePendingKey, CreateOrder, Present, PresentLeaks, Abort,
     TagRecords, AnswerChallenges, PollOrder, PollReady, Finalize,
     StoreCertificate, CompletionFails, CleanupRecords, DropPendingKey, DropKeyRaises,
     MarkIssued, Untag, ProveStaging, HandleFailure, Reread, Conflict,
     CancelCleanup, MarkCancelled, RetryRemove

\* Where a thread was before it got to the steps that matter.
LEMMA StepFlow ==
  ASSUME TypeOK, NEW w \in Workers, Step(w) PROVE Flow(w)
<1> USE DEF Flow, Completing, Holding, Asking, Starting, Goto, Return
<1>0. pc \in [Workers -> Labels] /\ ctx \in [Workers -> Context]
  BY DEF TypeOK, Threads
<1>1. CASE EnsurePendingKey(w)
  BY <1>0, <1>1 DEF EnsurePendingKey, TypeOK, Threads, ThreadOK
<1>2. CASE CreateOrder(w)
  BY <1>0, <1>2 DEF CreateOrder, Context
<1>3. CASE Present(w)
  BY <1>0, <1>3 DEF Present
<1>4. CASE PresentLeaks(w)
  BY <1>0, <1>4 DEF PresentLeaks
<1>5. CASE Abort(w)
  BY <1>0, <1>5 DEF Abort, Unguarded
<1>6. CASE TagRecords(w)
  BY <1>0, <1>6 DEF TagRecords
<1>7. CASE AwaitDns(w)
  BY <1>0, <1>7 DEF AwaitDns, Advance, Context
<1>8. CASE BeginValidating(w)
  BY <1>0, <1>8 DEF BeginValidating, Advance, SetRow, CanTransition, Current, TypeOK, Threads, ThreadOK, Row
<1>9. CASE AnswerChallenges(w)
  BY <1>0, <1>9 DEF AnswerChallenges
<1>10. CASE PollOrder(w)
  BY <1>0, <1>10 DEF PollOrder, Context
<1>11. CASE PollReady(w)
  BY <1>0, <1>11 DEF PollReady
<1>12. CASE BeginIssuing(w)
  BY <1>0, <1>12 DEF BeginIssuing, Advance, Context
<1>13. CASE Finalize(w)
  <2>1. /\ pc[w] = "finalize" /\ pc'[w] \in {"store", "handle"}
        /\ \A v \in Workers \ {w} : pc'[v] = pc[v]
    BY <1>0, <1>13 DEF Finalize
  <2>2. /\ ctx'[w].job = ctx[w].job
        /\ \A v \in Workers \ {w} : ctx'[v] = ctx[v]
    BY <1>0, <1>13 DEF Finalize, Context
  <2>3. status' # status /\ order[ctx[w].job] \in Orders
    BY <1>13 DEF Finalize, TypeOK
  <2>4. pc'[w] = "store" => ctx'[w].ord = order[ctx[w].job]
    BY <1>0, <1>13 DEF Finalize, Context
  <2> QED
    BY <2>1, <2>2, <2>3, <2>4
<1>14. CASE StoreCertificate(w)
  BY <1>0, <1>14 DEF StoreCertificate
<1>15. CASE CompletionFails(w)
  BY <1>0, <1>15 DEF CompletionFails
<1>16. CASE CleanupRecords(w)
  BY <1>0, <1>16 DEF CleanupRecords, Cleanup, Context
<1>17. CASE DropPendingKey(w)
  BY <1>0, <1>17 DEF DropPendingKey
<1>18. CASE MarkIssued(w)
  BY <1>0, <1>18 DEF MarkIssued
<1>19. CASE FinishIssuing(w)
  BY <1>0, <1>19 DEF FinishIssuing
<1>20. CASE Untag(w)
  BY <1>0, <1>20 DEF Untag
<1>21. CASE ProveStaging(w)
  BY <1>0, <1>21 DEF ProveStaging
<1>22. CASE HandleFailure(w)
  BY <1>0, <1>22 DEF HandleFailure, Cleanup, Context
<1>23. CASE Reread(w)
  BY <1>0, <1>23 DEF Reread, Context
<1>24. CASE FailJob(w)
  BY <1>0, <1>24 DEF FailJob
<1>25. CASE Conflict(w)
  BY <1>0, <1>25 DEF Conflict, Asks
<1>26. CASE CancelCleanup(w)
  BY <1>0, <1>26 DEF CancelCleanup, Cleanup, Context
<1>27. CASE MarkCancelled(w)
  BY <1>0, <1>27 DEF MarkCancelled
<1>28. CASE RequireCleanup(w)
  BY <1>0, <1>28 DEF RequireCleanup
<1>29. CASE ServiceCancel(w)
  BY <1>0, <1>29 DEF ServiceCancel
<1>30. CASE RetryRemove(w)
  BY <1>0, <1>30 DEF RetryRemove, Cleanup, Context
<1>31. CASE Retarget(w)
  BY <1>0, <1>31 DEF Retarget
<1>32. CASE DeleteRow(w)
  BY <1>0, <1>32 DEF DeleteRow
<1>33. CASE DropKeyRaises(w)
  BY <1>0, <1>33 DEF DropKeyRaises
<1>34. CASE Unread(w)
  <2>1. pc[w] # "idle"
    BY <1>34 DEF Unread, Asks
  <2>2. CASE pc[w] = "issue" /\ Goto(w, "handle") /\ UNCHANGED ctx
    BY <1>0, <2>1, <2>2
  <2>3. CASE Return(w)
    BY <1>0, <2>1, <2>3
  <2> QED
    BY <1>34, <2>2, <2>3 DEF Unread
<1> QED
  BY <1>1, <1>2, <1>3, <1>4, <1>5, <1>6, <1>7, <1>8, <1>9, <1>10, <1>11,
     <1>12, <1>13, <1>14, <1>15, <1>16, <1>17, <1>18, <1>19, <1>20, <1>21,
     <1>22, <1>23, <1>24, <1>25, <1>26, <1>27, <1>28, <1>29, <1>30, <1>31,
     <1>32, <1>33, <1>34 DEF Step

\* What a request that comes in does, besides reading its job.
Entry(w) ==
  LET j == ctx'[w].job IN
  /\ UNCHANGED <<row, order, pendingKey, certs, placed, status, proof>>
  /\ \A v \in Workers \ {w} : pc'[v] = pc[v] /\ ctx'[v] = ctx[v]
  /\ pc'[w] \notin Completing \cup {"present", "tag", "await"}
  /\ pc'[w] = "ensure_key" => StagingGate(j)
  /\ pc'[w] = "create_order" =>
       j \in Jobs /\ row[j].state = "awaiting_dns" /\ pendingKey[j]
  /\ pc'[w] = "delete" => row[j].state \in Deletable

\* What holds of a job when a request on it comes in.
LEMMA RequestEntry ==
  ASSUME TypeOK, NEW w \in Workers, Request(w) PROVE Entry(w)
<1> USE DEF Entry, Enter, Goto, Completing, settings, artifacts, world, process
<1>0. pc \in [Workers -> Labels] /\ ctx \in [Workers -> Context]
  BY DEF TypeOK, Threads
<1>1. ASSUME NEW j \in Jobs, StartAcme(w, j) PROVE Entry(w)
  BY <1>0, <1>1 DEF StartAcme
<1>2. ASSUME NEW j \in Jobs, ContinueManualDns(w, j) PROVE Entry(w)
  BY <1>0, <1>2 DEF ContinueManualDns
<1>3. ASSUME NEW j \in Jobs, CancelAcme(w, j) PROVE Entry(w)
  BY <1>0, <1>3 DEF CancelAcme
<1>4. ASSUME NEW j \in Jobs, RetryCleanup(w, j) PROVE Entry(w)
  BY <1>0, <1>4 DEF RetryCleanup
<1>5. ASSUME NEW j \in Jobs, DeleteTerminalJob(w, j) PROVE Entry(w)
  BY <1>0, <1>5 DEF DeleteTerminalJob
<1> QED
  BY <1>1, <1>2, <1>3, <1>4, <1>5 DEF Request

\* The steps that touch an order, a key, a certificate or the proof.
LEMMA StepBooks ==
  ASSUME NEW w \in Workers, Step(w),
         ~EnsurePendingKey(w), ~CreateOrder(w), ~AnswerChallenges(w), ~PollReady(w),
         ~Finalize(w), ~StoreCertificate(w), ~DropPendingKey(w), ~DropKeyRaises(w),
         ~ProveStaging(w)
  PROVE  UNCHANGED <<order, pendingKey, certs, placed, status, proof>>
<1> USE DEF settings, artifacts, world, process
<1>1. CASE Present(w) \/ PresentLeaks(w) \/ Abort(w) \/ TagRecords(w) \/ AwaitDns(w)
           \/ BeginValidating(w) \/ PollOrder(w) \/ BeginIssuing(w)
           \/ CompletionFails(w) \/ CleanupRecords(w) \/ MarkIssued(w)
  BY <1>1 DEF Present, PresentLeaks, Abort, TagRecords, AwaitDns, BeginValidating,
     PollOrder, BeginIssuing, CompletionFails, CleanupRecords, MarkIssued
<1>2. CASE FinishIssuing(w) \/ Untag(w) \/ HandleFailure(w) \/ Reread(w) \/ FailJob(w)
           \/ Conflict(w) \/ Unread(w) \/ CancelCleanup(w) \/ MarkCancelled(w)
           \/ RequireCleanup(w) \/ ServiceCancel(w) \/ RetryRemove(w)
           \/ Retarget(w) \/ DeleteRow(w)
  BY <1>2 DEF FinishIssuing, Untag, HandleFailure, Reread, FailJob, Conflict, Unread,
     CancelCleanup, MarkCancelled, RequireCleanup, ServiceCancel, RetryRemove,
     Retarget, DeleteRow
<1> QED
  BY <1>1, <1>2 DEF Step

\* What creating a job, a crash, the recovery and the outside do.
System ==
  \/ \E j \in Jobs : CreateJob(j)
  \/ Crash \/ Recovery \/ Outside

\* The states a deletion may find: deletable, or deleted already.
Closed == Deletable \cup {"deleted"}

\* No row goes back before validating, and none leaves the deletable states.
Onward ==
  \A j \in Jobs :
    /\ row[j].state \notin Early => row'[j].state \notin Early
    /\ row[j].state \in Closed => row'[j].state \in Closed

\* A transition of the table never takes a job back to before validating, nor
\* out of the states a deletion accepts.
LEMMA EdgeOnward ==
  ASSUME row \in [Jobs -> Row], NEW k \in Jobs, NEW s, NEW c,
         ValidTransition(row[k].state, s), SetRow(k, s, c)
  PROVE  Onward
<1>1. /\ s \in Early => row[k].state \in Early
      /\ row[k].state \in Closed => s \in Closed
  BY Edges DEF Early, Closed, States
<1>2. /\ row'[k].state = s
      /\ \A j \in Jobs \ {k} : row'[j] = row[j]
  BY DEF SetRow, Row
<1> QED
  BY <1>1, <1>2 DEF Onward

\* No step of a request takes a job back.
LEMMA StepOnward ==
  ASSUME TypeOK, NEW w \in Workers, Step(w) PROVE Onward
<1>1. row \in [Jobs -> Row] /\ RowEffect(w)
  BY StepRow DEF TypeOK
<1>2. CASE row' = row
  BY <1>2 DEF Onward
<1>3. CASE Update(ctx[w].job, w)
  <2>1. PICK s \in States, c \in Orders \cup {NoOrder} :
          ValidTransition(row[ctx[w].job].state, s) /\ SetRow(ctx[w].job, s, c)
    BY <1>3 DEF Update
  <2>2. CASE ctx[w].job \in Jobs
    BY <1>1, <2>1, <2>2, EdgeOnward
  <2>3. CASE ctx[w].job \notin Jobs
    BY <1>1, <2>1, <2>3 DEF SetRow, Onward
  <2> QED
    BY <2>2, <2>3
<1>4. CASE row' = [row EXCEPT ![ctx[w].job] = Missing("deleted")]
  BY <1>1, <1>4 DEF Missing, Onward, Early, Closed, Row
<1> QED
  BY <1>1, <1>2, <1>3, <1>4 DEF RowEffect

\* Neither a creation, a crash, the recovery nor the outside takes a job back.
LEMMA SystemOnward ==
  ASSUME TypeOK, System PROVE Onward
<1> USE DEF Onward, Closed
<1>0. row \in [Jobs -> Row]
  BY DEF TypeOK
<1>1. ASSUME NEW j \in Jobs, CreateJob(j) PROVE Onward
  BY <1>0, <1>1 DEF CreateJob, Missing, Early, Deletable, Row
<1>2. ASSUME NEW j \in Jobs, RecoverJob(j) PROVE Onward
  <2>1. CASE row' = row
    BY <2>1
  <2>2. ASSUME NEW s, ValidTransition(row[j].state, s), SetRow(j, s, row[j].cert)
        PROVE  Onward
    BY <1>0, <2>2, EdgeOnward
  <2> QED
    BY <1>2, <2>1, <2>2 DEF RecoverJob
<1>3. CASE row' = row
  BY <1>3
<1> QED
  BY <1>1, <1>2, <1>3 DEF System, Crash, Recovery, Outside, RecoveryRaises, Serve,
     ServerValidates, UserPublishes

(***************************************************************************)
(* The inductive invariant, part by part                                   *)
(***************************************************************************)

\* Only a step of a request changes the labels, but for a crash.
LEMMA SystemThreads ==
  ASSUME System
  PROVE  \/ UNCHANGED <<pc, ctx>>
         \/ pc' = [w \in Workers |-> "idle"]
BY DEF System, CreateJob, Crash, Recovery, RecoverJob, RecoveryRaises, Serve, Outside,
   ServerValidates, UserPublishes

\* A thread that serves a request has a job.
LEMMA ThreadJob ==
  ASSUME TypeOK, NEW w \in Workers, pc[w] # "idle"
  PROVE  ctx[w].job \in Jobs
BY DEF TypeOK, Threads, ThreadOK

\* One thread at most completes a job: the transition to validating is won once.
LEMMA ExclusiveNext ==
  ASSUME TypeOK, TypeOK', Exclusive, [Next]_vars PROVE Exclusive'
<1>1. ASSUME NEW w \in Workers, Step(w) PROVE Exclusive'
  <2>1. Flow(w) /\ RowEffect(w) /\ Onward
    BY <1>1, StepFlow, StepRow, StepOnward
  <2>2. ASSUME NEW v \in Workers, pc'[v] \in Completing
        PROVE  row'[ctx'[v].job].state \notin Early
    <3>1. CASE v = w
      BY <2>1, <2>2, <3>1, ThreadJob DEF Flow, Exclusive, Onward, Early, Completing
    <3>2. CASE v # w
      <4>1. pc[v] \in Completing /\ pc[v] # "idle" /\ ctx'[v] = ctx[v]
        BY <2>1, <2>2, <3>2 DEF Flow, Completing
      <4> QED
        BY <2>1, <4>1, ThreadJob DEF Exclusive, Onward
    <3> QED
      BY <3>1, <3>2
  <2>3. ASSUME NEW v \in Workers, pc'[v] = "delete"
        PROVE  row'[ctx'[v].job].state \in Closed
    <3>1. pc[v] = "delete" /\ ctx'[v] = ctx[v]
      BY <2>1, <2>3 DEF Flow
    <3> QED
      BY <2>1, <3>1, ThreadJob DEF Exclusive, Onward, Closed
  <2>4. ASSUME NEW u \in Workers, NEW v \in Workers, u # v,
               pc'[u] \in Completing, pc'[v] \in Completing, ctx'[u].job = ctx'[v].job
        PROVE  FALSE
    <3>1. ASSUME NEW x \in Workers \ {w}, pc'[w] \in Completing,
                 pc'[x] \in Completing, ctx'[w].job = ctx'[x].job
          PROVE  FALSE
      <4>1. pc[x] \in Completing /\ ctx'[w].job = ctx[w].job /\ ctx'[x] = ctx[x]
        BY <2>1, <3>1 DEF Flow, Completing
      <4>2. row[ctx[w].job].state # "awaiting_dns"
        BY <3>1, <4>1 DEF Exclusive, Early
      <4> QED
        BY <2>1, <3>1, <4>1, <4>2 DEF Flow, Exclusive
    <3>2. CASE u # w /\ v # w
      BY <2>1, <2>4, <3>2 DEF Flow, Exclusive
    <3> QED
      BY <2>4, <3>1, <3>2
  <2> QED
    BY <2>2, <2>3, <2>4 DEF Exclusive, Closed
<1>2. ASSUME NEW w \in Workers, Request(w) PROVE Exclusive'
  <2>1. Entry(w)
    BY <1>2, RequestEntry
  <2> QED
    BY <2>1 DEF Entry, Exclusive
<1>3. CASE System
  <2>1. CASE UNCHANGED <<pc, ctx>>
    <3>1. Onward
      BY <1>3, SystemOnward
    <3> QED
      BY <2>1, <3>1, ThreadJob DEF Exclusive, Onward, Closed, Completing
  <2>2. CASE pc' = [w \in Workers |-> "idle"]
    BY <2>2 DEF Exclusive, Completing
  <2> QED
    BY <1>3, <2>1, <2>2, SystemThreads
<1>4. CASE UNCHANGED vars
  BY <1>4 DEF vars, Exclusive
<1> QED
  BY <1>1, <1>2, <1>3, <1>4 DEF Next, System

\* Outside of a request nothing changes but the status of an order that was answered.
LEMMA SystemBooks ==
  ASSUME System
  PROVE  /\ UNCHANGED <<order, pendingKey, certs, placed, proof>>
         /\ \/ UNCHANGED status
            \/ \E o \in Orders, s \in {"ready", "invalid"} :
                 status[o] = "answered" /\ status' = [status EXCEPT ![o] = s]
BY DEF System, CreateJob, Crash, Recovery, RecoverJob, RecoveryRaises, Serve, Outside,
   ServerValidates, UserPublishes, settings, artifacts, world, process

\* A stored certificate is not deleted here, and an order keeps its job and,
\* once it is valid, its status.
Grows ==
  /\ certs \subseteq certs'
  /\ \A j \in Jobs : placed[j] \subseteq placed'[j]
  /\ \A o \in Orders :
       /\ status[o] = "valid" => status'[o] = "valid"
       /\ status[o] # "unused" => status'[o] # "unused"

\* A step of a request takes back neither an order, a certificate nor a status
\* the properties look at.
LEMMA StepGrows ==
  ASSUME TypeOK, NEW w \in Workers, Step(w) PROVE Grows
<1> USE DEF Grows, settings, artifacts, world, process
<1>1. /\ placed \in [Jobs -> SUBSET Orders] 
      /\ status \in [Orders -> {"unused", "pending", "answered", "ready", "valid",
                                "invalid"}]
  BY DEF TypeOK
<1>2. CASE \/ EnsurePendingKey(w) \/ PollReady(w) \/ DropPendingKey(w)
           \/ DropKeyRaises(w) \/ ProveStaging(w)
  BY <1>2 DEF EnsurePendingKey, PollReady, DropPendingKey, DropKeyRaises, ProveStaging
<1>3. CASE CreateOrder(w)
  BY <1>1, <1>3 DEF CreateOrder
<1>4. CASE AnswerChallenges(w) \/ Finalize(w)
  BY <1>1, <1>4 DEF AnswerChallenges, Finalize
<1>5. CASE StoreCertificate(w)
  BY <1>5 DEF StoreCertificate
<1>6. CASE UNCHANGED <<certs, placed, status>>
  BY <1>6
<1> QED
  BY <1>2, <1>3, <1>4, <1>5, <1>6, StepBooks

\* Nothing outside a request does either.
LEMMA SystemGrows ==
  ASSUME TypeOK, System PROVE Grows
BY SystemBooks DEF Grows, TypeOK

\* An order stays with the job it was placed for, although acme-order:<job> is
\* overwritten freely.
LEMMA OwnOrdersNext ==
  ASSUME TypeOK, TypeOK', OwnOrders, [Next]_vars PROVE OwnOrders'
<1>1. ASSUME NEW w \in Workers, Step(w) PROVE OwnOrders'
  <2> DEFINE j == ctx[w].job
  <2>1. Flow(w) /\ Grows /\ j \in Jobs
    BY <1>1, StepFlow, StepGrows, ThreadJob DEF Flow
  <2>2. order[j] \in Orders => order[j] \in placed[j]
    BY <2>1, OrderAssumption DEF OwnOrders
  <2>3. ASSUME NEW v \in Workers, pc'[v] \in {"polling", "issue"} \cup Holding
        PROVE  ctx'[v].ord \in placed'[ctx'[v].job]
    <3>1. CASE v # w
      BY <2>1, <2>3, <3>1, ThreadJob DEF Flow, Grows, OwnOrders, Holding
    <3>2. CASE v = w
      <4>1. ctx'[w].job = j /\ ctx'[w].ord \in placed[j]
        BY <2>1, <2>2, <2>3, <3>2 DEF Flow, OwnOrders, Holding
      <4> QED
        BY <2>1, <3>2, <4>1 DEF Grows
    <3> QED
      BY <3>1, <3>2
  <2>4. /\ \A k \in Jobs : order'[k] \in placed'[k] \cup {NoOrder}
        /\ \A k, l \in Jobs : \A o \in placed'[k] \cap placed'[l] : k = l
        /\ \A k \in Jobs : \A o \in placed'[k] : status'[o] # "unused"
    <3> USE DEF OwnOrders, TypeOK
    <3>1. CASE CreateOrder(w)
      BY <2>1, <3>1 DEF CreateOrder
    <3>2. CASE PollReady(w)
      <4>1. ctx[w].ord \in placed[j]
        BY <3>2 DEF PollReady, OwnOrders
      <4> QED
        BY <2>1, <3>2, <4>1 DEF PollReady, world
    <3>3. CASE placed' = placed /\ order' = order
      BY <2>1, <3>3 DEF Grows
    <3> QED
      BY <1>1, <3>1, <3>2, <3>3, StepBooks DEF EnsurePendingKey, AnswerChallenges, Finalize,
         StoreCertificate, DropPendingKey, DropKeyRaises, ProveStaging, settings, artifacts, world
  <2> QED
    BY <2>3, <2>4 DEF OwnOrders
<1>2. ASSUME NEW w \in Workers, Request(w) PROVE OwnOrders'
  <2>1. Entry(w) /\ pc'[w] \notin {"polling", "issue"} \cup Holding
    BY <1>2, RequestEntry DEF Entry, Completing, Holding
  <2> QED
    BY <2>1 DEF Entry, OwnOrders
<1>3. CASE System
  BY <1>3, SystemBooks, SystemGrows, SystemThreads DEF OwnOrders, Grows, TypeOK, Holding
<1>4. CASE UNCHANGED vars
  BY <1>4 DEF vars, settings, world, OwnOrders
<1> QED
  BY <1>1, <1>2, <1>3, <1>4 DEF Next, System

\* The orders of a job that are valid after the step.
ValidNext(j) == {o \in placed'[j] : status'[o] = "valid"}

\* Only finalize makes an order valid, and only its own job's.
LEMMA SameValid ==
  ASSUME TypeOK, OwnOrders,
         \/ \E w \in Workers : Step(w) /\ ~Finalize(w)
         \/ System
  PROVE  \A k \in Jobs : ValidNext(k) = Valid(k)
<1> USE DEF Valid, ValidNext
<1>0. /\ placed \in [Jobs -> SUBSET Orders] 
      /\ status \in [Orders -> {"unused", "pending", "answered", "ready", "valid",
                                "invalid"}]
      /\ \A j \in Jobs : \A o \in placed[j] : status[o] # "unused"
  BY DEF TypeOK, OwnOrders
<1>1. ASSUME NEW w \in Workers, Step(w), ~Finalize(w)
      PROVE  \A k \in Jobs : ValidNext(k) = Valid(k)
  <2>1. CASE CreateOrder(w)
    BY <1>0, <2>1 DEF CreateOrder
  <2>2. CASE AnswerChallenges(w)
    BY <1>0, <2>2 DEF AnswerChallenges
  <2>3. CASE UNCHANGED <<placed, status>>
    BY <2>3
  <2> QED
    BY <1>1, <2>1, <2>2, <2>3, StepBooks DEF EnsurePendingKey, PollReady,
       StoreCertificate, DropPendingKey, DropKeyRaises, ProveStaging, world
<1>2. CASE System
  <2>1. CASE UNCHANGED status
    BY <1>2, <2>1, SystemBooks
  <2>2. ASSUME NEW o \in Orders, NEW s \in {"ready", "invalid"},
               status[o] = "answered", status' = [status EXCEPT ![o] = s]
        PROVE  \A k \in Jobs : ValidNext(k) = Valid(k)
    BY <1>0, <1>2, <2>2, SystemBooks
  <2> QED
    BY <1>2, <2>1, <2>2, SystemBooks
<1> QED
  BY <1>1, <1>2

\* finalize makes exactly one order of its job valid.
LEMMA FinalizeValid ==
  ASSUME TypeOK, Exclusive, OwnOrders, IssuedOnce, NEW w \in Workers, Finalize(w)
  PROVE  LET j == ctx[w].job IN
         /\ j \in Jobs /\ order[j] \in Orders /\ row[j].state \notin Early
         /\ ValidNext(j) = {order[j]}
         /\ \A k \in Jobs \ {j} : ValidNext(k) = Valid(k)
<1> DEFINE j == ctx[w].job
           o == order[j]
<1>1. /\ pc[w] = "finalize" /\ j \in Jobs /\ o \in placed[j]
      /\ placed' = placed /\ status' = [status EXCEPT ![o] = "valid"]
  BY OrderAssumption, ThreadJob DEF Finalize, OwnOrders
<1>2. Valid(j) = {} /\ row[j].state \notin Early
  BY <1>1 DEF IssuedOnce, Exclusive, Asking, Completing
<1>3. placed \in [Jobs -> SUBSET Orders] /\ DOMAIN status = Orders
  BY DEF TypeOK
<1>4. \A k \in Jobs \ {j} : o \notin placed[k]
  BY <1>1 DEF OwnOrders
<1>5. \A x \in Orders : status'[x] = IF x = o THEN "valid" ELSE status[x]
  BY <1>1, <1>3
<1>6. ValidNext(j) = {o}
  BY <1>1, <1>2, <1>3, <1>5 DEF Valid, ValidNext
<1>7. \A k \in Jobs \ {j} : ValidNext(k) = Valid(k)
  BY <1>1, <1>3, <1>4, <1>5 DEF Valid, ValidNext
<1> QED
  BY <1>1, <1>2, <1>3, <1>6, <1>7

\* One order per job becomes valid, and its thread is the one that stores it.
LEMMA IssuedOnceNext ==
  ASSUME TypeOK, TypeOK', Exclusive, Exclusive', OwnOrders, IssuedOnce, [Next]_vars
  PROVE  IssuedOnce'
<1>1. ASSUME NEW w \in Workers, Finalize(w) PROVE IssuedOnce'
  <2> DEFINE j == ctx[w].job
  <2>1. Flow(w) /\ Grows /\ Onward /\ row' = row /\ certs' = certs
    BY <1>1, StepFlow, StepGrows, StepOnward DEF Step, Finalize, artifacts
  <2>2. /\ j \in Jobs /\ order[j] \in Orders /\ row[j].state \notin Early
        /\ ValidNext(j) = {order[j]}
        /\ \A k \in Jobs \ {j} : ValidNext(k) = Valid(k)
    BY <1>1, FinalizeValid
  <2>3. ASSUME NEW v \in Workers \ {w}, pc'[v] \in Completing
        PROVE  /\ ctx'[v].job \in Jobs \ {j} /\ pc'[v] = pc[v] /\ ctx'[v] = ctx[v]
    BY <1>1, <2>1, <2>3, ThreadJob DEF Flow, Exclusive, Finalize, Completing
  <2>4. pc'[w] \in Holding => ctx'[w].job = j /\ ctx'[w].ord = order[j]
    BY <1>1, <2>1 DEF Flow, Finalize, Holding
  <2>5. pc'[w] \notin Asking \cup (Holding \ {"store"})
    BY <1>1 DEF Finalize, TypeOK, Threads, Goto, Asking, Holding
  <2>6. \A o \in certs' : status'[o] = "valid"
    BY <2>1 DEF IssuedOnce, Grows, TypeOK
  <2>7. \A k \in Jobs : row'[k].state \in Early => ValidNext(k) = {}
    BY <2>1, <2>2 DEF IssuedOnce
  <2>8. ASSUME NEW v \in Workers
        PROVE  /\ pc'[v] \in Asking => ValidNext(ctx'[v].job) = {}
               /\ pc'[v] \in Holding => ValidNext(ctx'[v].job) = {ctx'[v].ord}
               /\ pc'[v] \in Holding \ {"store"} => ctx'[v].ord \in certs'
    <3>1. CASE v = w
      BY <2>2, <2>4, <2>5, <3>1 DEF Asking, Holding
    <3>2. CASE v # w
      BY <2>1, <2>2, <2>3, <3>2 DEF IssuedOnce, Completing, Asking, Holding
    <3> QED
      BY <3>1, <3>2
  <2>9. \A k \in Jobs : \A a, b \in ValidNext(k) : a = b
    BY <2>2 DEF IssuedOnce
  <2> QED
    BY <2>6, <2>7, <2>8, <2>9 DEF IssuedOnce, Valid, ValidNext
<1>2. ASSUME NEW w \in Workers, Step(w), ~Finalize(w) PROVE IssuedOnce'
  <2>1. Flow(w) /\ Grows /\ Onward /\ \A k \in Jobs : ValidNext(k) = Valid(k)
    BY <1>2, StepFlow, StepGrows, StepOnward, SameValid
  <2>2. ASSUME NEW o \in certs' PROVE status'[o] = "valid"
    <3>1. o \in certs \/ (o \in Valid(ctx[w].job) /\ pc[w] = "store")
      BY <1>2, <2>2, StepBooks DEF StoreCertificate, IssuedOnce, Holding, EnsurePendingKey,
         CreateOrder, AnswerChallenges, PollReady, DropPendingKey, DropKeyRaises, ProveStaging, artifacts
    <3> QED
      BY <2>1, <3>1, ThreadJob DEF IssuedOnce, Valid, Grows, TypeOK
  <2>3. \A k \in Jobs : row'[k].state \in Early => ValidNext(k) = {}
    BY <2>1 DEF IssuedOnce, Onward
  <2>4. ASSUME NEW v \in Workers
        PROVE  /\ pc'[v] \in Asking => ValidNext(ctx'[v].job) = {}
               /\ pc'[v] \in Holding => ValidNext(ctx'[v].job) = {ctx'[v].ord}
               /\ pc'[v] \in Holding \ {"store"} => ctx'[v].ord \in certs'
    <3>1. CASE v = w
      <4>1. ctx[w].job \in Jobs
        BY <2>1, ThreadJob DEF Flow
      <4>2. pc'[w] \in Asking => Valid(ctx[w].job) = {}
        BY <2>1, <4>1 DEF Flow, IssuedOnce, Asking, Completing, Early
      <4>3. pc'[w] \in Holding => pc[w] \in Holding /\ ctx'[w].ord = ctx[w].ord
        <5>1. pc[w] = "finalize" => status' = status
          BY <1>2, StepBooks DEF EnsurePendingKey, CreateOrder, AnswerChallenges, PollReady,
             StoreCertificate, DropPendingKey, DropKeyRaises, ProveStaging
        <5> QED
          BY <2>1, <5>1 DEF Flow
      <4> QED
        BY <2>1, <3>1, <4>1, <4>2, <4>3 DEF Flow, IssuedOnce, Grows, Asking, Holding
    <3>2. CASE v # w
      BY <2>1, <3>2, ThreadJob DEF Flow, IssuedOnce, Grows, Asking, Holding
    <3> QED
      BY <3>1, <3>2
  <2>5. \A k \in Jobs : \A a, b \in ValidNext(k) : a = b
    BY <2>1 DEF IssuedOnce
  <2> QED
    BY <2>2, <2>3, <2>4, <2>5 DEF IssuedOnce, Valid, ValidNext
<1>3. ASSUME NEW w \in Workers, Request(w) PROVE IssuedOnce'
  <2>1. Entry(w) /\ pc'[w] \notin Asking \cup Holding
    BY <1>3, RequestEntry DEF Entry, Completing, Asking, Holding
  <2> QED
    BY <2>1 DEF Entry, IssuedOnce, Valid
<1>4. CASE System
  <2>1. Onward /\ Grows /\ certs' = certs /\ \A k \in Jobs : ValidNext(k) = Valid(k)
    BY <1>4, SystemOnward, SystemGrows, SystemBooks, SameValid
  <2>2. CASE UNCHANGED <<pc, ctx>>
    <3>1. \A v \in Workers : pc[v] \in Asking \cup Holding => ctx[v].job \in Jobs
      BY ThreadJob DEF Asking, Holding
    <3> QED
      BY <2>1, <2>2, <3>1 DEF IssuedOnce, Onward, Grows, TypeOK, Valid, ValidNext
  <2>3. CASE pc' = [w \in Workers |-> "idle"]
    BY <2>1, <2>3 DEF IssuedOnce, Onward, Grows, TypeOK, Asking, Holding, Valid, ValidNext
  <2> QED
    BY <1>4, <2>2, <2>3, SystemThreads
<1>5. CASE UNCHANGED vars
  BY <1>5 DEF vars, world, artifacts, IssuedOnce, Valid
<1> QED
  BY <1>1, <1>2, <1>3, <1>4, <1>5 DEF Next, System

\* What an update of the table makes of any row.
LEMMA RowAfter ==
  ASSUME row \in [Jobs -> Row], NEW j \in Jobs, NEW s, NEW c, SetRow(j, s, c)
  PROVE  /\ row'[j].state = s /\ row'[j].cert = c
         /\ \A k \in Jobs \ {j} : row'[k] = row[k]
BY DEF SetRow, Row

\* Only AwaitDns takes a job to awaiting_dns, and the job was a draft.
LEMMA StepAwaits ==
  ASSUME TypeOK, NEW w \in Workers, ctx[w].job \in Jobs, RowEffect(w), NEW k \in Jobs,
         row[k].state # "awaiting_dns", row'[k].state = "awaiting_dns"
  PROVE  k = ctx[w].job /\ pc[w] = "await" /\ row[k].state \in Early
<1> DEFINE j == ctx[w].job
<1>1. row \in [Jobs -> Row]
  BY DEF TypeOK
<1>2. CASE Update(j, w)
  <2>1. PICK s \in States, c \in Orders \cup {NoOrder} :
          /\ ValidTransition(row[j].state, s)
          /\ SetRow(j, s, c)
          /\ s = "awaiting_dns" => pc[w] = "await"
    BY <1>2 DEF Update
  <2> QED
    BY <1>1, <2>1, RowAfter, Edges DEF Early
<1>3. CASE row' = [row EXCEPT ![j] = Missing("deleted")]
  BY <1>1, <1>3 DEF Missing, Row
<1> QED
  BY <1>2, <1>3 DEF RowEffect

\* Before a job can have a certificate.
Open == Early \cup {"validating", "issuing"}

\* No job gets to awaiting_dns or to another certificate outside a request.
LEMMA SystemRows ==
  ASSUME TypeOK, System, NEW k \in Jobs
  PROVE  /\ row'[k].state = "awaiting_dns" => row[k].state = "awaiting_dns"
         /\ row'[k].state \in Open => row[k].state \in Open
         /\ row'[k].cert \in {row[k].cert, NoOrder}
<1>1. row \in [Jobs -> Row]
  BY DEF TypeOK
<1>2. ASSUME NEW j \in Jobs, CreateJob(j)
      PROVE  /\ row'[k].state = "awaiting_dns" => row[k].state = "awaiting_dns"
             /\ row'[k].state \in Open => row[k].state \in Open
             /\ row'[k].cert \in {row[k].cert, NoOrder}
  BY <1>1, <1>2 DEF CreateJob, Missing, Row, Open, Early
<1>3. ASSUME NEW j \in Jobs, RecoverJob(j), row' # row
      PROVE  /\ row'[k].state = "awaiting_dns" => row[k].state = "awaiting_dns"
             /\ row'[k].state \in Open => row[k].state \in Open
             /\ row'[k].cert = row[k].cert
  <2>1. PICK s : ValidTransition(row[j].state, s) /\ SetRow(j, s, row[j].cert)
                 /\ row[j].state \in {"validating", "issuing"}
    BY <1>3 DEF RecoverJob, Interrupted
  <2>2. s # "awaiting_dns"
    BY <2>1, Edges DEF Early
  <2> QED
    BY <1>1, <2>1, <2>2, RowAfter DEF Open
<1>4. CASE row' = row
  BY <1>4
<1> QED
  BY <1>2, <1>3, <1>4 DEF System, Crash, Recovery, Outside, RecoveryRaises, Serve,
     ServerValidates, UserPublishes

\* A pending key set is dropped by the thread that stored the certificate.
LEMMA StepKeys ==
  ASSUME TypeOK, NEW w \in Workers, Step(w), NEW j \in Jobs, pendingKey[j], ~pendingKey'[j]
  PROVE  pc[w] = "drop_key" /\ j = ctx[w].job
<1>1. CASE EnsurePendingKey(w)
  BY <1>1 DEF EnsurePendingKey, TypeOK
<1>2. CASE DropPendingKey(w) \/ DropKeyRaises(w)
  BY <1>2 DEF DropPendingKey, DropKeyRaises, TypeOK
<1>3. CASE UNCHANGED pendingKey
  BY <1>3
<1> QED
  BY <1>1, <1>2, <1>3, StepBooks DEF CreateOrder, AnswerChallenges, PollReady, Finalize,
     StoreCertificate, ProveStaging, artifacts

\* The pending key set is there while its thread may still need it.
LEMMA KeyHeldNext ==
  ASSUME TypeOK, TypeOK', Exclusive, Exclusive', KeyHeld, [Next]_vars
  PROVE  KeyHeld'
<1>1. ASSUME NEW w \in Workers, Step(w) PROVE KeyHeld'
  <2> DEFINE j == ctx[w].job
  <2>1. Flow(w) /\ RowEffect(w) /\ Onward /\ j \in Jobs
    BY <1>1, StepFlow, StepRow, StepOnward, ThreadJob DEF Flow
  <2>2. ASSUME NEW k \in Jobs, pendingKey[k], row'[k].state \in Early PROVE pendingKey'[k]
    <3>1. row[k].state \in Early
      BY <2>1, <2>2 DEF Onward
    <3> QED
      BY <1>1, <2>2, <3>1, StepKeys DEF TypeOK, Exclusive, Completing
  <2>3. ASSUME NEW k \in Jobs, row'[k].state = "awaiting_dns" PROVE pendingKey'[k]
    <3>1. pendingKey[k]
      <4>1. CASE row[k].state = "awaiting_dns"
        BY <4>1 DEF KeyHeld
      <4>2. CASE row[k].state # "awaiting_dns"
        <5>1. k = j /\ pc[w] = "await" /\ row[k].state \in Early
          BY <2>1, <2>3, <4>2, StepAwaits
        <5> QED
          BY <5>1 DEF KeyHeld, Starting
      <4> QED
        BY <4>1, <4>2
    <3> QED
      BY <2>2, <2>3, <3>1 DEF Early
  <2>4. ASSUME NEW v \in Workers, pc'[v] \in Starting, row'[ctx'[v].job].state \in Early
        PROVE  pendingKey'[ctx'[v].job]
    <3>1. CASE v # w
      <4>1. pc[v] \in Starting /\ ctx'[v] = ctx[v] /\ ctx[v].job \in Jobs
        BY <2>1, <2>4, <3>1, ThreadJob DEF Flow, Starting
      <4> QED
        BY <2>1, <2>2, <2>4, <4>1 DEF KeyHeld, Onward
    <3>2. CASE v = w /\ pc[w] \in Starting
      BY <2>1, <2>2, <2>4, <3>2 DEF Flow, KeyHeld, Onward, Starting
    <3>3. CASE v = w /\ pc[w] \notin Starting
      BY <2>1, <2>4, <3>3 DEF Flow, Starting
    <3> QED
      BY <3>1, <3>2, <3>3
  <2>5. ASSUME NEW v \in Workers, pc'[v] \in Asking PROVE pendingKey'[ctx'[v].job]
    <3>1. CASE v # w
      <4>1. pc[v] \in Asking /\ ctx'[v] = ctx[v] /\ ctx[v].job \in Jobs
        BY <2>1, <2>5, <3>1, ThreadJob DEF Flow, Asking
      <4>2. pc[w] = "drop_key" => ctx[v].job # j
        BY <3>1, <4>1 DEF Exclusive, Asking, Completing
      <4> QED
        BY <1>1, <4>1, <4>2, StepKeys DEF KeyHeld, TypeOK
    <3>2. CASE v = w
      <4>1. ctx'[w].job = j /\ pendingKey[j] /\ pc[w] # "drop_key"
        BY <2>1, <2>5, <3>2 DEF Flow, KeyHeld, Asking, Completing
      <4> QED
        BY <1>1, <2>1, <3>2, <4>1, StepKeys DEF TypeOK
    <3> QED
      BY <3>1, <3>2
  <2> QED
    BY <2>3, <2>4, <2>5 DEF KeyHeld
<1>2. ASSUME NEW w \in Workers, Request(w) PROVE KeyHeld'
  <2>1. Entry(w)
    BY <1>2, RequestEntry
  <2> QED
    BY <2>1 DEF Entry, KeyHeld, Starting, Asking, Completing
<1>3. CASE System
  <2>1. Onward /\ pendingKey' = pendingKey
    BY <1>3, SystemOnward, SystemBooks
  <2>2. \A k \in Jobs : row'[k].state = "awaiting_dns" => row[k].state = "awaiting_dns"
    BY <1>3, SystemRows
  <2>3. CASE UNCHANGED <<pc, ctx>>
    <3>1. \A v \in Workers : pc[v] \in Starting \cup Asking => ctx[v].job \in Jobs
      BY ThreadJob DEF Starting, Asking
    <3> QED
      BY <2>1, <2>2, <2>3, <3>1 DEF KeyHeld, Onward
  <2>4. CASE pc' = [w \in Workers |-> "idle"]
    BY <2>1, <2>2, <2>4 DEF KeyHeld, Starting, Asking
  <2> QED
    BY <1>3, <2>3, <2>4, SystemThreads
<1>4. CASE UNCHANGED vars
  BY <1>4 DEF vars, artifacts, KeyHeld
<1> QED
  BY <1>1, <1>2, <1>3, <1>4 DEF Next, System

\* The key of an issued certificate is never lost, by any step.
LEMMA IssuedKeyNotLostNext ==
  ASSUME TypeOK, Exclusive, OwnOrders, IssuedOnce, KeyHeld, IssuedKeyNotLost, [Next]_vars
  PROVE  IssuedKeyNotLost'
<1>0. \A k \in Jobs : \A o \in Valid(k) : pendingKey[k] \/ o \in certs
  BY DEF IssuedKeyNotLost, Valid
<1>1. SUFFICES \A k \in Jobs : \A o \in ValidNext(k) : pendingKey'[k] \/ o \in certs'
  BY DEF IssuedKeyNotLost, ValidNext
<1>2. ASSUME NEW w \in Workers, Finalize(w), NEW k \in Jobs, NEW o \in ValidNext(k)
      PROVE  pendingKey'[k] \/ o \in certs'
  <2>1. pendingKey[ctx[w].job] /\ UNCHANGED <<pendingKey, certs>>
    BY <1>2 DEF Finalize, KeyHeld, Asking, artifacts
  <2> QED
    BY <1>0, <1>2, <2>1, FinalizeValid
<1>3. ASSUME NEW w \in Workers, Step(w), ~Finalize(w), NEW k \in Jobs, NEW o \in ValidNext(k)
      PROVE  pendingKey'[k] \/ o \in certs'
  <2>1. o \in Valid(k) /\ certs \subseteq certs'
    BY <1>3, SameValid, StepGrows DEF Grows
  <2>2. CASE pc[w] = "drop_key" /\ k = ctx[w].job
    BY <2>1, <2>2 DEF IssuedOnce, Holding
  <2> QED
    BY <1>0, <1>3, <2>1, <2>2, StepKeys
<1>4. CASE System
  BY <1>0, <1>4, SameValid, SystemBooks
<1>5. ASSUME NEW w \in Workers, Request(w)
      PROVE  \A k \in Jobs : \A o \in ValidNext(k) : pendingKey'[k] \/ o \in certs'
  BY <1>0, <1>5, RequestEntry DEF Entry, Valid, ValidNext
<1>6. CASE UNCHANGED vars
  BY <1>0, <1>6 DEF vars, artifacts, world, Valid, ValidNext
<1> QED
  BY <1>2, <1>3, <1>4, <1>5, <1>6 DEF Next, System

\* The certificate column changes in the transition out of issuing only.
LEMMA CertificateNext ==
  ASSUME TypeOK, OwnOrders, IssuedOnce, CertificateLast, RowCertificateStored, [Next]_vars
  PROVE  CertificateLast' /\ RowCertificateStored'
<1>0. row \in [Jobs -> Row]
  BY DEF TypeOK
<1>1. ASSUME NEW w \in Workers, Step(w) PROVE CertificateLast' /\ RowCertificateStored'
  <2> DEFINE j == ctx[w].job
  <2>1. RowEffect(w) /\ Grows /\ j \in Jobs
    BY <1>1, StepRow, StepFlow, StepGrows, ThreadJob DEF Flow
  <2>2. CASE row' = row
    BY <2>1, <2>2 DEF CertificateLast, RowCertificateStored, Grows
  <2>3. CASE Update(j, w)
    <3>1. PICK s \in States, c \in Orders \cup {NoOrder} :
            /\ ValidTransition(row[j].state, s)
            /\ SetRow(j, s, c)
            /\ \/ c = row[j].cert
               \/ pc[w] = "finish" /\ c = ctx[w].ord /\ row[j].state = "issuing"
      BY <2>3 DEF Update
    <3>2. /\ row'[j].state = s /\ row'[j].cert = c
          /\ \A k \in Jobs \ {j} : row'[k] = row[k]
      BY <1>0, <2>1, <3>1, RowAfter
    <3>3. s \in Open => row[j].state \in Open \ {"issuing"}
      BY <3>1, Edges DEF Early, Open
    <3>4. c # NoOrder => c \in certs \cap placed[j]
      BY <2>1, <3>1 DEF RowCertificateStored, IssuedOnce, OwnOrders, Holding
    <3> QED
      BY <2>1, <3>1, <3>2, <3>3, <3>4 DEF CertificateLast, RowCertificateStored, Grows, Open
  <2>4. CASE row' = [row EXCEPT ![j] = Missing("deleted")]
    BY <1>0, <2>1, <2>4 DEF Missing, CertificateLast, RowCertificateStored, Grows, Row
  <2> QED
    BY <2>1, <2>2, <2>3, <2>4 DEF RowEffect
<1>2. CASE System
  <2>1. /\ Onward /\ UNCHANGED <<certs, placed>>
        /\ \A k \in Jobs : row'[k].cert \in {row[k].cert, NoOrder}
    BY <1>2, SystemOnward, SystemBooks, SystemRows
  <2>2. RowCertificateStored'
    BY <2>1 DEF RowCertificateStored
  <2>3. CertificateLast'
    BY <1>2, <2>1, SystemRows DEF CertificateLast, Open
  <2> QED
    BY <2>2, <2>3
<1>3. ASSUME NEW w \in Workers, Request(w) PROVE CertificateLast' /\ RowCertificateStored'
  BY <1>3, RequestEntry DEF Entry, CertificateLast, RowCertificateStored
<1>4. CASE UNCHANGED vars
  BY <1>4 DEF vars, artifacts, world, CertificateLast, RowCertificateStored
<1> QED
  BY <1>1, <1>2, <1>3, <1>4 DEF Next, System

\* A row that is not there stays blank.
LEMMA BlankRowsNext ==
  ASSUME TypeOK, BlankRows, [Next]_vars PROVE BlankRows'
<1>0. row \in [Jobs -> Row]
  BY DEF TypeOK
<1>1. ASSUME NEW j \in Jobs, NEW s \in States, NEW c, SetRow(j, s, c) PROVE BlankRows'
  <2>1. s \notin NoRow
    BY DEF States, NoRow
  <2> QED
    BY <1>0, <1>1, <2>1, RowAfter DEF BlankRows, Missing
<1>2. ASSUME NEW j \in Jobs, NEW s, row' = [row EXCEPT ![j] = Missing(s)] PROVE BlankRows'
  BY <1>0, <1>2 DEF BlankRows, Missing
<1>3. CASE row' = row
  BY <1>3 DEF BlankRows
<1>4. ASSUME NEW w \in Workers, Step(w) PROVE BlankRows'
  <2>1. RowEffect(w) /\ ctx[w].job \in Jobs
    BY <1>4, StepRow, StepFlow, ThreadJob DEF Flow
  <2> QED
    BY <1>1, <1>2, <1>3, <2>1 DEF RowEffect, Update
<1>5. ASSUME NEW w \in Workers, Request(w) PROVE BlankRows'
  BY <1>3, <1>5, RequestEntry DEF Entry
<1>6. ASSUME NEW j \in Jobs, CreateJob(j) PROVE BlankRows'
  BY <1>2, <1>6 DEF CreateJob
<1>7. ASSUME NEW j \in Jobs, RecoverJob(j) PROVE BlankRows'
  BY <1>1, <1>3, <1>7, Edges DEF RecoverJob
<1> QED
  BY <1>3, <1>4, <1>5, <1>6, <1>7 DEF Next, Crash, Recovery, Outside, RecoveryRaises,
     Serve, ServerValidates, UserPublishes, vars

\* The proof is written by ProveStaging only, and stays; an order is placed by
\* CreateOrder only.
LEMMA StepProof ==
  ASSUME NEW w \in Workers, Step(w)
  PROVE  /\ proof' # proof => pc[w] = "prove" /\ proof'
         /\ placed' # placed =>
              /\ pc[w] \in Starting
              /\ \E o \in Orders : placed' = [placed EXCEPT ![ctx[w].job] = @ \cup {o}]
<1> USE DEF settings, world
<1>1. CASE ProveStaging(w)
  BY <1>1 DEF ProveStaging
<1>2. CASE CreateOrder(w)
  BY <1>2 DEF CreateOrder, Starting
<1>3. CASE UNCHANGED <<proof, placed>>
  BY <1>3
<1> QED
  BY <1>1, <1>2, <1>3, StepBooks DEF EnsurePendingKey, AnswerChallenges, PollReady,
     Finalize, StoreCertificate, DropPendingKey, DropKeyRaises

\* No step gets a production job past the gate without the staging proof.
LEMMA GatePassedNext ==
  ASSUME TypeOK, OwnOrders, IssuedOnce, GatePassed, [Next]_vars
  PROVE  GatePassed'
<1>1. ASSUME NEW w \in Workers, Step(w) PROVE GatePassed'
  <2> DEFINE j == ctx[w].job
  <2>1. Flow(w) /\ Grows /\ RowEffect(w) /\ j \in Jobs
    BY <1>1, StepFlow, StepGrows, StepRow, ThreadJob DEF Flow
  <2>2. proof => proof'
    BY <1>1, StepProof
  <2>3. ASSUME proof' PROVE \E k \in StagingJobs : placed'[k] \cap certs' # {}
    <3>1. CASE proof
      BY <2>1, <3>1, JobAssumption DEF GatePassed, Grows
    <3>2. CASE ~proof
      <4>1. pc[w] = "prove" /\ j \in StagingJobs
        BY <1>1, <2>3, <3>2, StepProof DEF GatePassed
      <4>2. ctx[w].ord \in placed[j] \cap certs
        BY <4>1 DEF OwnOrders, IssuedOnce, Holding
      <4> QED
        BY <2>1, <4>1, <4>2 DEF Grows
    <3> QED
      BY <3>1, <3>2
  <2>4. ASSUME NEW v \in Workers, pc'[v] = "prove" PROVE ctx'[v].job \in StagingJobs
    BY <2>1, <2>4 DEF Flow, GatePassed
  <2>5. ASSUME NEW v \in Workers, pc'[v] \in {"ensure_key"} \cup Starting
        PROVE  ctx'[v].job \in StagingJobs \/ proof'
    <3>1. CASE v = w
      <4>1. ctx'[w].job = j /\ pc[w] \in {"ensure_key"} \cup Starting
        BY <2>1, <2>5, <3>1 DEF Flow, Starting
      <4> QED
        BY <2>2, <3>1, <4>1 DEF GatePassed
    <3>2. CASE v # w
      BY <2>1, <2>2, <2>5, <3>2 DEF Flow, GatePassed
    <3> QED
      BY <3>1, <3>2
  <2>6. ASSUME NEW k \in Jobs \ StagingJobs,
               placed'[k] # {} \/ row'[k].state = "awaiting_dns", ~proof
        PROVE  FALSE
    <3>1. placed[k] = {} /\ row[k].state # "awaiting_dns"
      BY <2>6 DEF GatePassed
    <3>2. k = j /\ pc[w] \in Starting
      <4>1. CASE placed'[k] # {}
        BY <1>1, <3>1, <4>1, StepProof DEF TypeOK
      <4>2. CASE row'[k].state = "awaiting_dns"
        BY <2>1, <3>1, <4>2, StepAwaits DEF Starting
      <4> QED
        BY <2>6, <4>1, <4>2
    <3> QED
      BY <2>6, <3>2 DEF GatePassed
  <2> QED
    BY <2>2, <2>3, <2>4, <2>5, <2>6 DEF GatePassed
<1>2. ASSUME NEW w \in Workers, Request(w) PROVE GatePassed'
  <2>1. Entry(w)
    BY <1>2, RequestEntry
  <2> QED
    BY <2>1 DEF Entry, StagingGate, GatePassed, Starting, Completing
<1>3. CASE System
  <2>1. /\ UNCHANGED <<certs, placed, proof>>
        /\ \A k \in Jobs : row'[k].state = "awaiting_dns" => row[k].state = "awaiting_dns"
    BY <1>3, SystemBooks, SystemRows
  <2> QED
    BY <1>3, <2>1, SystemThreads DEF GatePassed, Starting
<1>4. CASE UNCHANGED vars
  BY <1>4 DEF vars, settings, artifacts, world, GatePassed
<1> QED
  BY <1>1, <1>2, <1>3, <1>4 DEF Next, System

(***************************************************************************)
(* The theorems                                                            *)
(***************************************************************************)

\* The invariant holds initially.
LEMMA InvariantInit == Init => Invariant
<1> SUFFICES ASSUME Init PROVE Invariant
  OBVIOUS
<1> USE DEF Init, Missing, NoContext
<1>1. TypeOK
  BY TypeInit
<1>2. Exclusive /\ OwnOrders
  BY DEF Exclusive, OwnOrders, Completing, Holding
<1>3. IssuedOnce /\ KeyHeld
  BY DEF IssuedOnce, KeyHeld, Valid, Asking, Holding, Starting
<1>4. IssuedKeyNotLost /\ CertificateLast /\ RowCertificateStored
  BY DEF IssuedKeyNotLost, CertificateLast, RowCertificateStored
<1>5. BlankRows /\ GatePassed
  BY DEF BlankRows, GatePassed, Starting
<1> QED
  BY <1>1, <1>2, <1>3, <1>4, <1>5 DEF Invariant

\* The invariant is inductive.
LEMMA InvariantNext == Invariant /\ [Next]_vars => Invariant'
<1> SUFFICES ASSUME Invariant, [Next]_vars PROVE Invariant'
  OBVIOUS
<1>1. TypeOK'
  BY TypeNext DEF Invariant
<1>2. Exclusive' /\ OwnOrders'
  BY <1>1, ExclusiveNext, OwnOrdersNext DEF Invariant
<1>3. IssuedOnce' /\ KeyHeld' /\ IssuedKeyNotLost'
  BY <1>1, <1>2, IssuedOnceNext, KeyHeldNext, IssuedKeyNotLostNext DEF Invariant
<1>4. CertificateLast' /\ RowCertificateStored' /\ BlankRows' /\ GatePassed'
  BY CertificateNext, BlankRowsNext, GatePassedNext DEF Invariant
<1> QED
  BY <1>1, <1>2, <1>3, <1>4 DEF Invariant

\* What an ACME renewal rests on holds in every reachable state: one thread
\* completes a job, orders stay with their job, one certificate is issued, its
\* key is kept, and production waits for staging.
THEOREM InvariantHolds == Spec => []Invariant
BY InvariantInit, InvariantNext, PTL DEF Spec

\* However requests, crashes and restarts interleave, at most one certificate is
\* stored for a job: one thread passes the transition to validating in the life
\* of the job, and only that thread finalizes and stores.
THEOREM OneCertificate == Spec => []OneCertificatePerJob
<1>1. Invariant => OneCertificatePerJob
  BY DEF Invariant, TypeOK, IssuedOnce, Valid, OneCertificatePerJob
<1> QED
  BY <1>1, InvariantHolds, PTL

\* The private key of every certificate the ACME server issued is still there,
\* in the pending key set or in the stored certificate.
THEOREM KeyNotLost == Spec => []IssuedKeyNotLost
<1>1. Invariant => IssuedKeyNotLost
  BY DEF Invariant
<1> QED
  BY <1>1, InvariantHolds, PTL

\* The certificate a job's row names is stored, and was ordered for this job.
THEOREM CertificateStored == Spec => []RowCertificateStored
<1>1. Invariant => RowCertificateStored
  BY DEF Invariant
<1> QED
  BY <1>1, InvariantHolds, PTL

\* No production order is placed before a staging job stored its certificate.
THEOREM StagingFirst == Spec => []ProductionAfterStaging
<1>1. Invariant => ProductionAfterStaging
  BY DEF Invariant, GatePassed, ProductionAfterStaging
<1> QED
  BY <1>1, InvariantHolds, PTL

\* The instance of JobTable has the states and the edges of the workflow.
LEMMA TableStates ==
  /\ Table!States = States
  /\ Table!AllowedTransitions = AllowedTransitions
  /\ Table!Deletable = Deletable
BY DEF States, AllowedTransitions, Deletable, Table!States, Table!AllowedTransitions,
   Table!Deletable

\* The workflow implements the table of jobs: every step is a move JobTable
\* allows, or leaves the rows alone.
THEOREM TableImplemented == Spec => ImplementsTable
<1>1. Init => Table!Init
  BY DEF Init, Table!Init, Missing, Table!Missing
<1>2. ASSUME Invariant, [Next]_vars PROVE [Table!Next]_row
  <2> DEFINE Certs == Orders \cup {NoOrder}
  <2>0. TypeOK /\ row \in [Jobs -> Row]
    BY <1>2 DEF Invariant, TypeOK
  <2>1. ASSUME NEW j \in Jobs, NEW s \in States, NEW c \in Certs,
               ValidTransition(row[j].state, s), SetRow(j, s, c), row[j].cert \in {NoOrder, c}
        PROVE  Table!Next
    <3>1. Table!Move(j, s, c)
      BY <2>1, TableStates DEF SetRow, Table!Move, ValidTransition, Table!ValidTransition
    <3> QED
      BY <2>1, <3>1, TableStates DEF Table!Next
  <2>2. ASSUME NEW w \in Workers, Step(w) PROVE [Table!Next]_row
    <3> DEFINE j == ctx[w].job
    <3>1. RowEffect(w) /\ j \in Jobs
      BY <2>0, <2>2, StepRow, StepFlow, ThreadJob DEF Flow
    <3>2. CASE Update(j, w)
      <4>1. PICK s \in States, c \in Certs :
              /\ ValidTransition(row[j].state, s)
              /\ SetRow(j, s, c)
              /\ c = row[j].cert \/ row[j].state = "issuing"
        BY <3>2 DEF Update
      <4>2. row[j].cert \in {NoOrder, c}
        BY <1>2, <3>1, <4>1 DEF Invariant, CertificateLast
      <4> QED
        BY <2>1, <3>1, <4>1, <4>2
    <3>3. CASE pc[w] = "delete" /\ row' = [row EXCEPT ![j] = Missing("deleted")]
      <4>1. row[j].state \in Deletable \cup {"deleted"}
        BY <1>2, <3>3 DEF Invariant, Exclusive
      <4>2. CASE row[j].state \in Deletable
        <5>1. Table!Remove(j)
          BY <3>3, <4>2, TableStates DEF Missing, Table!Remove, Table!Missing
        <5> QED
          BY <3>1, <5>1 DEF Table!Next
      <4>3. CASE row[j].state = "deleted"
        BY <1>2, <2>0, <3>1, <3>3, <4>3 DEF Invariant, BlankRows, NoRow
      <4> QED
        BY <4>1, <4>2, <4>3
    <3> QED
      BY <3>1, <3>2, <3>3 DEF RowEffect
  <2>3. ASSUME NEW w \in Workers, Request(w) PROVE row' = row
    BY <2>0, <2>3, RequestEntry DEF Entry
  <2>4. ASSUME NEW j \in Jobs, CreateJob(j) PROVE Table!Next
    <3>1. Table!Insert(j)
      BY <2>4 DEF CreateJob, Missing, Table!Insert, Table!Missing
    <3> QED
      BY <3>1 DEF Table!Next
  <2>5. ASSUME NEW j \in Jobs, RecoverJob(j), row' # row PROVE Table!Next
    <3>1. PICK s : ValidTransition(row[j].state, s) /\ SetRow(j, s, row[j].cert)
      BY <2>5 DEF RecoverJob
    <3> QED
      BY <2>0, <2>1, <2>5, <3>1, Edges DEF Row
  <2>6. CASE UNCHANGED row
    BY <2>6
  <2> QED
    BY <1>2, <2>2, <2>3, <2>4, <2>5, <2>6 DEF Next, Crash, Recovery, Outside, RecoveryRaises,
       Serve, ServerValidates, UserPublishes, vars
<1> QED
  BY <1>1, <1>2, InvariantHolds, PTL DEF Spec, ImplementsTable, Table!Spec

\* What becomes of a row that was once x: it is still x, or has a later version and the
\* certificate x had, or it is deleted.
Follows(j, x) ==
  \/ row[j].state = "deleted"
  \/ /\ row[j].state \in States
     /\ row[j] = x \/ row[j].version > x.version
     /\ x.cert # NoOrder => row[j].cert = x.cert

\* JobTable keeps to that.
LEMMA TableFollows ==
  ASSUME row \in [Jobs -> Row], [Table!Next]_row, NEW j \in Jobs, NEW x \in Row, Follows(j, x)
  PROVE  Follows(j, x)'
<1>1. row[j] \in Row /\ row[j].version \in Nat /\ x.version \in Nat
  BY DEF Row
<1>2. "absent" \notin States /\ "deleted" \notin States
  BY DEF States
<1>3. CASE row'[j] = row[j]
  BY <1>3 DEF Follows
<1>4. ASSUME NEW i \in Jobs, Table!Insert(i) PROVE row'[j] = row[j]
  BY <1>2, <1>4 DEF Table!Insert, Follows
<1>5. ASSUME NEW i \in Jobs, NEW s \in States, NEW c, Table!Move(i, s, c) PROVE Follows(j, x)'
  <2>1. CASE i # j
    <3>1. row'[j] = row[j]
      BY <1>5, <2>1 DEF Table!Move
    <3> QED
      BY <1>3, <3>1
  <2>2. CASE i = j
    <3>1. row'[j] = [state |-> s, version |-> row[j].version + 1, cert |-> c]
      BY <1>5, <2>2 DEF Table!Move
    <3>2. row[j].cert \in {NoOrder, c} /\ row[j].state # "deleted"
      BY <1>2, <1>5, <2>2, TableStates DEF Table!Move, Table!ValidTransition
    <3>3. row'[j].state = s /\ row'[j].version = row[j].version + 1 /\ row'[j].cert = c
      BY <3>1
    <3> QED
      BY <1>1, <3>2, <3>3 DEF Follows
  <2> QED
    BY <2>1, <2>2
<1>6. ASSUME NEW i \in Jobs, Table!Touch(i) PROVE Follows(j, x)'
  <2>1. CASE i # j
    <3>1. row'[j] = row[j]
      BY <1>6, <2>1 DEF Table!Touch
    <3> QED
      BY <1>3, <3>1
  <2>2. CASE i = j
    <3>1. row'[j] = [row[j] EXCEPT !.version = @ + 1] /\ row[j].state = "deployment_pending"
      BY <1>6, <2>2 DEF Table!Touch
    <3>2. /\ row'[j].state = row[j].state /\ row'[j].version = row[j].version + 1
          /\ row'[j].cert = row[j].cert
      BY ONLY <1>1, <3>1 DEF Row
    <3> QED
      BY <1>1, <3>1, <3>2 DEF Follows
  <2> QED
    BY <2>1, <2>2
<1>7. ASSUME NEW i \in Jobs, Table!Remove(i) PROVE row'[j] = row[j] \/ row'[j].state = "deleted"
  BY <1>7 DEF Table!Remove, Table!Missing
<1> QED
  BY <1>3, <1>4, <1>5, <1>6, <1>7, TableStates DEF Table!Next, Follows

\* A version names one state of a job for good: once a thread has read a row, the row is the one it
\* read whenever its version is, so that Database.transition_job, which compares state and version,
\* never mistakes a later row for it; and a certificate, once attached, is never exchanged.
THEOREM VersionsNeverRecur ==
  ASSUME NEW j \in Jobs, NEW x \in Row, x.state \in States
  PROVE  Spec => [](row[j] = x => []Follows(j, x))
<1>1. row[j] = x => Follows(j, x)
  BY DEF Follows
<1>2. row \in [Jobs -> Row] /\ Follows(j, x) /\ [Table!Next]_row => Follows(j, x)'
  BY TableFollows
<1>3. TypeOK => row \in [Jobs -> Row]
  BY DEF TypeOK
<1>4. Spec => [][Table!Next]_row
  BY TableImplemented, PTL DEF ImplementsTable, Table!Spec
<1> QED
  BY <1>1, <1>2, <1>3, <1>4, TypeCorrect, PTL

=============================================================================

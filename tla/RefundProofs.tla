---------------------------- MODULE RefundProofs ----------------------------
(***************************************************************************)
(* Theorems about Refunds, for any sets of refunds and workers, any        *)
(* amounts and numbers of retries, failures, overlapping requests and      *)
(* locks that expire under their holder.                                   *)
(*                                                                         *)
(* The lock is good for OneAtATime (LockInv), and with it for the status   *)
(* of the payment: between the sum and the save it keeps the other refunds *)
(* out (PartlyInv), as long as it has not expired.  What keeps a refund    *)
(* from being settled twice is not the lock but that its task exists once: *)
(* the call that requests it, a message or a worker has it, and passes it  *)
(* on (TaskInv).  Without reconcile_refunds_task nothing makes a second    *)
(* one, and the theorems that rest on TaskInv say so.                      *)
(*                                                                         *)
(* What is refunded in total is a sum over the refunds; SumProofs says how *)
(* a step changes it.  TotalInv: one call of create_refund at a time, so   *)
(* the total that it has read is still the total when it inserts.  With    *)
(* duplicates even that would not do: a stale one may set a FAILED refund, *)
(* whose room has been given away, back to PROCESSING.  OneWorkerInv: a    *)
(* single worker never finds its lock taken by another that is alive.      *)
(***************************************************************************)
EXTENDS Refunds, SumProofs

\* A worker at work on refunds of the payment has the key of the lock.
LockInv == slow = 0 => \A w \in Workers : Inside(w) => lock = w

\* Worker w has the task of refund r: it has yet to settle it, fail it or
\* send the next retry.
Has(w, r) == job[w] # NoJob /\ R(w) = r /\ pc[w] # "finally"

\* There is one task of a refund at most.
OneTask ==
    \A r \in Refunds :
        /\ \A k \in 0 .. MaxRetries : queue[r][k] <= 1
        /\ \A k, l \in 0 .. MaxRetries : queue[r][k] > 0 /\ queue[r][l] > 0 => k = l
        /\ \A v, w \in Workers : Has(v, r) /\ Has(w, r) => v = w
        /\ \A k \in 0 .. MaxRetries, w \in Workers : ~(queue[r][k] > 0 /\ Has(w, r))
        /\ creator[r] # "done" => /\ \A k \in 0 .. MaxRetries : queue[r][k] = 0
                                  /\ \A w \in Workers : ~Has(w, r)

\* The steps at which a worker's refund is neither SUCCESS nor FAILED.
AtWork == {"lock", "mark", "call", "settle", "decline"} \cup Summed

\* What the holder of a task, and the call that will make it, rely on.
PhaseOK ==
    /\ \A w \in Workers :
          /\ pc[w] \in AtWork => refund[R(w)] \notin Terminal
          /\ pc[w] \in {"settle"} \cup Summed => sent[R(w)]
          /\ pc[w] = "raised" => refund[R(w)] # "SUCCESS" /\ dlq[R(w)] = 0
          /\ pc[w] = "dlq" => refund[R(w)] = "FAILED" /\ dlq[R(w)] = 0
    /\ \A r \in Refunds :
          creator[r] \in {"idle", "begin", "amount", "insert"} => refund[r] = "NONE"

TaskInv == OneTask /\ PhaseOK /\ SettledOnce /\ DeadLetterIsFailed

\* A refund has a task only after the call that requests it has inserted it
\* and sent the task, even if reconcile_refunds_task sends more of them.
TaskAfterRequest ==
    \A r \in Refunds :
        /\ creator[r] \in {"idle", "begin", "amount", "insert"} => refund[r] = "NONE"
        /\ creator[r] = "dispatch" => refund[r] = "CREATED"
        /\ creator[r] # "done" => /\ \A k \in 0 .. MaxRetries : queue[r][k] = 0
                                  /\ \A w \in Workers : ~Has(w, r)
        /\ refund[r] = "NONE" => /\ \A k \in 0 .. MaxRetries : queue[r][k] = 0
                                 /\ \A w \in Workers : ~Has(w, r)

\* What keeps the total of the refunds below the payment: one call at a time
\* is under way, and what it has checked still holds when it inserts.
UnderWay(r) == creator[r] \notin {"idle", "done"}

TotalInv ==
    /\ \A q, r \in Refunds : UnderWay(q) /\ UnderWay(r) => q = r
    /\ \A r \in Refunds : creator[r] = "insert" => Fits(r)
    /\ NeverOverRefunded

\* A refund that nobody has settled or failed has a task, if nothing has failed
\* outside the try statement and one worker does everything: it never finds the
\* lock taken.
OneWorkerInv ==
    /\ lock # NoWorker /\ failures = 0 => Inside(lock)
    /\ \A w \in Workers : pc[w] = "dlq" => refund[R(w)] = "FAILED"
    /\ \A r \in Refunds :
          failures = 0 /\ creator[r] = "done" /\ refund[r] \in {"CREATED", "PROCESSING"} =>
              \/ \E k \in 0 .. MaxRetries : queue[r][k] > 0
              \/ \E w \in Workers : Has(w, r)

-----------------------------------------------------------------------------
(* Types and the lock.                                                      *)

\* A worker that is not idle works at a refund.
LEMMA WorksAtRefund ==
    ASSUME TypeOK, NEW w \in Workers, pc[w] # "idle"
    PROVE  job[w] \in Job /\ R(w) \in Refunds /\ job[w].retries \in 0 .. MaxRetries
BY DEF TypeOK, Job, R

\* The message of a retry has a type.
LEMMA RetryTypes ==
    ASSUME TypeOK, NEW j \in Job, SendRetry(j)
    PROVE  queue' \in [Refunds -> [0 .. MaxRetries -> Nat]]
<1>1. j.refund \in Refunds /\ j.retries \in 0 .. MaxRetries /\ MaxRetries \in Nat
  BY RefundsAssumption DEF Job
<1>2. queue \in [Refunds -> [0 .. MaxRetries -> Nat]]
  BY DEF TypeOK
<1>3. CASE j.retries < MaxRetries
  <2>1. j.retries + 1 \in 0 .. MaxRetries
    BY <1>1, <1>3
  <2>2. queue[j.refund][j.retries + 1] + 1 \in Nat
    BY <1>1, <1>2, <2>1
  <2>3. queue' = [queue EXCEPT ![j.refund][j.retries + 1] = @ + 1]
    BY <1>3 DEF SendRetry
  <2>4. QED
    BY <1>1, <1>2, <2>1, <2>2, <2>3
<1>4. CASE ~(j.retries < MaxRetries)
  BY <1>2, <1>4 DEF SendRetry
<1>5. QED
  BY <1>3, <1>4

\* The initial state satisfies the types and the discipline of the lock.
LEMMA InitLock == Init => TypeOK /\ LockInv
<1> SUFFICES ASSUME Init PROVE TypeOK /\ LockInv
  OBVIOUS
<1>1. failures \in 0 .. MaxFailures /\ slow \in 0 .. MaxSlow
  BY RefundsAssumption DEF Init
<1>2. queue \in [Refunds -> [0 .. MaxRetries -> Nat]]
  BY DEF Init
<1>3. TypeOK
  BY <1>1, <1>2 DEF Init, TypeOK
<1>4. QED
  BY <1>3 DEF Init, LockInv, Inside, Summed

\* Every step of create_refund keeps the types.
LEMMA CreateStepTypes ==
    ASSUME TypeOK, NEW r \in Refunds, CreateStep(r) \/ DispatchFails(r) \/ Reconcile(r)
    PROVE  TypeOK'
<1>1. CASE Call(r) \/ ReadPayment(r) \/ CheckAmount(r) \/ RefuseRefund(r)
  BY <1>1 DEF Call, ReadPayment, CheckAmount, RefuseRefund, CreatorAt, worker, TypeOK
<1>2. CASE InsertRefund(r)
  BY <1>2 DEF InsertRefund, CreatorAt, worker, TypeOK
<1>3. CASE Dispatch(r) \/ Reconcile(r)
  <2>1. queue' = [queue EXCEPT ![r][0] = @ + 1]
    BY <1>3 DEF Dispatch, Reconcile
  <2>2. 0 \in 0 .. MaxRetries
    BY RefundsAssumption
  <2>3. queue \in [Refunds -> [0 .. MaxRetries -> Nat]]
    BY DEF TypeOK
  <2>4. queue[r] \in [0 .. MaxRetries -> Nat] /\ queue[r][0] \in Nat
    BY <2>2, <2>3, Zenon
  <2>5. queue' \in [Refunds -> [0 .. MaxRetries -> Nat]]
    <3>1. [queue[r] EXCEPT ![0] = queue[r][0] + 1] \in [0 .. MaxRetries -> Nat]
      BY <2>2, <2>3, <2>4
    <3>2. QED
      BY <2>1, <2>3, <3>1
  <2>6. QED
    BY <1>3, <2>5
       DEF Dispatch, Reconcile, CreatorAt, created, worker, outcome, faults, TypeOK
<1>4. CASE DispatchFails(r)
  <2>1. failures' \in 0 .. MaxFailures
    BY <1>4, RefundsAssumption DEF DispatchFails, Fails, TypeOK
  <2>2. QED
    BY <1>4, <2>1 DEF DispatchFails, CreatorAt, worker, TypeOK
<1>5. QED
  BY <1>1, <1>2, <1>3, <1>4 DEF CreateStep

\* Every step of process_refund_task keeps them.
LEMMA TaskStepTypes ==
    ASSUME TypeOK, NEW w \in Workers, TaskStep(w)
    PROVE  TypeOK'
<1> USE DEF At, Goto
<1>0. /\ pc[w] # "idle" => /\ job[w] \in Job /\ R(w) \in Refunds
                           /\ job[w].retries \in 0 .. MaxRetries
      /\ NoJob \notin Job
  BY WorksAtRefund, RefundsAssumption DEF Job
<1>1. CASE Take(w)
  <2>1. PICK j \in Job :
           /\ queue[j.refund][j.retries] > 0
           /\ queue' = [queue EXCEPT ![j.refund][j.retries] = @ - 1]
           /\ \/ UNCHANGED <<job, pc>>
              \/ job' = [job EXCEPT ![w] = j] /\ pc' = [pc EXCEPT ![w] = "lock"]
    BY <1>1 DEF Take
  <2>2. /\ j.refund \in Refunds /\ j.retries \in 0 .. MaxRetries
        /\ queue \in [Refunds -> [0 .. MaxRetries -> Nat]]
    BY DEF Job, TypeOK
  <2>3. queue[j.refund] \in [0 .. MaxRetries -> Nat] /\ queue[j.refund][j.retries] \in Nat
    BY <2>2, Zenon
  <2>4. queue' \in [Refunds -> [0 .. MaxRetries -> Nat]]
    <3>1. [queue[j.refund] EXCEPT ![j.retries] = queue[j.refund][j.retries] - 1]
             \in [0 .. MaxRetries -> Nat]
      BY <2>1, <2>2, <2>3
    <3>2. QED
      BY <2>1, <2>2, <3>1
  <2>5. /\ job' \in [Workers -> Job \cup {NoJob}]
        /\ pc' \in [Workers -> {"idle", "lock", "mark", "call", "settle", "partly",
                                "fully", "decline", "raised", "dlq", "finally"}]
        /\ \A v \in Workers : job'[v] = NoJob <=> pc'[v] = "idle"
    <3>1. CASE UNCHANGED <<job, pc>>
      BY <3>1 DEF TypeOK
    <3>2. CASE job' = [job EXCEPT ![w] = j] /\ pc' = [pc EXCEPT ![w] = "lock"]
      BY <1>0, <3>2 DEF TypeOK
    <3>3. QED
      BY <2>1, <3>1, <3>2
  <2>6. QED
    BY <1>1, <2>4, <2>5 DEF Take, created, outcome, faults, TypeOK
<1>2. CASE AcquireLock(w) \/ GatewayDeclines(w) \/ SumRefunds(w)
  <2>1. \E x \in {"mark", "decline", "partly", "fully"} : pc' = [pc EXCEPT ![w] = x]
    BY <1>2 DEF AcquireLock, GatewayDeclines, SumRefunds
  <2>2. /\ pc[w] # "idle" /\ lock' \in Workers \cup {NoWorker}
        /\ UNCHANGED <<created, job, queue, outcome, faults>>
    BY <1>2 DEF AcquireLock, GatewayDeclines, SumRefunds, TypeOK
  <2>3. QED
    BY <2>1, <2>2 DEF created, outcome, faults, TypeOK
<1>3. CASE LockBusy(w)
  <2>1. queue' \in [Refunds -> [0 .. MaxRetries -> Nat]]
    BY <1>0, <1>3, RetryTypes DEF LockBusy
  <2>2. QED
    BY <1>3, <2>1 DEF LockBusy, Idle, created, outcome, faults, TypeOK
<1>4. CASE Retry(w)
  <2>1. queue' \in [Refunds -> [0 .. MaxRetries -> Nat]]
    BY <1>0, <1>4, RetryTypes DEF Retry
  <2>2. QED
    BY <1>4, <2>1 DEF Retry, created, outcome, faults, TypeOK
<1>5. CASE MarkProcessing(w) \/ Decline(w) \/ FailFinally(w)
  BY <1>5 DEF MarkProcessing, Decline, FailFinally, SetRefund, created, faults, TypeOK
<1>6. CASE GatewayRefunds(w)
  BY <1>6 DEF GatewayRefunds, created, faults, TypeOK
<1>7. CASE Settle(w)
  <2>1. credits' \in [Refunds -> Nat]
    BY <1>0, <1>7 DEF Settle, Summed, TypeOK
  <2>2. payment' \in {"CAPTURED", "PARTIALLY_REFUNDED", "FULLY_REFUNDED"}
    BY <1>7 DEF Settle
  <2>3. QED
    BY <1>7, <2>1, <2>2 DEF Settle, Summed, SetRefund, created, faults, TypeOK
<1>8. CASE Raises(w)
  <2>1. sent' \in [Refunds -> BOOLEAN]
    BY <1>8 DEF Raises, TypeOK
  <2>2. refund' \in [Refunds -> {"NONE", "CREATED", "PROCESSING", "SUCCESS", "FAILED"}]
    BY <1>8 DEF Raises, SetRefund, TypeOK
  <2>3. QED
    BY <1>8, <2>1, <2>2 DEF Raises, Tried, Summed, created, faults, TypeOK
<1>9. CASE RecordDLQ(w)
  <2>1. dlq' \in [Refunds -> Nat]
    BY <1>0, <1>9 DEF RecordDLQ, TypeOK
  <2>2. QED
    BY <1>9, <2>1 DEF RecordDLQ, created, faults, TypeOK
<1>10. CASE Unlock(w)
  BY <1>10 DEF Unlock, Idle, created, outcome, faults, TypeOK
<1>11. QED
  BY <1>1, <1>2, <1>3, <1>4, <1>5, <1>6, <1>7, <1>8, <1>9, <1>10 DEF TaskStep, WorkStep

\* So do the failures of a task and the expiry of the lock.
LEMMA FaultTypes ==
    ASSUME TypeOK, Expire \/ \E w \in Workers : TaskFails(w)
    PROVE  TypeOK'
<1>1. CASE Expire
  <2>1. slow' \in 0 .. MaxSlow
    BY <1>1, RefundsAssumption DEF Expire, TypeOK
  <2>2. QED
    BY <1>1, <2>1 DEF Expire, created, outcome, TypeOK
<1>2. ASSUME NEW w \in Workers, TaskFails(w) PROVE TypeOK'
  <2>1. failures' \in 0 .. MaxFailures
    BY <1>2, RefundsAssumption
       DEF TaskFails, RedisFails, HandlerFails, TaskDies, Fails, TypeOK
  <2>2. CASE RedisFails(w)
    <3>1. queue' \in [Refunds -> [0 .. MaxRetries -> Nat]]
      BY <2>2, WorksAtRefund, RetryTypes DEF RedisFails, At
    <3>2. lock' \in Workers \cup {NoWorker}
      BY <2>2 DEF RedisFails, TypeOK
    <3>3. QED
      BY <2>1, <2>2, <3>1, <3>2 DEF RedisFails, Idle, Goto, created, outcome, TypeOK
  <2>3. CASE HandlerFails(w)
    BY <2>1, <2>3 DEF HandlerFails, Goto, created, outcome, TypeOK
  <2>4. CASE TaskDies(w)
    BY <2>1, <2>4 DEF TaskDies, Idle, Goto, created, outcome, TypeOK
  <2>5. QED
    BY <1>2, <2>2, <2>3, <2>4 DEF TaskFails
<1>3. QED
  BY <1>1, <1>2

\* Every step keeps the discipline of the lock.
LEMMA StepLock ==
    ASSUME TypeOK, LockInv, [Next]_vars
    PROVE  LockInv'
<1> USE DEF LockInv, Inside, Summed
<1>1. ASSUME NEW r \in Refunds, CreateStep(r) \/ DispatchFails(r) \/ Reconcile(r)
      PROVE  LockInv'
  BY <1>1 DEF CreateStep, Call, ReadPayment, CheckAmount, RefuseRefund, InsertRefund, Dispatch,
              DispatchFails, Reconcile, CreatorAt, worker, faults
<1>2. ASSUME NEW w \in Workers, TaskStep(w)
      PROVE  LockInv'
  <2> USE DEF At, Goto, TypeOK, faults
  <2>1. CASE Take(w)
    BY <1>2, <2>1 DEF Take
  <2>2. CASE AcquireLock(w)
    BY <1>2, <2>2, RefundsAssumption DEF AcquireLock
  <2>3. CASE LockBusy(w)
    BY <1>2, <2>3 DEF LockBusy, Idle
  <2>4. CASE MarkProcessing(w) \/ GatewayRefunds(w) \/ GatewayDeclines(w) \/ SumRefunds(w)
             \/ Settle(w) \/ Decline(w) \/ Raises(w) \/ Retry(w) \/ FailFinally(w) \/ RecordDLQ(w)
    <3>1. Inside(w) /\ UNCHANGED <<lock, slow>>
      BY <2>4 DEF MarkProcessing, GatewayRefunds, GatewayDeclines, SumRefunds, Settle, Decline,
                  Raises, Tried, Retry, FailFinally, RecordDLQ
    <3>2. \A v \in Workers \ {w} : pc'[v] = pc[v]
      BY <2>4 DEF MarkProcessing, GatewayRefunds, GatewayDeclines, SumRefunds, Settle, Decline,
                  Raises, Retry, FailFinally, RecordDLQ
    <3>3. QED
      BY <3>1, <3>2
  <2>5. CASE Unlock(w)
    BY <1>2, <2>5 DEF Unlock, Idle
  <2>6. QED
    BY <1>2, <2>1, <2>2, <2>3, <2>4, <2>5 DEF TaskStep, WorkStep
<1>3. CASE Expire
  <2>1. CASE Inside(lock)
    <3>1. slow' = slow + 1 /\ slow \in Nat
      BY <1>3, <2>1, RefundsAssumption DEF Expire, TypeOK
    <3>2. QED
      BY <3>1
  <2>2. CASE ~Inside(lock)
    BY <1>3, <2>2 DEF Expire
  <2>3. QED
    BY <2>1, <2>2
<1>4. ASSUME NEW w \in Workers, TaskFails(w) PROVE LockInv'
  <2>1. CASE RedisFails(w)
    <3>1. /\ pc[w] = "lock" /\ pc' = [pc EXCEPT ![w] = "idle"] /\ UNCHANGED slow
          /\ lock = NoWorker \/ UNCHANGED lock
      BY <2>1 DEF RedisFails, At, Idle, Goto
    <3>2. QED
      BY <3>1, RefundsAssumption DEF TypeOK
  <2>2. CASE HandlerFails(w) \/ TaskDies(w)
    BY <2>2 DEF HandlerFails, TaskDies, Idle, Goto, TypeOK
  <2>3. QED
    BY <1>4, <2>1, <2>2 DEF TaskFails
<1>5. CASE UNCHANGED vars
  BY <1>5 DEF vars, worker, faults
<1>6. QED
  BY <1>1, <1>2, <1>3, <1>4, <1>5 DEF Next, Terminated

\* Every step keeps the types.
LEMMA StepTypes == ASSUME TypeOK, [Next]_vars PROVE TypeOK'
<1>1. CASE UNCHANGED vars
  BY <1>1 DEF TypeOK, vars, created, worker, outcome, faults
<1>2. QED
  BY <1>1, CreateStepTypes, TaskStepTypes, FaultTypes DEF Next, Terminated

\* The types and the discipline of the lock are an inductive invariant.
LEMMA InductiveLock == Spec => [](TypeOK /\ LockInv)
<1>1. TypeOK /\ LockInv /\ [Next]_vars => (TypeOK /\ LockInv)'
  BY StepTypes, StepLock
<1>2. QED
  BY InitLock, <1>1, PTL DEF Spec

\* Rows, messages, workers and the lock have their types.
THEOREM TypeCorrect == Spec => []TypeOK
BY InductiveLock, PTL

\* One worker at a time is between cache.add and cache.delete, as long as the
\* key has not expired under its holder.
THEOREM LockExcludes == Spec => []OneAtATime
<1>1. TypeOK /\ LockInv => OneAtATime
  BY DEF LockInv, OneAtATime
<1>2. QED
  BY <1>1, InductiveLock, PTL

-----------------------------------------------------------------------------
(* There is one task of a refund.                                           *)

\* The queue has x messages for r that are retry k from now on.
Put(r, k, x) == queue' = [queue EXCEPT ![r][k] = x]

\* What that does to every entry of the queue.
LEMMA QueueEffect ==
    ASSUME TypeOK, NEW r \in Refunds, NEW k \in 0 .. MaxRetries, NEW x,
           Put(r, k, x)
    PROVE  \A q \in Refunds, l \in 0 .. MaxRetries :
              /\ queue[q][l] \in Nat
              /\ queue'[q][l] = IF q = r /\ l = k THEN x ELSE queue[q][l]
<1>1. queue \in [Refunds -> [0 .. MaxRetries -> Nat]]
  BY DEF TypeOK
<1>2. \A q \in Refunds : queue[q] \in [0 .. MaxRetries -> Nat]
  BY <1>1
<1>3. \A q \in Refunds, l \in 0 .. MaxRetries : queue[q][l] \in Nat
  BY <1>2, Zenon
<1>4. queue'[r] = [queue[r] EXCEPT ![k] = x]
  BY <1>1 DEF Put
<1>5. \A q \in Refunds \ {r} : queue'[q] = queue[q]
  BY <1>1 DEF Put
<1>6. \A l \in 0 .. MaxRetries : queue'[r][l] = IF l = k THEN x ELSE queue[r][l]
  BY <1>2, <1>4
<1>7. QED
  BY <1>3, <1>5, <1>6

\* A step that hands no task to anybody makes none.
LEMMA NoNewTask ==
    ASSUME TypeOK, OneTask,
           \A r \in Refunds, k \in 0 .. MaxRetries : queue'[r][k] \in Nat /\ queue'[r][k] <= queue[r][k],
           \A r \in Refunds, w \in Workers : Has(w, r)' => Has(w, r),
           \A r \in Refunds : creator'[r] # "done" => creator[r] # "done"
    PROVE  OneTask'
<1>1. \A r \in Refunds, k \in 0 .. MaxRetries : queue[r][k] \in Nat
  <2>1. \A r \in Refunds : queue[r] \in [0 .. MaxRetries -> Nat]
    BY DEF TypeOK
  <2>2. QED
    BY <2>1, Zenon
<1>2. \A r \in Refunds, k \in 0 .. MaxRetries : queue'[r][k] > 0 => queue[r][k] > 0
  BY <1>1
<1>3. \A r \in Refunds, k \in 0 .. MaxRetries : queue'[r][k] <= 1
  BY <1>1 DEF OneTask
<1>4. \A r \in Refunds : creator'[r] # "done" =>
         /\ \A k \in 0 .. MaxRetries : queue'[r][k] = 0
         /\ \A w \in Workers : ~Has(w, r)'
  <2>1. \A r \in Refunds : creator'[r] # "done" =>
           \A k \in 0 .. MaxRetries : queue[r][k] = 0
    BY DEF OneTask
  <2>2. QED
    BY <1>1, <2>1 DEF OneTask
<1>5. QED
  BY <1>2, <1>3, <1>4 DEF OneTask

\* The call that created a refund makes its task.
LEMMA DispatchOneTask ==
    ASSUME TypeOK, OneTask, NEW r \in Refunds, Dispatch(r)
    PROVE  OneTask'
<1>0. 0 \in 0 .. MaxRetries
  BY RefundsAssumption
<1>1. /\ queue' = [queue EXCEPT ![r][0] = @ + 1]
      /\ creator[r] # "done" /\ creator' = [creator EXCEPT ![r] = "done"]
      /\ UNCHANGED <<job, pc>>
  BY DEF Dispatch, CreatorAt, worker
<1>2. \A q \in Refunds, l \in 0 .. MaxRetries :
         /\ queue[q][l] \in Nat
         /\ queue'[q][l] = IF q = r /\ l = 0 THEN queue[r][0] + 1 ELSE queue[q][l]
  <2>1. Put(r, 0, queue[r][0] + 1)
    BY <1>1 DEF Put
  <2>2. QED
    BY <1>0, <2>1, QueueEffect
<1>3. /\ \A k \in 0 .. MaxRetries : queue[r][k] = 0
      /\ \A w \in Workers : ~Has(w, r)
  BY <1>1 DEF OneTask
<1>4. \A k \in 0 .. MaxRetries : queue'[r][k] = IF k = 0 THEN 1 ELSE 0
  BY <1>0, <1>2, <1>3
<1>5. \A q \in Refunds \ {r}, k \in 0 .. MaxRetries : queue'[q][k] = queue[q][k]
  BY <1>2
<1>6. \A q \in Refunds, w \in Workers : Has(w, q)' <=> Has(w, q)
  BY <1>1 DEF Has, R
<1>7. creator'[r] = "done" /\ \A q \in Refunds \ {r} : creator'[q] = creator[q]
  BY <1>1 DEF TypeOK
<1>8. QED
  BY <1>3, <1>4, <1>5, <1>6, <1>7 DEF OneTask

\* A worker takes it ...
LEMMA TakeOneTask ==
    ASSUME TypeOK, OneTask, NEW w \in Workers, Take(w)
    PROVE  OneTask'
<1>1. PICK j \in Job :
         /\ queue[j.refund][j.retries] > 0
         /\ queue' = [queue EXCEPT ![j.refund][j.retries] = @ - 1]
         /\ \/ UNCHANGED <<job, pc>>
            \/ job' = [job EXCEPT ![w] = j] /\ pc' = [pc EXCEPT ![w] = "lock"]
  BY DEF Take, Goto
<1> DEFINE r == j.refund
           k == j.retries
<1>2. /\ r \in Refunds /\ k \in 0 .. MaxRetries /\ UNCHANGED creator
      /\ pc[w] = "idle" /\ job[w] = NoJob
  BY DEF Job, Take, created, At, TypeOK
<1>3. \A q \in Refunds, l \in 0 .. MaxRetries :
         /\ queue[q][l] \in Nat
         /\ queue'[q][l] = IF q = r /\ l = k THEN queue[r][k] - 1 ELSE queue[q][l]
  <2>1. Put(r, k, queue[r][k] - 1)
    BY <1>1 DEF Put
  <2>2. QED
    BY <1>2, <2>1, QueueEffect
<1>4. queue[r][k] = 1
  <2>1. queue[r][k] <= 1
    BY <1>2 DEF OneTask
  <2>2. QED
    BY <1>1, <1>2, <1>3, <2>1
<1>5. \A q \in Refunds, l \in 0 .. MaxRetries :
         queue'[q][l] \in Nat /\ queue'[q][l] <= queue[q][l]
  BY <1>2, <1>3, <1>4
<1>6. CASE UNCHANGED <<job, pc>>
  <2>1. \A q \in Refunds, v \in Workers : Has(v, q)' => Has(v, q)
    BY <1>6 DEF Has, R
  <2>2. QED
    BY <1>2, <1>5, <2>1, NoNewTask
<1>7. CASE job' = [job EXCEPT ![w] = j] /\ pc' = [pc EXCEPT ![w] = "lock"]
  <2>1. \A q \in Refunds, v \in Workers : Has(v, q)' => Has(v, q) \/ (v = w /\ q = r)
    BY <1>7 DEF Has, R, TypeOK
  <2>2. \A l \in 0 .. MaxRetries : queue'[r][l] = 0
    <3>1. \A l \in 0 .. MaxRetries : l # k => queue[r][l] = 0
      BY <1>1, <1>2, <1>3 DEF OneTask
    <3>2. QED
      BY <1>2, <1>3, <1>4, <3>1
  <2>3. \A v \in Workers : ~Has(v, r)
    BY <1>1, <1>2 DEF OneTask
  <2>4. creator[r] = "done"
    <3>1. queue[r][k] # 0
      BY <1>4
    <3>2. QED
      BY <1>2, <3>1 DEF OneTask
  <2>5. \A q \in Refunds \ {r}, l \in 0 .. MaxRetries : queue'[q][l] = queue[q][l]
    BY <1>3
  <2>6. QED
    BY <1>2, <2>1, <2>2, <2>3, <2>4, <2>5 DEF OneTask
<1>8. QED
  BY <1>1, <1>6, <1>7

\* ... and gives it back as the message of a retry.
LEMMA RetryOneTask ==
    ASSUME TypeOK, OneTask, NEW w \in Workers, LockBusy(w) \/ RedisFails(w) \/ Retry(w)
    PROVE  OneTask'
<1>0. /\ job[w] \in Job /\ R(w) \in Refunds /\ job[w].retries \in 0 .. MaxRetries
      /\ NoJob \notin Job /\ pc[w] # "finally" /\ SendRetry(job[w]) /\ UNCHANGED creator
  BY WorksAtRefund, RefundsAssumption DEF LockBusy, RedisFails, Retry, At, R, created, Job
<1> PICK r \in Refunds, k \in Nat : r = R(w) /\ k = job[w].retries + 1
  BY <1>0
<1>1. job[w].refund = r
  BY DEF R
<1>2. Has(w, r)
  BY <1>0 DEF Has
<1>3. \A q \in Refunds, v \in Workers : Has(v, q)' => v # w /\ Has(v, q)
  BY <1>0 DEF Has, R, LockBusy, RedisFails, Retry, Idle, Goto, TypeOK
<1>4. CASE job[w].retries < MaxRetries
  <2>1. k \in 0 .. MaxRetries /\ queue' = [queue EXCEPT ![r][k] = @ + 1]
    BY <1>0, <1>1, <1>4, RefundsAssumption DEF SendRetry
  <2>2. \A q \in Refunds, l \in 0 .. MaxRetries :
           /\ queue[q][l] \in Nat
           /\ queue'[q][l] = IF q = r /\ l = k THEN queue[r][k] + 1 ELSE queue[q][l]
    <3>1. Put(r, k, queue[r][k] + 1)
      BY <2>1 DEF Put
    <3>2. QED
      BY <2>1, <3>1, QueueEffect
  <2>3. \A l \in 0 .. MaxRetries : queue[r][l] = 0
    BY <1>2, <2>2 DEF OneTask
  <2>4. \A l \in 0 .. MaxRetries : queue'[r][l] = IF l = k THEN 1 ELSE 0
    BY <2>1, <2>2, <2>3
  <2>5. \A q \in Refunds \ {r}, l \in 0 .. MaxRetries : queue'[q][l] = queue[q][l]
    BY <2>2
  <2>6. creator[r] = "done" /\ \A v \in Workers : ~Has(v, r)'
    BY <1>2, <1>3 DEF OneTask
  <2>7. QED
    BY <1>0, <1>3, <2>4, <2>5, <2>6 DEF OneTask
<1>5. CASE ~(job[w].retries < MaxRetries)
  <2>1. queue' = queue
    BY <1>0, <1>5 DEF SendRetry
  <2>2. \A q \in Refunds : queue[q] \in [0 .. MaxRetries -> Nat]
    BY DEF TypeOK
  <2>3. \A q \in Refunds, l \in 0 .. MaxRetries :
           queue'[q][l] \in Nat /\ queue'[q][l] <= queue[q][l]
    <3>1. \A q \in Refunds, l \in 0 .. MaxRetries : queue[q][l] \in Nat
      BY <2>2, Zenon
    <3>2. QED
      BY <2>1, <3>1
  <2>4. QED
    BY <1>0, <1>3, <2>3, NoNewTask
<1>6. QED
  BY <1>4, <1>5

\* Without reconcile_refunds_task, every step keeps the task of a refund single.
LEMMA StepOneTask ==
    ASSUME MaxDuplicates = 0, TypeOK, OneTask, [Next]_vars
    PROVE  OneTask'
<1>1. ASSUME UNCHANGED queue,
             \A r \in Refunds, w \in Workers : Has(w, r)' => Has(w, r),
             \A r \in Refunds : creator'[r] # "done" => creator[r] # "done"
      PROVE  OneTask'
  <2>1. \A r \in Refunds : queue[r] \in [0 .. MaxRetries -> Nat]
    BY DEF TypeOK
  <2>2. \A r \in Refunds, k \in 0 .. MaxRetries : queue[r][k] \in Nat
    BY <2>1, Zenon
  <2>3. \A r \in Refunds, k \in 0 .. MaxRetries :
           queue'[r][k] \in Nat /\ queue'[r][k] <= queue[r][k]
    BY <1>1, <2>2
  <2>4. QED
    BY <1>1, <2>3, NoNewTask
<1>2. ASSUME NEW r \in Refunds,
             Call(r) \/ ReadPayment(r) \/ CheckAmount(r) \/ RefuseRefund(r) \/ InsertRefund(r)
                \/ DispatchFails(r)
      PROVE  OneTask'
  <2>1. UNCHANGED <<queue, job, pc>>
    BY <1>2 DEF Call, ReadPayment, CheckAmount, RefuseRefund, InsertRefund, DispatchFails,
                CreatorAt, worker
  <2>2. creator[r] # "done" /\ \A q \in Refunds \ {r} : creator'[q] = creator[q]
    BY <1>2 DEF Call, ReadPayment, CheckAmount, RefuseRefund, InsertRefund, DispatchFails,
                CreatorAt, TypeOK
  <2>3. QED
    BY <1>1, <2>1, <2>2 DEF Has, R
<1>3. ASSUME NEW w \in Workers, WorkStep(w), ~LockBusy(w), ~Retry(w)
      PROVE  OneTask'
  <2>1. UNCHANGED <<queue, creator>>
    BY <1>3 DEF WorkStep, AcquireLock, MarkProcessing, GatewayRefunds, GatewayDeclines,
                SumRefunds, Settle, Decline, Raises, FailFinally, RecordDLQ, Unlock, created
  <2>2. \/ pc[w] \notin {"idle", "finally"} /\ UNCHANGED job
        \/ job' = [job EXCEPT ![w] = NoJob]
    BY <1>3 DEF WorkStep, AcquireLock, MarkProcessing, GatewayRefunds, GatewayDeclines,
                SumRefunds, Settle, Decline, Raises, Tried, Summed, FailFinally, RecordDLQ,
                Unlock, Idle, At
  <2>3. \A v \in Workers \ {w} : pc'[v] = pc[v]
    BY <1>3 DEF WorkStep, AcquireLock, MarkProcessing, GatewayRefunds, GatewayDeclines,
                SumRefunds, Settle, Decline, Raises, FailFinally, RecordDLQ, Unlock, Idle, Goto,
                TypeOK
  <2>4. \A r \in Refunds, v \in Workers : Has(v, r)' => Has(v, r)
    BY <2>2, <2>3 DEF Has, R, TypeOK
  <2>5. QED
    BY <1>1, <2>1, <2>4
<1>4. ASSUME NEW w \in Workers, HandlerFails(w) \/ TaskDies(w) PROVE OneTask'
  <2>1. /\ UNCHANGED <<queue, creator>>
        /\ \/ job' = [job EXCEPT ![w] = NoJob] /\ pc' = [pc EXCEPT ![w] = "idle"]
           \/ UNCHANGED job /\ pc' = [pc EXCEPT ![w] = "finally"]
    BY <1>4 DEF HandlerFails, TaskDies, Idle, Goto, created
  <2>2. \A r \in Refunds, v \in Workers : Has(v, r)' => Has(v, r)
    BY <2>1 DEF Has, R, TypeOK
  <2>3. QED
    BY <1>1, <2>1, <2>2
<1>5. CASE Expire \/ UNCHANGED vars
  BY <1>1, <1>5 DEF Expire, vars, created, worker, Has, R
<1>6. \A r \in Refunds : ~Reconcile(r)
  BY DEF Reconcile
<1>7. QED
  BY <1>2, <1>3, <1>4, <1>5, <1>6, DispatchOneTask, TakeOneTask, RetryOneTask
     DEF Next, CreateStep, TaskStep, WorkStep, TaskFails, Terminated

-----------------------------------------------------------------------------
(* What the holder of a task relies on.                                     *)

\* Nobody else has the task that a worker has.
LEMMA Alone ==
    ASSUME TypeOK, OneTask, NEW v \in Workers, NEW w \in Workers,
           pc[v] \notin {"idle", "finally"}, pc[w] \notin {"idle", "finally"}, R(v) = R(w)
    PROVE  v = w
<1>1. R(w) \in Refunds /\ job[v] # NoJob /\ job[w] # NoJob
  BY WorksAtRefund DEF TypeOK
<1>2. QED
  BY <1>1 DEF OneTask, Has

\* The call that requests a refund has made its task before a worker has it.
LEMMA Requested ==
    ASSUME TypeOK, OneTask, NEW w \in Workers, pc[w] \notin {"idle", "finally"}
    PROVE  creator[R(w)] = "done"
<1>1. R(w) \in Refunds /\ job[w] # NoJob
  BY WorksAtRefund DEF TypeOK
<1>2. QED
  BY <1>1 DEF OneTask, Has

\* Every step of create_refund keeps what the others rely on.
LEMMA CreateStepPhase ==
    ASSUME TypeOK, TaskInv, NEW r \in Refunds, CreateStep(r) \/ DispatchFails(r)
    PROVE  PhaseOK' /\ SettledOnce' /\ DeadLetterIsFailed'
<1>0. OneTask /\ PhaseOK /\ SettledOnce /\ DeadLetterIsFailed
  BY DEF TaskInv
<1>1. UNCHANGED <<job, pc, sent, credits, dlq>>
  BY DEF CreateStep, Call, ReadPayment, CheckAmount, RefuseRefund, InsertRefund, Dispatch,
         DispatchFails, CreatorAt, worker
<1>2. CASE InsertRefund(r)
  <2>1. /\ creator[r] = "insert" /\ creator' = [creator EXCEPT ![r] = "dispatch"]
        /\ refund[r] = "NONE" /\ refund' = [refund EXCEPT ![r] = "CREATED"]
    BY <1>0, <1>2 DEF InsertRefund, CreatorAt, PhaseOK
  <2>2. \A q \in Refunds : refund'[q] = IF q = r THEN "CREATED" ELSE refund[q]
    BY <2>1 DEF TypeOK
  <2>3. \A w \in Workers : pc[w] \notin {"idle", "finally"} => R(w) # r /\ R(w) \in Refunds
    BY <1>0, <2>1, Requested, WorksAtRefund
  <2>4. PhaseOK'
    <3>1. \A w \in Workers : R(w)' = R(w) /\ (pc[w] \notin {"idle", "finally"} =>
                                 refund'[R(w)] = refund[R(w)])
      BY <1>1, <2>2, <2>3 DEF R
    <3>2. \A q \in Refunds : q # r => creator'[q] = creator[q] /\ refund'[q] = refund[q]
      BY <2>1, <2>2 DEF TypeOK
    <3>3. creator'[r] = "dispatch"
      BY <2>1 DEF TypeOK
    <3>4. QED
      BY <1>0, <1>1, <3>1, <3>2, <3>3 DEF PhaseOK, AtWork, Summed
  <2>5. SettledOnce' /\ DeadLetterIsFailed'
    <3>1. credits[r] = 0 /\ ~(dlq[r] > 0)
      BY <1>0, <2>1 DEF SettledOnce, DeadLetterIsFailed
    <3>2. QED
      BY <1>0, <1>1, <2>2, <3>1 DEF SettledOnce, DeadLetterIsFailed
  <2>6. QED
    BY <2>4, <2>5
<1>3. CASE ~InsertRefund(r)
  <2>1. /\ UNCHANGED refund
        /\ creator'[r] \in {"idle", "begin", "amount", "insert"}
              => creator[r] \in {"idle", "begin", "amount", "insert"}
        /\ \A q \in Refunds \ {r} : creator'[q] = creator[q]
    BY <1>3 DEF CreateStep, Call, ReadPayment, CheckAmount, RefuseRefund, Dispatch,
                DispatchFails, CreatorAt, TypeOK
  <2>2. QED
    BY <1>0, <1>1, <2>1 DEF PhaseOK, SettledOnce, DeadLetterIsFailed, R
<1>4. QED
  BY <1>2, <1>3

\* So does every step of process_refund_task.
LEMMA TaskStepPhase ==
    ASSUME TypeOK, TaskInv, NEW w \in Workers, TaskStep(w) \/ TaskFails(w)
    PROVE  PhaseOK' /\ SettledOnce' /\ DeadLetterIsFailed'
<1>0. OneTask /\ PhaseOK /\ SettledOnce /\ DeadLetterIsFailed
  BY DEF TaskInv
<1> USE DEF At, Goto
<1>1. UNCHANGED creator /\ \A v \in Workers \ {w} : pc'[v] = pc[v] /\ job'[v] = job[v]
  BY DEF TaskStep, WorkStep, TaskFails, Take, AcquireLock, LockBusy, MarkProcessing,
         GatewayRefunds, GatewayDeclines, SumRefunds, Settle, Decline, Raises, Retry, FailFinally,
         RecordDLQ, Unlock, RedisFails, HandlerFails, TaskDies, Idle, created, TypeOK
<1>2. CASE Take(w) \/ AcquireLock(w) \/ LockBusy(w) \/ GatewayDeclines(w) \/ SumRefunds(w)
           \/ Retry(w) \/ Unlock(w) \/ TaskFails(w)
  <2>1. UNCHANGED outcome
    BY <1>2 DEF Take, AcquireLock, LockBusy, GatewayDeclines, SumRefunds, Retry, Unlock,
                TaskFails, RedisFails, HandlerFails, TaskDies
  <2>2. \/ pc'[w] \in {"idle", "finally"}
        \/ /\ pc'[w] \in {"lock", "mark", "decline"} \cup Summed
           /\ refund[R(w)'] \notin Terminal
           /\ pc'[w] \in Summed => sent[R(w)']
    <3>1. CASE Take(w)
      BY <3>1 DEF Take, R, Summed, TypeOK
    <3>2. CASE AcquireLock(w) \/ GatewayDeclines(w)
      BY <1>0, <3>2 DEF AcquireLock, GatewayDeclines, R, TypeOK, PhaseOK, AtWork, Summed
    <3>3. CASE SumRefunds(w)
      <4>1. /\ pc[w] = "settle" /\ UNCHANGED job
            /\ \E x \in Summed : pc' = [pc EXCEPT ![w] = x]
        BY <3>3 DEF SumRefunds, Summed
      <4>2. QED
        BY <1>0, <4>1 DEF R, TypeOK, PhaseOK, AtWork
    <3>4. CASE LockBusy(w) \/ Retry(w) \/ Unlock(w) \/ TaskFails(w)
      BY <3>4 DEF LockBusy, Retry, Unlock, TaskFails, RedisFails, HandlerFails, TaskDies, Idle,
                  TypeOK
    <3>5. QED
      BY <1>2, <3>1, <3>2, <3>3, <3>4
  <2>3. \A v \in Workers \ {w} : R(v)' = R(v)
    BY <1>1 DEF R
  <2>4. PhaseOK'
    <3>1. \A v \in Workers :
             /\ pc'[v] \in AtWork => refund[R(v)'] \notin Terminal
             /\ pc'[v] \in {"settle"} \cup Summed => sent[R(v)']
             /\ pc'[v] = "raised" => refund[R(v)'] # "SUCCESS" /\ dlq[R(v)'] = 0
             /\ pc'[v] = "dlq" => refund[R(v)'] = "FAILED" /\ dlq[R(v)'] = 0
      <4>1. ASSUME NEW v \in Workers \ {w}
            PROVE  pc'[v] = pc[v] /\ R(v)' = R(v)
        BY <1>1, <2>3
      <4>2. QED
        BY <1>0, <2>2, <4>1 DEF PhaseOK, AtWork, Summed
    <3>2. QED
      BY <1>0, <1>1, <2>1, <3>1 DEF PhaseOK, outcome
  <2>5. QED
    BY <1>0, <2>1, <2>4 DEF SettledOnce, DeadLetterIsFailed, outcome
<1>3. CASE ~(Take(w) \/ AcquireLock(w) \/ LockBusy(w) \/ GatewayDeclines(w) \/ SumRefunds(w)
             \/ Retry(w) \/ Unlock(w) \/ TaskFails(w))
  <2>0. \/ MarkProcessing(w) \/ GatewayRefunds(w) \/ Settle(w) \/ Decline(w) \/ Raises(w)
        \/ FailFinally(w) \/ RecordDLQ(w)
    BY <1>3 DEF TaskStep, WorkStep
  <2>1. pc[w] \in {"raised", "dlq"} \cup Tried /\ UNCHANGED job
    BY <2>0 DEF MarkProcessing, GatewayRefunds, Settle, Decline, Raises, Tried, FailFinally,
                RecordDLQ
  <2>2. PICK r \in Refunds : r = R(w)
    BY <2>1, WorksAtRefund DEF Tried, Summed
  <2>3. \A v \in Workers : R(v)' = R(v)
    BY <2>1 DEF R
  <2>4. \A v \in Workers \ {w} : pc[v] \notin {"idle", "finally"} => R(v) \in Refunds \ {r}
    BY <1>0, <2>1, <2>2, Alone, WorksAtRefund DEF Tried, Summed
  <2>5. creator[r] = "done"
    BY <1>0, <2>1, <2>2, Requested DEF Tried, Summed
  <2>6. \A q \in Refunds \ {r} : /\ refund'[q] = refund[q] /\ credits'[q] = credits[q]
                                 /\ dlq'[q] = dlq[q] /\ sent[q] = sent'[q]
    BY <2>0, <2>2 DEF MarkProcessing, GatewayRefunds, Settle, Decline, Raises, FailFinally,
                      RecordDLQ, SetRefund, TypeOK
  <2>7. ASSUME /\ pc'[w] \in {"call", "settle"} => refund'[r] \notin Terminal
               /\ pc'[w] = "settle" => sent'[r]
               /\ pc'[w] = "raised" => refund'[r] # "SUCCESS" /\ dlq'[r] = 0
               /\ pc'[w] = "dlq" => refund'[r] = "FAILED" /\ dlq'[r] = 0
               /\ pc'[w] \in {"call", "settle", "raised", "dlq", "finally"}
               /\ credits'[r] = IF refund'[r] = "SUCCESS" THEN 1 ELSE 0
               /\ refund'[r] = "SUCCESS" => sent'[r]
               /\ dlq'[r] > 0 => dlq'[r] = 1 /\ refund'[r] = "FAILED"
        PROVE  PhaseOK' /\ SettledOnce' /\ DeadLetterIsFailed'
    <3>1. ASSUME NEW v \in Workers
          PROVE  /\ pc'[v] \in AtWork => refund'[R(v)] \notin Terminal
                 /\ pc'[v] \in {"settle"} \cup Summed => sent'[R(v)]
                 /\ pc'[v] = "raised" => refund'[R(v)] # "SUCCESS" /\ dlq'[R(v)] = 0
                 /\ pc'[v] = "dlq" => refund'[R(v)] = "FAILED" /\ dlq'[R(v)] = 0
      <4>1. CASE v = w
        BY <2>2, <2>7, <4>1 DEF AtWork, Summed
      <4>2. CASE v # w
        <5>1. pc'[v] = pc[v]
          BY <1>1, <4>2
        <5>2. CASE pc[v] \in {"idle", "finally"}
          BY <5>1, <5>2 DEF AtWork, Summed
        <5>3. CASE pc[v] \notin {"idle", "finally"}
          <6>1. /\ refund'[R(v)] = refund[R(v)] /\ sent'[R(v)] = sent[R(v)]
                /\ dlq'[R(v)] = dlq[R(v)]
            BY <2>4, <2>6, <4>2, <5>3
          <6>2. QED
            BY <1>0, <5>1, <6>1 DEF PhaseOK
        <5>4. QED
          BY <5>2, <5>3
      <4>3. QED
        BY <4>1, <4>2
    <3>2. PhaseOK'
      BY <1>0, <1>1, <2>3, <2>5, <2>6, <3>1 DEF PhaseOK
    <3>3. SettledOnce' /\ DeadLetterIsFailed'
      BY <1>0, <2>6, <2>7 DEF SettledOnce, DeadLetterIsFailed
    <3>4. QED
      BY <3>2, <3>3
  <2>8. /\ pc[w] \in Tried => refund[r] \notin Terminal
        /\ pc[w] \in Summed => sent[r]
        /\ pc[w] = "raised" => refund[r] # "SUCCESS" /\ dlq[r] = 0
        /\ pc[w] = "dlq" => refund[r] = "FAILED" /\ dlq[r] = 0
        /\ credits[r] = IF refund[r] = "SUCCESS" THEN 1 ELSE 0
        /\ refund[r] = "SUCCESS" => sent[r]
        /\ dlq[r] > 0 => dlq[r] = 1 /\ refund[r] = "FAILED"
        /\ dlq[r] \in Nat
    BY <1>0, <2>2 DEF PhaseOK, AtWork, Tried, SettledOnce, DeadLetterIsFailed, TypeOK
  <2> USE DEF Terminal, SetRefund
  <2>9. CASE MarkProcessing(w)
    BY <2>2, <2>7, <2>8, <2>9 DEF MarkProcessing, Tried, TypeOK
  <2>10. CASE GatewayRefunds(w)
    BY <2>2, <2>7, <2>8, <2>10 DEF GatewayRefunds, Tried, TypeOK
  <2>11. CASE Settle(w)
    <3>1. /\ sent[r] /\ refund[r] \notin Terminal /\ credits[r] = 0 /\ dlq[r] = 0
      BY <2>8, <2>11 DEF Settle, Tried
    <3>2. /\ pc'[w] = "finally" /\ refund'[r] = "SUCCESS" /\ credits'[r] = 1
          /\ sent'[r] = sent[r] /\ dlq'[r] = dlq[r]
      BY <2>2, <2>11, <3>1 DEF Settle, TypeOK
    <3>3. QED
      BY <2>7, <3>1, <3>2
  <2>12. CASE Decline(w)
    BY <2>2, <2>7, <2>8, <2>12 DEF Decline, Tried, TypeOK
  <2>13. CASE Raises(w)
    <3>1. pc'[w] = "raised" /\ UNCHANGED <<credits, dlq>>
      BY <2>13 DEF Raises, TypeOK
    <3>2. refund'[r] = refund[r] \/ refund'[r] \in {"PROCESSING", "FAILED"}
      BY <2>2, <2>13 DEF Raises, TypeOK
    <3>3. refund[r] \notin Terminal /\ credits[r] = 0 /\ dlq[r] = 0
      BY <2>8, <2>13 DEF Raises
    <3>4. QED
      BY <2>7, <3>1, <3>2, <3>3
  <2>14. CASE FailFinally(w)
    BY <2>2, <2>7, <2>8, <2>14 DEF FailFinally, TypeOK
  <2>15. CASE RecordDLQ(w)
    BY <2>2, <2>7, <2>8, <2>15 DEF RecordDLQ, TypeOK
  <2>16. QED
    BY <2>0, <2>9, <2>10, <2>11, <2>12, <2>13, <2>14, <2>15
<1>4. QED
  BY <1>2, <1>3

-----------------------------------------------------------------------------
(* The theorems that rest on the task being single.                         *)

\* At first there is no task.
LEMMA InitTask == Init => TaskInv
<1> SUFFICES ASSUME Init PROVE TaskInv
  OBVIOUS
<1>1. OneTask
  BY RefundsAssumption DEF Init, OneTask, Has, R
<1>2. PhaseOK
  BY DEF Init, PhaseOK, AtWork, Summed
<1>3. SettledOnce /\ DeadLetterIsFailed
  BY DEF Init, SettledOnce, DeadLetterIsFailed
<1>4. QED
  BY <1>1, <1>2, <1>3 DEF TaskInv

\* TaskInv is an inductive invariant if nothing sends a task again.
LEMMA InductiveTask == ASSUME MaxDuplicates = 0 PROVE Spec => [](TypeOK /\ TaskInv)
<1>1. TypeOK /\ TaskInv /\ [Next]_vars => TaskInv'
  <2> SUFFICES ASSUME TypeOK, TaskInv, [Next]_vars
               PROVE  TaskInv'
    OBVIOUS
  <2>1. OneTask'
    BY StepOneTask DEF TaskInv
  <2>2. PhaseOK' /\ SettledOnce' /\ DeadLetterIsFailed'
    <3>1. CASE \E r \in Refunds : CreateStep(r) \/ DispatchFails(r)
      BY <3>1, CreateStepPhase
    <3>2. CASE \E w \in Workers : TaskStep(w) \/ TaskFails(w)
      BY <3>2, TaskStepPhase
    <3>3. CASE Expire \/ UNCHANGED vars
      <4>1. UNCHANGED <<creator, job, pc, refund, sent, credits, dlq>>
        BY <3>3 DEF Expire, vars, created, worker, outcome
      <4>2. QED
        BY <4>1 DEF TaskInv, PhaseOK, SettledOnce, DeadLetterIsFailed, R
    <3>4. \A r \in Refunds : ~Reconcile(r)
      BY DEF Reconcile
    <3>6. QED
      BY <3>1, <3>2, <3>3, <3>4 DEF Next, Terminated
  <2>3. QED
    BY <2>1, <2>2 DEF TaskInv
<1>2. QED
  BY InitTask, <1>1, InductiveLock, PTL DEF Spec

\* Without duplicate messages, the money of a refund is returned once, exactly
\* when it becomes SUCCESS, however many workers process it, retry it, die or
\* outlive the lock.
THEOREM SettledExactlyOnce == ASSUME MaxDuplicates = 0 PROVE Spec => []SettledOnce
BY InductiveTask, PTL DEF TaskInv

\* And a refund has one dead letter record at most, and then it is FAILED.
THEOREM DeadLetterOnce == ASSUME MaxDuplicates = 0 PROVE Spec => []DeadLetterIsFailed
BY InductiveTask, PTL DEF TaskInv

\* And nobody changes a refund that is SUCCESS or FAILED.
THEOREM TerminalStays == ASSUME MaxDuplicates = 0 PROVE Spec => TerminalIsFinal
<1>1. ASSUME TypeOK, TaskInv, [Next]_vars
      PROVE  [\A r \in Refunds : refund[r] \in Terminal => refund'[r] = refund[r]]_vars
  <2>0. PhaseOK
    BY <1>1 DEF TaskInv
  <2>1. ASSUME NEW r \in Refunds, CreateStep(r) \/ DispatchFails(r), NEW q \in Refunds,
               refund[q] \in Terminal
        PROVE  refund'[q] = refund[q]
    <3>1. CASE InsertRefund(r)
      <4>1. refund[r] \notin Terminal /\ refund' = [refund EXCEPT ![r] = "CREATED"]
        BY <2>0, <3>1 DEF InsertRefund, CreatorAt, PhaseOK, Terminal
      <4>2. QED
        BY <1>1, <2>1, <4>1 DEF TypeOK
    <3>2. CASE ~InsertRefund(r)
      BY <2>1, <3>2 DEF CreateStep, Call, ReadPayment, CheckAmount, RefuseRefund, Dispatch,
                        DispatchFails
    <3>3. QED
      BY <3>1, <3>2
  <2>2. ASSUME NEW w \in Workers, TaskStep(w), NEW q \in Refunds, refund[q] \in Terminal
        PROVE  refund'[q] = refund[q]
    <3>1. CASE UNCHANGED refund
      BY <3>1
    <3>2. CASE MarkProcessing(w) \/ Settle(w) \/ Decline(w) \/ Raises(w)
      <4>1. refund[R(w)] \notin Terminal
        BY <2>0, <3>2 DEF MarkProcessing, Settle, Decline, Raises, Tried, At, PhaseOK, AtWork
      <4>2. R(w) # q
        BY <2>2, <4>1
      <4>3. QED
        BY <1>1, <3>2, <4>2 DEF MarkProcessing, Settle, Decline, Raises, SetRefund, TypeOK
    <3>3. CASE FailFinally(w)
      <4>1. refund' = [refund EXCEPT ![R(w)] = "FAILED"] /\ refund[R(w)] # "SUCCESS"
        BY <2>0, <3>3 DEF FailFinally, SetRefund, At, PhaseOK
      <4>2. QED
        BY <1>1, <2>2, <4>1 DEF TypeOK, Terminal
    <3>4. QED
      BY <2>2, <3>1, <3>2, <3>3
         DEF TaskStep, WorkStep, Take, AcquireLock, LockBusy, GatewayRefunds, GatewayDeclines,
             SumRefunds, Retry, RecordDLQ, Unlock, outcome
  <2>3. QED
    BY <1>1, <2>1, <2>2
       DEF Next, Terminated, TaskFails, RedisFails, HandlerFails, TaskDies, Expire, Reconcile,
           outcome
<1>2. QED
  BY <1>1, InductiveTask, PTL DEF Spec, TerminalIsFinal
-----------------------------------------------------------------------------
(* Tasks come after the request, with or without duplicates.                *)

NoTask(r) == /\ \A k \in 0 .. MaxRetries : queue[r][k] = 0
             /\ \A w \in Workers : ~Has(w, r)

\* Only by taking a message does a worker come by a task.
LEMMA TasksAreTaken ==
    ASSUME TypeOK, NEW w \in Workers, WorkStep(w) \/ TaskFails(w)
    PROVE  \A r \in Refunds, v \in Workers : Has(v, r)' => Has(v, r)
<1> USE DEF At, Goto
<1>1. \A v \in Workers \ {w} : pc'[v] = pc[v] /\ job'[v] = job[v]
  BY DEF WorkStep, AcquireLock, LockBusy, MarkProcessing, GatewayRefunds, GatewayDeclines,
         SumRefunds, Settle, Decline, Raises, Retry, FailFinally, RecordDLQ, Unlock, TaskFails,
         RedisFails, HandlerFails, TaskDies, Idle, TypeOK
<1>2. \/ pc[w] \notin {"idle", "finally"} /\ UNCHANGED job
      \/ job' = [job EXCEPT ![w] = NoJob]
  BY DEF WorkStep, AcquireLock, LockBusy, MarkProcessing, GatewayRefunds, GatewayDeclines,
         SumRefunds, Settle, Decline, Raises, Tried, Summed, Retry, FailFinally, RecordDLQ,
         Unlock, TaskFails, RedisFails, HandlerFails, TaskDies, Idle
<1>3. QED
  BY <1>1, <1>2 DEF Has, R, TypeOK

\* A step of a worker gives no task to a refund that has none.
LEMMA NoTaskStays ==
    ASSUME TypeOK, NEW w \in Workers, TaskStep(w) \/ TaskFails(w), NEW r \in Refunds, NoTask(r)
    PROVE  NoTask(r)'
<1>1. CASE Take(w)
  <2>1. PICK j \in Job :
           /\ queue[j.refund][j.retries] > 0
           /\ queue' = [queue EXCEPT ![j.refund][j.retries] = @ - 1]
           /\ \/ UNCHANGED <<job, pc>>
              \/ job' = [job EXCEPT ![w] = j] /\ pc' = [pc EXCEPT ![w] = "lock"]
    BY <1>1 DEF Take, Goto
  <2>2. j.refund \in Refunds /\ j.retries \in 0 .. MaxRetries
    BY DEF Job
  <2>3. j.refund # r
    BY <2>1, <2>2 DEF NoTask
  <2>4. \A l \in 0 .. MaxRetries : queue'[r][l] = queue[r][l]
    BY <2>1, <2>2, <2>3 DEF TypeOK
  <2>5. \A v \in Workers : Has(v, r)' => Has(v, r)
    BY <2>1, <2>3 DEF Has, R, TypeOK
  <2>6. QED
    BY <2>4, <2>5 DEF NoTask
<1>2. CASE LockBusy(w) \/ RedisFails(w) \/ Retry(w)
  <2>1. /\ job[w] \in Job /\ R(w) \in Refunds /\ Has(w, R(w)) /\ SendRetry(job[w])
    BY <1>2, WorksAtRefund, RefundsAssumption DEF LockBusy, RedisFails, Retry, At, Has, Job
  <2>2. R(w) # r
    BY <2>1 DEF NoTask
  <2>3. \A l \in 0 .. MaxRetries : queue'[r][l] = queue[r][l]
    BY <2>1, <2>2 DEF SendRetry, R, TypeOK
  <2>4. \A v \in Workers : Has(v, r)' => Has(v, r)
    BY <1>2, TasksAreTaken DEF WorkStep, TaskFails
  <2>5. QED
    BY <2>3, <2>4 DEF NoTask
<1>3. CASE ~Take(w) /\ ~LockBusy(w) /\ ~RedisFails(w) /\ ~Retry(w)
  <2>1. UNCHANGED queue
    BY <1>3 DEF TaskStep, WorkStep, AcquireLock, MarkProcessing, GatewayRefunds, GatewayDeclines,
                SumRefunds, Settle, Decline, Raises, FailFinally, RecordDLQ, Unlock, TaskFails,
                HandlerFails, TaskDies
  <2>2. \A v \in Workers : Has(v, r)' => Has(v, r)
    BY <1>3, TasksAreTaken DEF TaskStep
  <2>3. QED
    BY <2>1, <2>2 DEF NoTask
<1>4. QED
  BY <1>1, <1>2, <1>3

\* A worker has a task of a refund that is there, and whose call has returned.
LEMMA TaskIsRequested ==
    ASSUME TypeOK, TaskAfterRequest, NEW w \in Workers, pc[w] \notin {"idle", "finally"}
    PROVE  R(w) \in Refunds /\ creator[R(w)] = "done" /\ refund[R(w)] # "NONE"
<1>1. R(w) \in Refunds /\ Has(w, R(w))
  BY WorksAtRefund DEF TypeOK, Has
<1>2. QED
  BY <1>1 DEF TaskAfterRequest

\* What a worker's step does to the refunds and the calls.
LEMMA TaskStepRefund ==
    ASSUME TypeOK, TaskAfterRequest, NEW w \in Workers, TaskStep(w) \/ TaskFails(w)
    PROVE  /\ UNCHANGED <<creator, amount>>
           /\ \A r \in Refunds : refund'[r] = "NONE" <=> refund[r] = "NONE"
           /\ \A r \in Refunds : creator[r] # "done" => refund'[r] = refund[r]
<1>1. UNCHANGED <<creator, amount>>
  BY DEF TaskStep, WorkStep, Take, AcquireLock, LockBusy, MarkProcessing, GatewayRefunds,
         GatewayDeclines, SumRefunds, Settle, Decline, Raises, Retry, FailFinally, RecordDLQ,
         Unlock, TaskFails, RedisFails, HandlerFails, TaskDies, created
<1>2. CASE UNCHANGED refund
  BY <1>1, <1>2
<1>3. CASE ~UNCHANGED refund
  <2>1. MarkProcessing(w) \/ Settle(w) \/ Decline(w) \/ FailFinally(w) \/ Raises(w)
    BY <1>3 DEF TaskStep, WorkStep, Take, AcquireLock, LockBusy, GatewayRefunds, GatewayDeclines,
         SumRefunds, Retry, RecordDLQ, Unlock, TaskFails, RedisFails, HandlerFails, TaskDies,
         outcome
  <2>2. R(w) \in Refunds /\ creator[R(w)] = "done" /\ refund[R(w)] # "NONE"
    BY <2>1, TaskIsRequested
       DEF MarkProcessing, Settle, Decline, FailFinally, Raises, Tried, Summed, At
  <2>3. \E x \in {"PROCESSING", "SUCCESS", "FAILED"} : refund' = [refund EXCEPT ![R(w)] = x]
    BY <1>3, <2>1 DEF MarkProcessing, Settle, Decline, FailFinally, Raises, SetRefund
  <2>4. QED
    BY <1>1, <2>2, <2>3 DEF TypeOK
<1>4. QED
  BY <1>2, <1>3

\* Every step of create_refund, and reconcile_refunds_task, keep the order.
LEMMA CreateStepRequest ==
    ASSUME TypeOK, TaskAfterRequest, NEW r \in Refunds,
           CreateStep(r) \/ DispatchFails(r) \/ Reconcile(r)
    PROVE  TaskAfterRequest'
<1> USE DEF CreatorAt
<1>1. \A q \in Refunds \ {r} :
         /\ creator'[q] = creator[q] /\ refund'[q] = refund[q]
         /\ \A k \in 0 .. MaxRetries : queue'[q][k] = queue[q][k]
  BY DEF CreateStep, Call, ReadPayment, CheckAmount, RefuseRefund, InsertRefund, Dispatch,
         DispatchFails, Reconcile, created, outcome, TypeOK
<1>2. UNCHANGED <<job, pc>>
  BY DEF CreateStep, Call, ReadPayment, CheckAmount, RefuseRefund, InsertRefund, Dispatch,
         DispatchFails, Reconcile, worker
<1>3. \A q \in Refunds, w \in Workers : Has(w, q)' <=> Has(w, q)
  BY <1>2 DEF Has, R
<1>4. ASSUME creator'[r] \in {"idle", "begin", "amount", "insert"} => refund'[r] = "NONE",
             creator'[r] = "dispatch" => refund'[r] = "CREATED",
             \/ creator'[r] = "done" /\ refund'[r] # "NONE"
             \/ NoTask(r)'
      PROVE  TaskAfterRequest'
  BY <1>1, <1>3, <1>4 DEF TaskAfterRequest, NoTask
<1>5. NoTask(r) /\ UNCHANGED queue => NoTask(r)'
  BY <1>3 DEF NoTask
<1>6. CASE Call(r) \/ ReadPayment(r) \/ CheckAmount(r) \/ RefuseRefund(r)
  <2>1. /\ creator[r] \in {"idle", "begin", "amount"} /\ UNCHANGED <<refund, queue>>
        /\ creator'[r] \in {"begin", "amount", "insert", "done"}
    BY <1>6 DEF Call, ReadPayment, CheckAmount, RefuseRefund, TypeOK
  <2>2. refund[r] = "NONE" /\ NoTask(r)
    BY <2>1 DEF TaskAfterRequest, NoTask
  <2>3. QED
    BY <1>4, <1>5, <2>1, <2>2
<1>7. CASE InsertRefund(r)
  <2>1. creator[r] = "insert" /\ creator'[r] = "dispatch" /\ refund'[r] = "CREATED"
        /\ UNCHANGED queue
    BY <1>7 DEF InsertRefund, TypeOK
  <2>2. NoTask(r)
    BY <2>1 DEF TaskAfterRequest, NoTask
  <2>3. QED
    BY <1>4, <1>5, <2>1, <2>2
<1>8. CASE Dispatch(r) \/ DispatchFails(r)
  <2>1. creator[r] = "dispatch" /\ creator'[r] = "done" /\ UNCHANGED refund
    BY <1>8 DEF Dispatch, DispatchFails, TypeOK
  <2>2. refund[r] = "CREATED"
    BY <2>1 DEF TaskAfterRequest
  <2>3. QED
    BY <1>4, <2>1, <2>2
<1>9. CASE Reconcile(r)
  <2>1. refund[r] = "PROCESSING" /\ UNCHANGED <<creator, refund>>
    BY <1>9 DEF Reconcile, created, outcome
  <2>2. creator[r] = "done"
    BY <2>1 DEF TaskAfterRequest, TypeOK
  <2>3. QED
    BY <1>4, <2>1, <2>2
<1>10. QED
  BY <1>6, <1>7, <1>8, <1>9 DEF CreateStep

\* The order of request and task is an inductive invariant.
LEMMA InductiveRequest == Spec => [](TypeOK /\ TaskAfterRequest)
<1>1. Init => TaskAfterRequest
  BY DEF Init, TaskAfterRequest, Has
<1>2. TypeOK /\ TaskAfterRequest /\ [Next]_vars => TaskAfterRequest'
  <2> SUFFICES ASSUME TypeOK, TaskAfterRequest, [Next]_vars
               PROVE  TaskAfterRequest'
    OBVIOUS
  <2>1. ASSUME NEW w \in Workers, TaskStep(w) \/ TaskFails(w)
        PROVE  TaskAfterRequest'
    <3>1. \A r \in Refunds : NoTask(r) => NoTask(r)'
      BY <2>1, NoTaskStays
    <3>2. QED
      BY <2>1, <3>1, TaskStepRefund DEF TaskAfterRequest, NoTask
  <2>2. CASE Expire \/ UNCHANGED vars
    BY <2>2 DEF Expire, vars, created, worker, outcome, TaskAfterRequest, Has, R
  <2>3. QED
    BY <2>1, <2>2, CreateStepRequest DEF Next, Terminated
<1>3. QED
  BY InductiveLock, <1>1, <1>2, PTL DEF Spec
-----------------------------------------------------------------------------
(* One worker drops no task.                                                *)

\* Some message of refund r waits, or a worker has its task.
HasTask(r) == \/ \E k \in 0 .. MaxRetries : queue[r][k] > 0
              \/ \E w \in Workers : Has(w, r)

\* The number of messages that wait is positive if one of them does.
LEMMA WaitingCounts ==
    ASSUME TypeOK, NEW r \in Refunds
    PROVE  /\ Waiting(r) \in Nat
           /\ \A k \in 0 .. MaxRetries : queue[r][k] > 0 => Waiting(r) > 0
<1>1. queue[r] \in [0 .. MaxRetries -> Nat] /\ MaxRetries \in Nat
  BY RefundsAssumption DEF TypeOK
<1>2. \A k \in 0 .. MaxRetries : queue[r][k] \in Nat
  BY <1>1
<1>3. IsFiniteSet(0 .. MaxRetries)
  BY <1>1, FS_Interval
<1>4. Waiting(r) = SumOf(queue[r], 0 .. MaxRetries)
  BY DEF Waiting, SumOf, MapThenSumSet, MapThenFoldSet
<1>5. Waiting(r) \in Nat
  BY <1>2, <1>3, <1>4, SumIsNat
<1>6. Waiting(r) = 0 => \A k \in 0 .. MaxRetries : queue[r][k] = 0
  BY <1>2, <1>3, <1>4, SumIsZero
<1>7. QED
  BY <1>5, <1>6

\* A worker's step leaves the refund with a task, unless it ends it.
LEMMA TaskStepKeepsTask ==
    ASSUME TypeOK, OneWorkerInv, \A v, w \in Workers : v = w,
           NEW w \in Workers, TaskStep(w), NEW r \in Refunds, failures = 0,
           HasTask(r), refund'[r] \in {"CREATED", "PROCESSING"}
    PROVE  HasTask(r)'
<1> USE DEF At, Goto
<1>1. CASE Take(w)
  <2>1. PICK j \in Job :
           /\ queue[j.refund][j.retries] > 0
           /\ queue' = [queue EXCEPT ![j.refund][j.retries] = @ - 1]
           /\ \/ refund[j.refund] \in Terminal /\ UNCHANGED <<job, pc>>
              \/ job' = [job EXCEPT ![w] = j] /\ pc' = [pc EXCEPT ![w] = "lock"]
    BY <1>1 DEF Take
  <2>2. j.refund \in Refunds /\ j.retries \in 0 .. MaxRetries /\ UNCHANGED refund
        /\ NoJob \notin Job /\ pc[w] = "idle" /\ job[w] = NoJob
    BY <1>1, RefundsAssumption DEF Job, Take, outcome, TypeOK
  <2>3. CASE j.refund = r
    <3>1. job' = [job EXCEPT ![w] = j] /\ pc' = [pc EXCEPT ![w] = "lock"]
      BY <2>1, <2>2, <2>3 DEF Terminal
    <3>2. Has(w, r)'
      BY <2>2, <2>3, <3>1 DEF Has, R, TypeOK
    <3>3. QED
      BY <3>2 DEF HasTask
  <2>4. CASE j.refund # r
    <3>1. \A l \in 0 .. MaxRetries : queue'[r][l] = queue[r][l]
      BY <2>1, <2>2, <2>4 DEF TypeOK
    <3>2. \A v \in Workers : ~Has(v, r)
      BY <2>2 DEF Has
    <3>3. QED
      BY <3>1, <3>2 DEF HasTask
  <2>5. QED
    BY <2>3, <2>4
<1>2. ~LockBusy(w)
  <2>1. lock # NoWorker /\ pc[w] = "lock" => FALSE
    BY DEF OneWorkerInv, TypeOK, Inside, Summed
  <2>2. QED
    BY <2>1 DEF LockBusy
<1>3. CASE Retry(w)
  <2>1. /\ job[w] \in Job /\ R(w) \in Refunds /\ job[w].retries \in 0 .. MaxRetries
        /\ job[w].retries < MaxRetries /\ SendRetry(job[w])
    BY <1>3, WorksAtRefund DEF Retry
  <2>2. PICK k \in 0 .. MaxRetries : k = job[w].retries + 1
    BY <2>1, RefundsAssumption
  <2>3. Put(R(w), k, queue[R(w)][k] + 1)
    BY <2>1, <2>2 DEF SendRetry, R, Put
  <2>4. \A q \in Refunds, l \in 0 .. MaxRetries :
           /\ queue[q][l] \in Nat
           /\ queue'[q][l] = IF q = R(w) /\ l = k THEN queue[R(w)][k] + 1 ELSE queue[q][l]
    BY <2>1, <2>2, <2>3, QueueEffect
  <2>5. CASE R(w) = r
    <3>1. queue'[r][k] > 0
      BY <2>2, <2>4, <2>5
    <3>2. QED
      BY <3>1 DEF HasTask
  <2>6. CASE R(w) # r
    <3>1. \A v \in Workers : ~Has(v, r)
      BY <2>6 DEF Has
    <3>2. QED
      BY <2>4, <2>6, <3>1 DEF HasTask
  <2>7. QED
    BY <2>5, <2>6
<1>4. CASE ~Take(w) /\ ~LockBusy(w) /\ ~Retry(w)
  <2>1. UNCHANGED queue
    BY <1>4 DEF TaskStep, WorkStep, AcquireLock, MarkProcessing, GatewayRefunds, GatewayDeclines,
                SumRefunds, Settle, Decline, Raises, FailFinally, RecordDLQ, Unlock
  <2>2. ASSUME Has(w, r) PROVE Has(w, r)'
    <3>1. pc[w] \notin {"idle", "finally"} /\ R(w) = r /\ job[w] \in Job /\ pc[w] # "finally"
      BY <2>2, WorksAtRefund DEF Has, TypeOK
    <3>2. CASE Settle(w) \/ Decline(w) \/ FailFinally(w)
      <4>1. refund'[r] \in {"SUCCESS", "FAILED"}
        BY <3>1, <3>2 DEF Settle, Decline, FailFinally, SetRefund, TypeOK
      <4>2. QED
        BY <4>1
    <3>3. CASE RecordDLQ(w)
      <4>1. pc[w] = "dlq" /\ UNCHANGED refund
        BY <3>3 DEF RecordDLQ
      <4>2. QED
        BY <3>1, <4>1 DEF OneWorkerInv
    <3>4. CASE ~Settle(w) /\ ~Decline(w) /\ ~FailFinally(w) /\ ~RecordDLQ(w)
      <4>1. UNCHANGED job /\ pc'[w] \notin {"idle", "finally"}
        BY <1>4, <3>1, <3>4
           DEF TaskStep, WorkStep, AcquireLock, MarkProcessing, GatewayRefunds, GatewayDeclines,
               SumRefunds, Raises, Unlock, TypeOK
      <4>2. QED
        BY <2>2, <4>1 DEF Has, R
    <3>5. QED
      BY <3>2, <3>3, <3>4
  <2>3. QED
    BY <2>1, <2>2 DEF HasTask
<1>5. QED
  BY <1>1, <1>2, <1>3, <1>4

\* With one worker, every step keeps OneWorkerInv.
LEMMA StepOneWorker ==
    ASSUME TypeOK, TaskAfterRequest, OneWorkerInv, \A v, w \in Workers : v = w, [Next]_vars
    PROVE  OneWorkerInv'
<1> USE DEF At, Goto
<1>0. MaxFailures \in Nat /\ failures \in Nat
  BY RefundsAssumption DEF TypeOK
<1>1. ASSUME NEW r \in Refunds, CreateStep(r) \/ DispatchFails(r) \/ Reconcile(r)
      PROVE  OneWorkerInv'
  <2>1. UNCHANGED <<job, pc, lock>> /\ (failures' = 0 => failures = 0)
    BY <1>0, <1>1 DEF CreateStep, Call, ReadPayment, CheckAmount, RefuseRefund, InsertRefund,
               Dispatch, DispatchFails, Fails, Reconcile, CreatorAt, worker, faults
  <2>2. \A q \in Refunds \ {r} :
           /\ creator'[q] = creator[q] /\ refund'[q] = refund[q]
           /\ \A k \in 0 .. MaxRetries : queue'[q][k] = queue[q][k]
    BY <1>1 DEF CreateStep, Call, ReadPayment, CheckAmount, RefuseRefund, InsertRefund, Dispatch,
           DispatchFails, Reconcile, CreatorAt, created, outcome, TypeOK
  <2>3. \A q \in Refunds, w \in Workers : Has(w, q)' <=> Has(w, q)
    BY <2>1 DEF Has, R
  <2>4. ASSUME creator'[r] = "done", refund'[r] \in {"CREATED", "PROCESSING"}, failures' = 0
        PROVE  HasTask(r)'
    <3>1. CASE Dispatch(r) \/ Reconcile(r)
      <4>1. Put(r, 0, queue[r][0] + 1) /\ 0 \in 0 .. MaxRetries
        BY <3>1, RefundsAssumption DEF Dispatch, Reconcile, Put
      <4>2. queue[r][0] \in Nat /\ queue'[r][0] = queue[r][0] + 1
        BY <4>1, QueueEffect
      <4>3. queue'[r][0] > 0
        BY <4>2
      <4>4. QED
        BY <4>1, <4>3 DEF HasTask
    <3>2. CASE RefuseRefund(r)
      <4>1. creator[r] \in {"begin", "amount"} /\ UNCHANGED refund
        BY <3>2 DEF RefuseRefund, CreatorAt
      <4>2. QED
        BY <2>4, <4>1 DEF TaskAfterRequest
    <3>3. CASE DispatchFails(r)
      BY <1>0, <2>4, <3>3 DEF DispatchFails, Fails
    <3>4. CASE Call(r) \/ ReadPayment(r) \/ CheckAmount(r) \/ InsertRefund(r)
      BY <2>4, <3>4 DEF Call, ReadPayment, CheckAmount, InsertRefund, CreatorAt, TypeOK
    <3>5. QED
      BY <1>1, <3>1, <3>2, <3>3, <3>4 DEF CreateStep
  <2>5. \A w \in Workers : pc[w] = "dlq" => R(w) # r \/ UNCHANGED refund
    <3>1. CASE InsertRefund(r)
      <4>1. creator[r] = "insert"
        BY <3>1 DEF InsertRefund, CreatorAt
      <4>2. QED
        BY <4>1, TaskIsRequested
    <3>2. CASE ~InsertRefund(r)
      BY <1>1, <3>2 DEF CreateStep, Call, ReadPayment, CheckAmount, RefuseRefund, Dispatch,
           DispatchFails, Reconcile, outcome
    <3>3. QED
      BY <3>1, <3>2
  <2>6. \A w \in Workers : pc'[w] = "dlq" => refund'[R(w)'] = "FAILED"
    <3>1. \A w \in Workers : pc[w] = "dlq" => R(w) \in Refunds
      BY WorksAtRefund
    <3>2. QED
      BY <2>1, <2>2, <2>5, <3>1 DEF OneWorkerInv, R
  <2>7. \A q \in Refunds :
           failures' = 0 /\ creator'[q] = "done" /\ refund'[q] \in {"CREATED", "PROCESSING"} =>
               HasTask(q)'
    BY <2>1, <2>2, <2>3, <2>4 DEF OneWorkerInv, HasTask
  <2>8. QED
    BY <2>1, <2>6, <2>7 DEF OneWorkerInv, HasTask, Inside, Summed
<1>2. ASSUME NEW w \in Workers, TaskStep(w)
      PROVE  OneWorkerInv'
  <2>1. UNCHANGED <<failures, creator>>
    BY <1>2 DEF TaskStep, WorkStep, Take, AcquireLock, LockBusy, MarkProcessing,
                GatewayRefunds, GatewayDeclines, SumRefunds, Settle, Decline, Raises, Retry,
                FailFinally, RecordDLQ, Unlock, faults, created
  <2>2. lock' # NoWorker /\ failures' = 0 => Inside(lock)'
    <3>1. CASE Take(w) \/ LockBusy(w)
      <4>1. pc[w] \in {"idle", "lock"} /\ UNCHANGED lock
        BY <3>1 DEF Take, LockBusy
      <4>2. lock # NoWorker /\ failures = 0 => lock = w /\ Inside(w)
        BY DEF OneWorkerInv, TypeOK
      <4>3. QED
        BY <2>1, <4>1, <4>2 DEF Inside, Summed
    <3>2. CASE Unlock(w)
      BY <3>2 DEF Unlock
    <3>3. CASE ~Take(w) /\ ~LockBusy(w) /\ ~Unlock(w)
      <4>1. pc'[w] \in {"mark", "call", "settle", "decline", "raised", "dlq", "finally"}
                          \cup Summed
        BY <1>2, <3>3
           DEF TaskStep, WorkStep, AcquireLock, MarkProcessing, GatewayRefunds, GatewayDeclines,
               SumRefunds, Summed, Settle, Decline, Raises, Retry, FailFinally, RecordDLQ, TypeOK
      <4>2. lock' \in {lock, w}
        BY <1>2, <3>3
           DEF TaskStep, WorkStep, AcquireLock, MarkProcessing, GatewayRefunds, GatewayDeclines,
               SumRefunds, Settle, Decline, Raises, Retry, FailFinally, RecordDLQ
      <4>3. lock' # NoWorker => lock' = w
        BY <4>2 DEF TypeOK
      <4>4. QED
        BY <4>1, <4>3 DEF Inside
    <3>4. QED
      BY <3>1, <3>2, <3>3
  <2>3. \A v \in Workers : pc'[v] = "dlq" => refund'[R(v)'] = "FAILED"
    <3>1. pc'[w] = "dlq" => FailFinally(w)
      BY <1>2 DEF TaskStep, WorkStep, Take, AcquireLock, LockBusy, MarkProcessing,
                GatewayRefunds, GatewayDeclines, SumRefunds, Settle, Decline, Raises, Retry,
                FailFinally, RecordDLQ, Unlock, Idle, TypeOK
    <3>2. FailFinally(w) => refund'[R(w)'] = "FAILED"
      BY WorksAtRefund DEF FailFinally, SetRefund, R, TypeOK
    <3>3. QED
      BY <3>1, <3>2
  <2>4. ASSUME NEW r \in Refunds, failures' = 0, creator'[r] = "done",
               refund'[r] \in {"CREATED", "PROCESSING"}
        PROVE  HasTask(r)'
    <3>1. HasTask(r)
      <4>1. CASE refund[r] \in {"CREATED", "PROCESSING"}
        BY <2>1, <2>4, <4>1 DEF OneWorkerInv, HasTask
      <4>2. CASE refund[r] \notin {"CREATED", "PROCESSING"}
        <5>1. refund'[r] # refund[r]
          BY <2>4, <4>2
        <5>2. MarkProcessing(w) \/ Settle(w) \/ Decline(w) \/ FailFinally(w) \/ Raises(w)
          BY <1>2, <5>1
             DEF TaskStep, WorkStep, Take, AcquireLock, LockBusy, GatewayRefunds, GatewayDeclines,
                 SumRefunds, Retry, RecordDLQ, Unlock, outcome
        <5>3. R(w) = r /\ pc[w] \in {"raised"} \cup Tried
          BY <5>1, <5>2
             DEF MarkProcessing, Settle, Decline, FailFinally, Raises, Tried, SetRefund, TypeOK
        <5>4. Has(w, r)
          BY <5>3 DEF Has, Tried, Summed, TypeOK
        <5>5. QED
          BY <5>4 DEF HasTask
      <4>3. QED
        BY <4>1, <4>2
    <3>2. QED
      BY <1>2, <2>1, <2>4, <3>1, TaskStepKeepsTask
  <2>5. QED
    BY <2>2, <2>3, <2>4 DEF OneWorkerInv, HasTask
<1>3. ASSUME NEW w \in Workers, TaskFails(w) PROVE OneWorkerInv'
  <2>1. failures' # 0
    BY <1>0, <1>3 DEF TaskFails, RedisFails, HandlerFails, TaskDies, Fails
  <2>2. \A v \in Workers : pc'[v] = "dlq" => refund'[R(v)'] = "FAILED"
    BY <1>3 DEF TaskFails, RedisFails, HandlerFails, TaskDies, Idle, TypeOK
  <2>3. QED
    BY <2>1, <2>2 DEF OneWorkerInv
<1>4. CASE Expire
  <2>1. UNCHANGED <<created, job, pc, queue, outcome, failures>> /\ lock' = NoWorker
    BY <1>4 DEF Expire
  <2>2. \A q \in Refunds, w \in Workers : Has(w, q)' <=> Has(w, q)
    BY <2>1 DEF Has, R
  <2>3. QED
    BY <2>1, <2>2 DEF OneWorkerInv, created, outcome, R
<1>5. CASE UNCHANGED vars
  BY <1>5 DEF vars, created, worker, outcome, faults, OneWorkerInv, Has, R, Inside, Summed
<1>6. QED
  BY <1>1, <1>2, <1>3, <1>4, <1>5 DEF Next, Terminated

\* With one worker, the task drops no refund, whichever statement of its try
\* statement raises, however often reconcile_refunds_task runs and whenever the
\* lock expires: as long as Redis, the broker and what runs outside the try
\* statement have not failed, there is a message or a worker for it.
THEOREM NoTaskDropped ==
    ASSUME \A v, w \in Workers : v = w PROVE Spec => []NoTaskLost
<1>1. Init => OneWorkerInv
  BY DEF Init, OneWorkerInv
<1>2. TypeOK /\ TaskAfterRequest /\ OneWorkerInv /\ [Next]_vars => OneWorkerInv'
  BY StepOneWorker
<1>3. TypeOK /\ OneWorkerInv => NoTaskLost
  BY WaitingCounts DEF OneWorkerInv, NoTaskLost, Has
<1>4. QED
  BY InductiveRequest, <1>1, <1>2, <1>3, PTL DEF Spec
-----------------------------------------------------------------------------
(* The total of the refunds.                                                *)

InStatus(statuses) == {r \in Refunds : refund[r] \in statuses}

\* AmountIn is a sum over a finite set of natural numbers.
LEMMA AmountIsSum ==
    ASSUME TypeOK, NEW statuses
    PROVE  /\ AmountIn(statuses) = SumOf(amount, InStatus(statuses))
           /\ AmountIn(statuses) \in Nat
           /\ IsFiniteSet(InStatus(statuses))
           /\ \A r \in Refunds : amount[r] \in Nat
<1>1. AmountIn(statuses) = SumOf(amount, InStatus(statuses))
  BY DEF AmountIn, InStatus, SumOf, MapThenSumSet, MapThenFoldSet
<1>2. InStatus(statuses) \subseteq Refunds /\ IsFiniteSet(InStatus(statuses))
  BY RefundsAssumption, FS_Subset DEF InStatus
<1>3. \A r \in Refunds : amount[r] \in Nat
  BY RefundsAssumption DEF TypeOK
<1>4. QED
  BY <1>1, <1>2, <1>3, SumIsNat

\* How it changes with the status of one refund.
LEMMA AmountChanges ==
    ASSUME TypeOK, NEW r \in Refunds, NEW new, UNCHANGED amount,
           refund' = [refund EXCEPT ![r] = new], NEW statuses
    PROVE  /\ AmountIn(statuses)' \in Nat
           /\ AmountIn(statuses)' + (IF refund[r] \in statuses THEN amount[r] ELSE 0)
                = AmountIn(statuses) + (IF new \in statuses THEN amount[r] ELSE 0)
<1> DEFINE others == InStatus(statuses) \ {r}
           rest == SumOf(amount, others)
<1>1. AmountIn(statuses)' = SumOf(amount, InStatus(statuses)')
  BY DEF AmountIn, InStatus, SumOf, MapThenSumSet, MapThenFoldSet
<1>2. /\ AmountIn(statuses) = SumOf(amount, InStatus(statuses))
      /\ IsFiniteSet(InStatus(statuses))
      /\ \A q \in Refunds : amount[q] \in Nat
  BY AmountIsSum
<1>3. /\ IsFiniteSet(others) /\ others \subseteq Refunds
      /\ r \notin others
  BY <1>2, FS_RemoveElement DEF InStatus
<1>4. InStatus(statuses) = IF refund[r] \in statuses THEN others \cup {r} ELSE others
  BY DEF InStatus
<1>5. InStatus(statuses)' = IF new \in statuses THEN others \cup {r} ELSE others
  BY DEF InStatus, TypeOK
<1> HIDE DEF others
<1>6. rest \in Nat
  BY <1>2, <1>3, SumIsNat
<1>7. SumOf(amount, others \cup {r}) = amount[r] + rest
  <2>1. \A y \in others \cup {r} : amount[y] \in Int
    BY <1>2, <1>3
  <2>2. QED
    BY <1>3, <2>1, SumAdd
<1> HIDE DEF rest
<1>8. SumOf(amount, others) = rest
  BY DEF rest
<1>9. AmountIn(statuses) = IF refund[r] \in statuses THEN amount[r] + rest ELSE rest
  BY <1>2, <1>4, <1>7, <1>8
<1>10. AmountIn(statuses)' = IF new \in statuses THEN amount[r] + rest ELSE rest
  BY <1>1, <1>5, <1>7, <1>8
<1>11. amount[r] \in Nat
  BY <1>2
<1>12. QED
  BY <1>6, <1>9, <1>10, <1>11

\* So does the total.
LEMMA TotalChanges ==
    ASSUME TypeOK, NEW r \in Refunds, NEW new, UNCHANGED amount,
           refund' = [refund EXCEPT ![r] = new]
    PROVE  /\ TotalRefunded' \in Nat
           /\ TotalRefunded' + (IF refund[r] \in Counted THEN amount[r] ELSE 0)
                = TotalRefunded + (IF new \in Counted THEN amount[r] ELSE 0)
<1>1. PICK st : st = Counted
  OBVIOUS
<1>2. TotalRefunded = AmountIn(st) /\ TotalRefunded' = AmountIn(st)'
  BY <1>1 DEF TotalRefunded, Counted, AmountIn, MapThenSumSet, MapThenFoldSet
<1>3. QED
  BY <1>1, <1>2, AmountChanges

\* If no refund changes, no sum does.
LEMMA AmountStays ==
    ASSUME UNCHANGED <<refund, amount>>, NEW statuses
    PROVE  AmountIn(statuses)' = AmountIn(statuses)
BY DEF AmountIn, MapThenSumSet, MapThenFoldSet

\* What is paid and one refund more that counts are part of what is counted.
LEMMA PaidFits ==
    ASSUME TypeOK, NEW r \in Refunds, refund[r] \in Counted \ {"SUCCESS"}
    PROVE  AmountIn({"SUCCESS"}) + amount[r] <= TotalRefunded
<1>1. PICK paid : paid = InStatus({"SUCCESS"})
  OBVIOUS
<1>2. PICK counted : counted = InStatus(Counted)
  OBVIOUS
<1>3. /\ IsFiniteSet(paid) /\ IsFiniteSet(counted)
      /\ AmountIn({"SUCCESS"}) = SumOf(amount, paid)
      /\ \A q \in Refunds : amount[q] \in Nat
  BY <1>1, <1>2, AmountIsSum
<1>4. TotalRefunded = SumOf(amount, counted)
  BY <1>2, AmountIsSum DEF TotalRefunded
<1>5. /\ r \notin paid /\ paid \cup {r} \in SUBSET counted /\ counted \subseteq Refunds
  BY <1>1, <1>2 DEF InStatus, Counted
<1>6. \A q \in paid \cup {r} : amount[q] \in Int
  BY <1>3, <1>5
<1>7. SumOf(amount, paid \cup {r}) = amount[r] + SumOf(amount, paid)
  BY <1>3, <1>5, <1>6, SumAdd
<1>8. SumOf(amount, paid \cup {r}) <= SumOf(amount, counted)
  BY <1>3, <1>5, SumOfFewer
<1>9. SumOf(amount, paid) \in Nat /\ amount[r] \in Nat
  BY <1>3, <1>5, SumIsNat
<1>10. QED
  BY <1>3, <1>4, <1>7, <1>8, <1>9

-----------------------------------------------------------------------------
(* What a step does to the money.                                           *)

Pending == {"CREATED", "PROCESSING"}

Becomes(r, status) ==
    /\ refund[r] \in Pending /\ refund' = [refund EXCEPT ![r] = status]
    /\ UNCHANGED <<creator, amount>>

\* Worker w pays its refund r, and the payment shows it.
PaidBy(w, r) ==
    /\ pc[w] \in Summed /\ R(w) = r /\ Goto(w, "finally")
    /\ Becomes(r, "SUCCESS")
    /\ credits' = [credits EXCEPT ![r] = @ + 1]
    /\ payment' = IF pc[w] = "fully" THEN "FULLY_REFUNDED" ELSE "PARTIALLY_REFUNDED"

Paid(r) == \E w \in Workers : PaidBy(w, r)

Quiet == UNCHANGED <<refund, amount, credits, payment>>

\* Every step is quiet, or inserts, processes, fails or pays one refund.
LEMMA MoneyMoves ==
    ASSUME TypeOK, TaskInv, TaskAfterRequest, MaxDuplicates = 0, [Next]_vars
    PROVE  \/ Quiet
           \/ \E r \in Refunds : InsertRefund(r)
           \/ /\ UNCHANGED <<credits, payment>>
              /\ \E r \in Refunds, x \in {"PROCESSING", "FAILED"} : Becomes(r, x)
           \/ \E r \in Refunds : Paid(r)
<1>1. ASSUME NEW w \in Workers, pc[w] \in {"raised"} \cup Tried
      PROVE  /\ R(w) \in Refunds
             /\ refund[R(w)] \in Pending \/ (pc[w] = "raised" /\ refund[R(w)] = "FAILED")
  <2>1. R(w) \in Refunds /\ refund[R(w)] # "NONE"
    BY <1>1, TaskIsRequested DEF Tried, Summed
  <2>2. /\ pc[w] # "raised" => refund[R(w)] \notin Terminal
        /\ pc[w] = "raised" => refund[R(w)] # "SUCCESS"
    BY <1>1 DEF TaskInv, PhaseOK, AtWork, Tried
  <2>3. QED
    BY <2>1, <2>2 DEF TypeOK, Terminal, Pending
<1>2. ASSUME NEW w \in Workers, TaskStep(w)
      PROVE  \/ Quiet
             \/ /\ UNCHANGED <<credits, payment>>
                /\ \E r \in Refunds, x \in {"PROCESSING", "FAILED"} : Becomes(r, x)
             \/ \E r \in Refunds : Paid(r)
  <2>1. ASSUME NEW x \in {"PROCESSING", "FAILED"}, pc[w] \in Tried,
               SetRefund(w, x), UNCHANGED <<creator, amount, credits, payment>>
        PROVE  \E r \in Refunds, y \in {"PROCESSING", "FAILED"} : Becomes(r, y)
    <3>1. R(w) \in Refunds /\ refund[R(w)] \in Pending
      BY <1>1, <2>1 DEF Tried, Summed
    <3>2. Becomes(R(w), x)
      BY <2>1, <3>1 DEF SetRefund, Becomes
    <3>3. QED
      BY <3>1, <3>2
  <2>2. CASE MarkProcessing(w) \/ Decline(w)
    <3>1. pc[w] \in Tried /\ UNCHANGED <<creator, amount, credits, payment>>
      BY <2>2 DEF MarkProcessing, Decline, At, Tried, created
    <3>2. SetRefund(w, "PROCESSING") \/ SetRefund(w, "FAILED")
      BY <2>2 DEF MarkProcessing, Decline
    <3>3. QED
      BY <2>1, <3>1, <3>2
  <2>3. CASE Raises(w)
    <3>1. pc[w] \in Tried /\ UNCHANGED <<creator, amount, credits, payment>>
      BY <2>3 DEF Raises, created
    <3>2. UNCHANGED refund \/ SetRefund(w, "PROCESSING") \/ SetRefund(w, "FAILED")
      BY <2>3 DEF Raises
    <3>3. QED
      BY <2>1, <3>1, <3>2 DEF Quiet
  <2>4. CASE FailFinally(w)
    <3>1. /\ refund' = [refund EXCEPT ![R(w)] = "FAILED"]
          /\ UNCHANGED <<creator, amount, credits, payment>> /\ pc[w] = "raised"
      BY <2>4 DEF FailFinally, SetRefund, At, created
    <3>2. CASE refund[R(w)] \in Pending
      <4>1. Becomes(R(w), "FAILED")
        BY <3>1, <3>2 DEF Becomes
      <4>2. QED
        BY <1>1, <3>1, <4>1
    <3>3. CASE refund[R(w)] = "FAILED"
      <4>1. refund' = refund
        BY <3>1, <3>3 DEF TypeOK
      <4>2. QED
        BY <3>1, <4>1 DEF Quiet
    <3>4. QED
      BY <1>1, <3>1, <3>2, <3>3
  <2>5. CASE Settle(w)
    <3>1. pc[w] \in Summed
      BY <2>5 DEF Settle
    <3>2. R(w) \in Refunds /\ refund[R(w)] \in Pending
      BY <1>1, <3>1 DEF Tried, Summed
    <3>3. PaidBy(w, R(w))
      BY <2>5, <3>1, <3>2 DEF Settle, At, SetRefund, Becomes, PaidBy, created, faults
    <3>4. QED
      BY <3>2, <3>3 DEF Paid
  <2>6. QED
    BY <1>2, <2>2, <2>3, <2>4, <2>5
       DEF TaskStep, WorkStep, Take, AcquireLock, LockBusy, GatewayRefunds, GatewayDeclines,
           SumRefunds, Retry, RecordDLQ, Unlock, outcome, created, Quiet
<1>3. ASSUME NEW r \in Refunds, CreateStep(r) \/ DispatchFails(r)
      PROVE  Quiet \/ InsertRefund(r)
  BY <1>3 DEF CreateStep, Call, ReadPayment, CheckAmount, RefuseRefund, Dispatch, DispatchFails,
              CreatorAt, Quiet
<1>4. \A r \in Refunds : ~Reconcile(r)
  BY DEF Reconcile
<1>5. QED
  BY <1>2, <1>3, <1>4
     DEF Next, Terminated, TaskFails, RedisFails, HandlerFails, TaskDies, Expire, vars, created,
         outcome, Quiet
-----------------------------------------------------------------------------
(* Never more than the payment.                                             *)

\* A call begins only when no other is under way.
LEMMA CallIsAlone ==
    ASSUME MaxCreators <= 1, NEW r \in Refunds, Call(r)
    PROVE  \A q \in Refunds : creator[q] \in {"idle", "done"}
<1> DEFINE under == {q \in Refunds : creator[q] \notin {"idle", "done"}}
<1>1. IsFiniteSet(under)
  BY RefundsAssumption, FS_Subset
<1>2. Cardinality(under) \in Nat
  BY <1>1, FS_CardinalityType
<1>3. Cardinality(under) < MaxCreators /\ MaxCreators \in Nat
  BY RefundsAssumption DEF Call
<1>4. Cardinality(under) = 0
  <2> HIDE DEF under
  <2>1. QED
    BY <1>2, <1>3
<1>5. under = {}
  BY <1>1, <1>4, FS_EmptySet
<1>6. QED
  BY <1>5

\* Every step keeps the total below the payment.
LEMMA StepTotal ==
    ASSUME MaxCreators <= 1, MaxDuplicates = 0, TypeOK, TaskInv, TaskAfterRequest, TotalInv,
           [Next]_vars
    PROVE  TotalInv'
<1>0. TotalRefunded \in Nat /\ PaymentAmount \in Nat /\ \A r \in Refunds : amount[r] \in Nat
  BY AmountIsSum, RefundsAssumption DEF TotalRefunded
<1>1. CASE \E r \in Refunds : InsertRefund(r)
  <2>1. PICK r \in Refunds : InsertRefund(r)
    BY <1>1
  <2>2. /\ creator[r] = "insert" /\ creator' = [creator EXCEPT ![r] = "dispatch"]
        /\ refund' = [refund EXCEPT ![r] = "CREATED"] /\ UNCHANGED amount
        /\ refund[r] = "NONE"
    BY <2>1 DEF InsertRefund, CreatorAt, TaskAfterRequest
  <2>3. amount[r] <= PaymentAmount - TotalRefunded
    BY <2>2 DEF TotalInv, Fits
  <2>4. TotalRefunded' = TotalRefunded + amount[r]
    <3>1. TotalRefunded' + 0 = TotalRefunded + amount[r]
      BY <2>2, TotalChanges DEF Counted
    <3>2. TotalRefunded' \in Nat
      BY <2>2, TotalChanges DEF Counted
    <3>3. QED
      BY <3>1, <3>2
  <2>5. NeverOverRefunded'
    BY <1>0, <2>3, <2>4 DEF NeverOverRefunded
  <2>6. /\ \A q, t \in Refunds : UnderWay(q)' /\ UnderWay(t)' => q = t
        /\ \A q \in Refunds : creator'[q] # "insert"
    BY <2>2 DEF TotalInv, TypeOK, UnderWay
  <2>7. QED
    BY <2>5, <2>6 DEF TotalInv
<1>2. CASE \E r \in Refunds, x \in {"PROCESSING", "FAILED", "SUCCESS"} : Becomes(r, x)
  <2>1. PICK r \in Refunds, x \in {"PROCESSING", "FAILED", "SUCCESS"} : Becomes(r, x)
    BY <1>2
  <2>2. /\ TotalRefunded' \in Nat
        /\ TotalRefunded' + (IF refund[r] \in Counted THEN amount[r] ELSE 0)
              = TotalRefunded + (IF x \in Counted THEN amount[r] ELSE 0)
    <3>1. UNCHANGED amount /\ refund' = [refund EXCEPT ![r] = x]
      BY <2>1 DEF Becomes
    <3>2. QED
      BY <3>1, TotalChanges
  <2>3. refund[r] \in Counted
    BY <2>1 DEF Becomes, Pending, Counted
  <2>4. TotalRefunded' <= TotalRefunded
    <3>1. TotalRefunded' + amount[r] = TotalRefunded + (IF x \in Counted THEN amount[r] ELSE 0)
      BY <2>2, <2>3
    <3>2. TotalRefunded' + amount[r] <= TotalRefunded + amount[r]
      BY <1>0, <3>1
    <3>3. QED
      BY <1>0, <2>2, <3>2
  <2>5. NeverOverRefunded'
    BY <1>0, <2>2, <2>4 DEF TotalInv, NeverOverRefunded
  <2>6. UNCHANGED <<creator, amount>>
    BY <2>1 DEF Becomes
  <2>7. \A q \in Refunds : creator[q] = "insert" => amount[q] <= PaymentAmount - TotalRefunded'
    BY <1>0, <2>2, <2>4 DEF TotalInv, Fits
  <2>8. QED
    BY <2>5, <2>6, <2>7 DEF TotalInv, Fits, UnderWay
<1>3. CASE Quiet
  <2>1. TotalRefunded' = TotalRefunded
    BY <1>3, AmountStays DEF Quiet, TotalRefunded, Counted
  <2>2. ASSUME NEW r \in Refunds, creator'[r] = "insert" PROVE Fits(r)
    <3>1. CASE creator[r] = "insert"
      BY <3>1 DEF TotalInv
    <3>2. CASE creator[r] # "insert"
      <4>1. CheckAmount(r)
        <5>1. \A w \in Workers : TaskStep(w) \/ TaskFails(w) => UNCHANGED creator
          BY TaskStepRefund
        <5>2. ASSUME NEW q \in Refunds, CreateStep(q) \/ DispatchFails(q) \/ Reconcile(q)
              PROVE  CheckAmount(r)
          BY <2>2, <3>2, <5>2
             DEF CreateStep, Call, ReadPayment, CheckAmount, RefuseRefund, InsertRefund,
                 Dispatch, DispatchFails, Reconcile, CreatorAt, created, TypeOK
        <5>3. QED
          BY <2>2, <3>2, <5>1, <5>2 DEF Next, Terminated, Expire, vars, created
      <4>2. QED
        BY <4>1 DEF CheckAmount
    <3>3. QED
      BY <3>1, <3>2
  <2>3. \A r \in Refunds : creator'[r] = "insert" => Fits(r)'
    <3>1. ASSUME NEW r \in Refunds, creator'[r] = "insert"
          PROVE  amount'[r] > 0 /\ amount'[r] <= PaymentAmount - TotalRefunded'
      BY <1>3, <2>1, <2>2, <3>1 DEF Quiet, Fits
    <3>2. QED
      BY <3>1 DEF Fits
  <2>4. \A q, t \in Refunds : UnderWay(q)' /\ UnderWay(t)' => q = t
    <3>1. ASSUME NEW r \in Refunds, Call(r) PROVE \A q, t \in Refunds : UnderWay(q)' /\ UnderWay(t)' => q = t
      BY <3>1, CallIsAlone DEF Call, CreatorAt, TypeOK, UnderWay
    <3>2. ASSUME NEW r \in Refunds,
                 ReadPayment(r) \/ CheckAmount(r) \/ RefuseRefund(r) \/ InsertRefund(r)
                   \/ Dispatch(r) \/ DispatchFails(r)
          PROVE  \A q, t \in Refunds : UnderWay(q)' /\ UnderWay(t)' => q = t
      <4>1. creator[r] \notin {"idle", "done"} /\ \A q \in Refunds \ {r} : creator'[q] = creator[q]
        BY <3>2 DEF ReadPayment, CheckAmount, RefuseRefund, InsertRefund, Dispatch, DispatchFails,
                    CreatorAt, TypeOK
      <4>2. QED
        BY <4>1 DEF TotalInv, UnderWay
    <3>3. CASE UNCHANGED creator
      BY <3>3 DEF TotalInv, UnderWay
    <3>4. \A w \in Workers : TaskStep(w) \/ TaskFails(w) => UNCHANGED creator
      BY TaskStepRefund
    <3>5. QED
      BY <3>1, <3>2, <3>3, <3>4
         DEF Next, CreateStep, Reconcile, Terminated, Expire, vars, created
  <2>5. NeverOverRefunded'
    BY <2>1 DEF TotalInv, NeverOverRefunded
  <2>6. QED
    BY <2>3, <2>4, <2>5 DEF TotalInv
<1>4. QED
  BY <1>1, <1>2, <1>3, MoneyMoves DEF Paid, PaidBy

\* With one request at a time and no duplicates, TotalInv is inductive.
LEMMA InductiveTotal ==
    ASSUME MaxCreators <= 1, MaxDuplicates = 0
    PROVE  Spec => [](TypeOK /\ TaskInv /\ TaskAfterRequest /\ TotalInv)
<1>1. Init => TotalInv
  <2> SUFFICES ASSUME Init PROVE TotalInv
    OBVIOUS
  <2>1. InStatus(Counted) = {}
    BY DEF Init, InStatus, Counted
  <2>2. TotalRefunded = 0
    BY <2>1, InitLock, AmountIsSum, SumEmpty DEF TotalRefunded
  <2>3. QED
    BY <2>2, RefundsAssumption DEF Init, TotalInv, NeverOverRefunded, UnderWay
<1>2. TypeOK /\ TaskInv /\ TaskAfterRequest /\ TotalInv /\ [Next]_vars => TotalInv'
  BY StepTotal
<1>3. QED
  BY InductiveTask, InductiveRequest, <1>1, <1>2, PTL DEF Spec

\* One request at a time, and nothing sent twice: the refunds that are paid or
\* may be paid never add up to more than the payment.
THEOREM NeverTooMuch ==
    ASSUME MaxCreators <= 1, MaxDuplicates = 0 PROVE Spec => []NeverOverRefunded
BY InductiveTotal, PTL DEF TotalInv
-----------------------------------------------------------------------------
(* The status of the payment.                                               *)

\* A refund that is not SUCCESS before or after a step adds nothing to what is paid.
LEMMA PaidStays ==
    ASSUME TypeOK, NEW r \in Refunds, NEW new, UNCHANGED amount,
           refund' = [refund EXCEPT ![r] = new], refund[r] # "SUCCESS", new # "SUCCESS"
    PROVE  AmountIn({"SUCCESS"})' = AmountIn({"SUCCESS"})
<1>1. PICK st : st = {"SUCCESS"}
  OBVIOUS
<1>2. /\ AmountIn(st)' \in Nat
      /\ AmountIn(st)' + (IF refund[r] \in st THEN amount[r] ELSE 0)
           = AmountIn(st) + (IF new \in st THEN amount[r] ELSE 0)
  BY AmountChanges
<1>3. AmountIn(st)' + 0 = AmountIn(st) + 0
  BY <1>1, <1>2
<1>4. AmountIn(st) \in Nat
  BY AmountIsSum
<1>5. AmountIn(st)' = AmountIn(st)
  BY <1>2, <1>3, <1>4
<1>6. QED
  BY <1>1, <1>5

\* A worker that found something left, and whose lock is good, still finds it
\* when it commits: only the holder of the lock pays.
PartlyInv ==
    \A w \in Workers :
        slow = 0 /\ pc[w] = "partly" => AmountIn({"SUCCESS"}) + amount[R(w)] < PaymentAmount

\* What a worker finds, when it adds up, is the total of the refunds.
LEMMA SeenIsTotal ==
    ASSUME TypeOK, TaskInv, TaskAfterRequest, NEW w \in Workers, SumRefunds(w)
    PROVE  /\ R(w) \in Refunds /\ refund[R(w)] \in Pending
           /\ pc' = [pc EXCEPT ![w] = IF TotalRefunded >= PaymentAmount THEN "fully" ELSE "partly"]
           /\ UNCHANGED <<job, amount, refund>>
<1> DEFINE seen == {r \in Refunds : r = R(w) \/ refund[r] \in Counted}
<1>1. pc[w] = "settle" /\ UNCHANGED <<job, amount, refund>>
  BY DEF SumRefunds, At, created, outcome
<1>2. R(w) \in Refunds /\ refund[R(w)] \in Pending
  <2>1. R(w) \in Refunds /\ refund[R(w)] # "NONE" /\ refund[R(w)] \notin Terminal
    BY <1>1, TaskIsRequested DEF TaskInv, PhaseOK, AtWork
  <2>2. QED
    BY <2>1 DEF TypeOK, Terminal, Pending
<1>3. pc' = [pc EXCEPT ![w] = IF SumOf(amount, seen) >= PaymentAmount THEN "fully" ELSE "partly"]
  BY DEF SumRefunds, Goto, SumOf, MapThenSumSet, MapThenFoldSet
<1>4. seen = InStatus(Counted)
  BY <1>2 DEF InStatus, Counted, Pending
<1>5. TotalRefunded = SumOf(amount, InStatus(Counted))
  BY AmountIsSum DEF TotalRefunded
<1>6. QED
  BY <1>1, <1>2, <1>3, <1>4, <1>5

\* Who is at "partly" was there before, or has just added up.
LEMMA PartlyComes ==
    ASSUME TypeOK, [Next]_vars, NEW w \in Workers, pc'[w] = "partly"
    PROVE  (pc[w] = "partly" /\ job'[w] = job[w]) \/ SumRefunds(w)
<1>1. ASSUME NEW r \in Refunds, CreateStep(r) \/ DispatchFails(r) \/ Reconcile(r)
      PROVE  UNCHANGED <<job, pc>>
  BY <1>1 DEF CreateStep, Call, ReadPayment, CheckAmount, RefuseRefund, InsertRefund, Dispatch,
              DispatchFails, Reconcile, CreatorAt, worker
<1>2. ASSUME NEW v \in Workers, TaskStep(v) \/ TaskFails(v), v # w
      PROVE  pc'[w] = pc[w] /\ job'[w] = job[w]
  BY <1>2 DEF TaskStep, WorkStep, TaskFails, Take, AcquireLock, LockBusy, MarkProcessing,
         GatewayRefunds, GatewayDeclines, SumRefunds, Settle, Decline, Raises, Retry, FailFinally,
         RecordDLQ, Unlock, RedisFails, HandlerFails, TaskDies, Idle, Goto, TypeOK
<1>3. ASSUME TaskStep(w) \/ TaskFails(w), ~SumRefunds(w)
      PROVE  UNCHANGED <<job, pc>>
  <2>1. ASSUME NEW x \in {"idle", "lock", "mark", "call", "settle", "decline", "raised", "dlq",
                          "finally"},
               pc' = [pc EXCEPT ![w] = x]
        PROVE  FALSE
    BY <2>1 DEF TypeOK
  <2>2. QED
    BY <1>3, <2>1
       DEF TaskStep, WorkStep, TaskFails, Take, AcquireLock, LockBusy, MarkProcessing,
           GatewayRefunds, GatewayDeclines, Settle, Decline, Raises, Retry, FailFinally,
           RecordDLQ, Unlock, RedisFails, HandlerFails, TaskDies, Idle, Goto
<1>4. CASE Expire \/ UNCHANGED vars
  BY <1>4 DEF Expire, vars, worker
<1>5. QED
  BY <1>1, <1>2, <1>3, <1>4 DEF Next, Terminated

\* Locks that have expired stay so.
LEMMA SlowStays == ASSUME TypeOK, [Next]_vars PROVE slow' = 0 => slow = 0
<1>1. slow \in Nat
  BY RefundsAssumption DEF TypeOK
<1>2. slow' = slow \/ slow' = slow + 1
  BY DEF Next, CreateStep, Call, ReadPayment, CheckAmount, RefuseRefund, InsertRefund, Dispatch,
         DispatchFails, Reconcile, CreatorAt, TaskStep, WorkStep, TaskFails, Take, AcquireLock,
         LockBusy, MarkProcessing, GatewayRefunds, GatewayDeclines, SumRefunds, Settle, Decline,
         Raises, Retry, FailFinally, RecordDLQ, Unlock, RedisFails, HandlerFails, TaskDies,
         Expire, Terminated, faults, vars
<1>3. QED
  BY <1>1, <1>2

\* Every step keeps what a worker found true, as long as the lock is good.
LEMMA StepPartly ==
    ASSUME MaxDuplicates = 0, TypeOK, LockInv, TaskInv, TaskAfterRequest, PartlyInv, [Next]_vars
    PROVE  PartlyInv'
<1> SUFFICES ASSUME NEW w \in Workers, slow' = 0, pc'[w] = "partly"
             PROVE  AmountIn({"SUCCESS"})' + amount'[R(w)'] < PaymentAmount
  BY DEF PartlyInv
<1>1. slow = 0
  BY SlowStays
<1>2. CASE pc[w] = "partly" /\ job'[w] = job[w]
  <2>1. R(w)' = R(w) /\ Inside(w) /\ AmountIn({"SUCCESS"}) + amount[R(w)] < PaymentAmount
    BY <1>1, <1>2 DEF PartlyInv, R, Inside, Summed
  <2>2. ASSUME NEW r \in Refunds, Paid(r) PROVE FALSE
    <3>1. PICK v \in Workers : pc[v] \in Summed /\ Goto(v, "finally")
      BY <2>2 DEF Paid, PaidBy
    <3>2. v = w
      BY <1>1, <2>1, <3>1 DEF LockInv, Inside
    <3>3. QED
      BY <3>1, <3>2 DEF Goto, TypeOK
  <2>3. AmountIn({"SUCCESS"})' = AmountIn({"SUCCESS"}) /\ UNCHANGED amount
    <3>1. CASE Quiet
      BY <3>1, AmountStays DEF Quiet
    <3>2. CASE \E r \in Refunds : InsertRefund(r)
      BY <3>2, PaidStays DEF InsertRefund, CreatorAt, TaskAfterRequest
    <3>3. CASE \E r \in Refunds, x \in {"PROCESSING", "FAILED"} : Becomes(r, x)
      BY <3>3, PaidStays DEF Becomes, Pending
    <3>4. QED
      BY <2>2, <3>1, <3>2, <3>3, MoneyMoves
  <2>4. QED
    BY <2>1, <2>3
<1>3. CASE SumRefunds(w)
  <2>1. /\ R(w) \in Refunds /\ refund[R(w)] \in Pending
        /\ pc' = [pc EXCEPT ![w] = IF TotalRefunded >= PaymentAmount THEN "fully" ELSE "partly"]
        /\ UNCHANGED <<job, amount, refund>>
    BY <1>3, SeenIsTotal
  <2>2. ~(TotalRefunded >= PaymentAmount)
    BY <2>1 DEF TypeOK
  <2>3. AmountIn({"SUCCESS"}) + amount[R(w)] <= TotalRefunded
    BY <2>1, PaidFits DEF Pending, Counted
  <2>4. /\ AmountIn({"SUCCESS"}) \in Nat /\ TotalRefunded \in Nat /\ PaymentAmount \in Nat
        /\ amount[R(w)] \in Nat
    BY <2>1, AmountIsSum, RefundsAssumption DEF TotalRefunded
  <2>5. AmountIn({"SUCCESS"})' = AmountIn({"SUCCESS"}) /\ R(w)' = R(w)
    BY <2>1, AmountStays DEF R
  <2>6. QED
    BY <2>1, <2>2, <2>3, <2>4, <2>5
<1>4. QED
  BY <1>2, <1>3, PartlyComes

\* Every step keeps the status of the payment in line with its refunds.
LEMMA StepShows ==
    ASSUME MaxDuplicates = 0, TypeOK, TaskInv, TaskAfterRequest, PartlyInv, PaymentShowsRefunds,
           [Next]_vars
    PROVE  PaymentShowsRefunds'
<1>0. slow' = 0 => slow = 0
  BY SlowStays
<1>1. CASE Quiet
  <2>1. AmountIn({"SUCCESS"})' = AmountIn({"SUCCESS"})
    BY <1>1, AmountStays DEF Quiet
  <2>2. QED
    BY <1>0, <1>1, <2>1 DEF Quiet, PaymentShowsRefunds
<1>2. ASSUME NEW r \in Refunds, NEW x \in {"CREATED", "PROCESSING", "FAILED"},
             UNCHANGED <<amount, payment>>, refund' = [refund EXCEPT ![r] = x],
             refund[r] # "SUCCESS"
      PROVE  PaymentShowsRefunds'
  <2>1. AmountIn({"SUCCESS"})' = AmountIn({"SUCCESS"})
    BY <1>2, PaidStays
  <2>2. \A q \in Refunds : refund'[q] = "SUCCESS" <=> refund[q] = "SUCCESS"
    BY <1>2 DEF TypeOK
  <2>3. QED
    BY <1>0, <1>2, <2>1, <2>2 DEF PaymentShowsRefunds
<1>3. CASE \E r \in Refunds : InsertRefund(r)
  <2>1. PICK r \in Refunds : InsertRefund(r)
    BY <1>3
  <2>2. /\ refund[r] = "NONE" /\ refund' = [refund EXCEPT ![r] = "CREATED"]
        /\ UNCHANGED <<amount, payment>>
    BY <2>1 DEF InsertRefund, CreatorAt, TaskAfterRequest
  <2>3. QED
    BY <1>2, <2>2
<1>4. CASE /\ UNCHANGED <<credits, payment>>
           /\ \E r \in Refunds, x \in {"PROCESSING", "FAILED"} : Becomes(r, x)
  <2>1. PICK r \in Refunds, x \in {"PROCESSING", "FAILED"} : Becomes(r, x)
    BY <1>4
  <2>2. refund[r] # "SUCCESS" /\ refund' = [refund EXCEPT ![r] = x] /\ UNCHANGED amount
    BY <2>1 DEF Becomes, Pending
  <2>3. QED
    BY <1>2, <1>4, <2>2
<1>5. CASE \E r \in Refunds : Paid(r)
  <2>1. PICK r \in Refunds, w \in Workers : PaidBy(w, r)
    BY <1>5 DEF Paid
  <2>2. /\ refund' = [refund EXCEPT ![r] = "SUCCESS"] /\ UNCHANGED amount
        /\ payment' = IF pc[w] = "fully" THEN "FULLY_REFUNDED" ELSE "PARTIALLY_REFUNDED"
        /\ refund[r] \in Pending /\ pc[w] \in Summed /\ R(w) = r
    BY <2>1 DEF PaidBy, Becomes
  <2>3. AmountIn({"SUCCESS"})' = AmountIn({"SUCCESS"}) + amount[r]
    <3>1. PICK st : st = {"SUCCESS"}
      OBVIOUS
    <3>2. /\ AmountIn(st)' \in Nat
          /\ AmountIn(st)' + (IF refund[r] \in st THEN amount[r] ELSE 0)
               = AmountIn(st) + (IF "SUCCESS" \in st THEN amount[r] ELSE 0)
      BY <2>2, AmountChanges
    <3>3. AmountIn(st) \in Nat /\ amount[r] \in Nat
      BY AmountIsSum
    <3>4. AmountIn(st)' + 0 = AmountIn(st) + amount[r]
      BY <2>2, <3>1, <3>2 DEF Pending
    <3>5. AmountIn(st)' = AmountIn(st) + amount[r]
      BY <3>2, <3>3, <3>4
    <3>6. QED
      BY <3>1, <3>5
  <2>4. slow' = 0 /\ payment' = "PARTIALLY_REFUNDED" => AmountIn({"SUCCESS"})' < PaymentAmount
    <3>1. ASSUME slow' = 0, payment' = "PARTIALLY_REFUNDED"
          PROVE  AmountIn({"SUCCESS"}) + amount[r] < PaymentAmount
      <4>1. pc[w] = "partly" /\ slow = 0
        BY <1>0, <2>2, <3>1 DEF Summed
      <4>2. QED
        BY <2>2, <4>1 DEF PartlyInv
    <3>2. QED
      BY <2>3, <3>1
  <2>5. refund'[r] = "SUCCESS" /\ payment' # "CAPTURED"
    BY <2>2 DEF TypeOK
  <2>6. QED
    BY <2>4, <2>5 DEF PaymentShowsRefunds
<1>6. QED
  BY <1>1, <1>3, <1>4, <1>5, MoneyMoves

\* Nothing sent twice: the payment is CAPTURED until a refund succeeds, and,
\* as long as no lock expires under its holder, it is PARTIALLY_REFUNDED only
\* while some of it is left.  The sum is read in one step of the transaction,
\* the status saved and committed in another: what another refund does between
\* the two would be overwritten, and it is the lock that keeps it out.
THEOREM PaymentShowsItsRefunds ==
    ASSUME MaxDuplicates = 0 PROVE Spec => []PaymentShowsRefunds
<1>1. Init => PartlyInv /\ PaymentShowsRefunds
  BY DEF Init, PartlyInv, PaymentShowsRefunds
<1>2. TypeOK /\ LockInv /\ TaskInv /\ TaskAfterRequest /\ PartlyInv /\ PaymentShowsRefunds
         /\ [Next]_vars
         => PartlyInv' /\ PaymentShowsRefunds'
  BY StepPartly, StepShows
<1>3. QED
  BY InductiveLock, InductiveTask, InductiveRequest, <1>1, <1>2, PTL DEF Spec
-----------------------------------------------------------------------------
(* The engine implements RefundPromise.                                     *)

\* What RefundPromise sees of a refund.
Shown(status) == CASE status = "NONE"    -> "none"
                   [] status = "SUCCESS" -> "paid"
                   [] status = "FAILED"  -> "failed"
                   [] OTHER              -> "open"
ShownRefunds == [r \in Refunds |-> Shown(refund[r])]

\* A refund that changes, changes there.
LEMMA ShownChanges ==
    ASSUME TypeOK, NEW r \in Refunds, NEW new, refund' = [refund EXCEPT ![r] = new]
    PROVE  ShownRefunds' = [ShownRefunds EXCEPT ![r] = Shown(new)]
<1>1. \A q \in Refunds : refund'[q] = IF q = r THEN new ELSE refund[q]
  BY DEF TypeOK
<1>2. ShownRefunds' = [q \in Refunds |-> Shown(IF q = r THEN new ELSE refund[q])]
  BY <1>1 DEF ShownRefunds, Shown
<1>3. \A q \in Refunds : Shown(IF q = r THEN new ELSE refund[q])
                           = IF q = r THEN Shown(new) ELSE Shown(refund[q])
  BY Zenon
<1>4. QED
  BY <1>2, <1>3 DEF ShownRefunds

\* What is reserved there is what the engine counts.
LEMMA ReservedIsTotal == ASSUME TypeOK PROVE Promise!Reserved = TotalRefunded
<1> DEFINE state == [r \in Refunds |->
                       CASE refund[r] = "NONE"    -> "none"
                         [] refund[r] = "SUCCESS" -> "paid"
                         [] refund[r] = "FAILED"  -> "failed"
                         [] OTHER                 -> "open"]
           reserved == {r \in Refunds : state[r] \in {"open", "paid"}}
<1>1. reserved = InStatus(Counted)
  BY DEF InStatus, Counted, TypeOK
<1>2. Promise!Reserved = SumOf(amount, reserved)
  BY DEF Promise!Reserved, SumOf, MapThenSumSet, MapThenFoldSet,
         Promise!MapThenSumSet, Promise!MapThenFoldSet
<1>3. QED
  BY <1>1, <1>2, AmountIsSum DEF TotalRefunded

\* Every step accepts, pays or fails one refund, or changes nothing there.
LEMMA StepPromise ==
    ASSUME MaxDuplicates = 0, TypeOK, TaskInv, TaskAfterRequest, TotalInv, [Next]_vars
    PROVE  [Promise!Next]_<<amount, ShownRefunds, credits>>
<1>1. CASE Quiet
  BY <1>1 DEF Quiet, ShownRefunds
<1>2. CASE \E r \in Refunds : InsertRefund(r)
  <2>1. PICK r \in Refunds : InsertRefund(r)
    BY <1>2
  <2>2. /\ creator[r] = "insert" /\ refund[r] = "NONE"
        /\ refund' = [refund EXCEPT ![r] = "CREATED"] /\ UNCHANGED <<amount, credits>>
    BY <2>1 DEF InsertRefund, CreatorAt, TaskAfterRequest
  <2>3. amount[r] > 0 /\ amount[r] <= PaymentAmount - TotalRefunded
    BY <2>2 DEF TotalInv, Fits
  <2>4. amount[r] > 0 /\ Promise!Reserved + amount[r] <= PaymentAmount
    <3>1. /\ TotalRefunded \in Nat /\ amount[r] \in Nat /\ PaymentAmount \in Nat
      BY AmountIsSum, RefundsAssumption DEF TotalRefunded
    <3>2. QED
      BY <2>3, <3>1, ReservedIsTotal
  <2>5. ShownRefunds' = [ShownRefunds EXCEPT ![r] = "open"] /\ ShownRefunds[r] = "none"
    <3>1. Shown("CREATED") = "open" /\ Shown("NONE") = "none"
      BY DEF Shown
    <3>2. ShownRefunds[r] = Shown("NONE")
      BY <2>2 DEF ShownRefunds
    <3>3. QED
      BY <2>2, <3>1, <3>2, ShownChanges
  <2>6. Promise!Accept(r)
    BY <2>2, <2>4, <2>5 DEF Promise!Accept, ShownRefunds, Shown
  <2>7. QED
    BY <2>6 DEF Promise!Next
<1>3. CASE /\ UNCHANGED <<credits, payment>>
           /\ \E r \in Refunds, x \in {"PROCESSING", "FAILED"} : Becomes(r, x)
  <2>1. PICK r \in Refunds, x \in {"PROCESSING", "FAILED"} : Becomes(r, x)
    BY <1>3
  <2>2. refund[r] \in Pending /\ refund' = [refund EXCEPT ![r] = x] /\ UNCHANGED amount
    BY <2>1 DEF Becomes
  <2>3. ShownRefunds[r] = "open" /\ ShownRefunds' = [ShownRefunds EXCEPT ![r] = Shown(x)]
    <3>1. ShownRefunds[r] = "open"
      BY <2>2 DEF ShownRefunds, Shown, Pending
    <3>2. QED
      BY <2>2, <3>1, ShownChanges
  <2>4. CASE x = "PROCESSING"
    <3>1. Shown(x) = "open"
      BY <2>4 DEF Shown
    <3>2. ShownRefunds = [q \in Refunds |-> ShownRefunds[q]]
      BY DEF ShownRefunds
    <3>3. ShownRefunds' = ShownRefunds
      BY <2>3, <3>1, <3>2
    <3>4. QED
      BY <1>3, <2>2, <3>3
  <2>5. CASE x = "FAILED"
    <3>1. Shown(x) = "failed"
      BY <2>5 DEF Shown
    <3>2. Promise!Fail(r)
      BY <1>3, <2>2, <2>3, <3>1 DEF Promise!Fail, ShownRefunds, Shown
    <3>3. QED
      BY <3>2 DEF Promise!Next
  <2>6. QED
    BY <2>4, <2>5
<1>4. CASE \E r \in Refunds : Paid(r)
  <2>1. PICK r \in Refunds : Paid(r)
    BY <1>4
  <2>2. /\ refund[r] \in Pending /\ refund' = [refund EXCEPT ![r] = "SUCCESS"]
        /\ credits' = [credits EXCEPT ![r] = @ + 1] /\ UNCHANGED amount
    BY <2>1 DEF Paid, PaidBy, Becomes
  <2>3. ShownRefunds[r] = "open" /\ ShownRefunds' = [ShownRefunds EXCEPT ![r] = "paid"]
    <3>1. ShownRefunds[r] = "open" /\ Shown("SUCCESS") = "paid"
      BY <2>2 DEF ShownRefunds, Shown, Pending
    <3>2. QED
      BY <2>2, <3>1, ShownChanges
  <2>4. Promise!Pay(r)
    BY <2>2, <2>3 DEF Promise!Pay, ShownRefunds, Shown
  <2>5. QED
    BY <2>4 DEF Promise!Next
<1>5. QED
  BY <1>1, <1>2, <1>3, <1>4, MoneyMoves

\* One request at a time, and nothing sent twice: the engine does what
\* RefundPromise promises.  A refund is accepted only into what is left of the
\* payment, and paying it is the step that returns the money.
THEOREM RefundsKeepPromise ==
    ASSUME MaxCreators <= 1, MaxDuplicates = 0 PROVE Spec => KeepsPromise
<1>1. Init => Promise!Init
  BY DEF Init, Promise!Init
<1>2. TypeOK /\ TaskInv /\ TaskAfterRequest /\ TotalInv /\ [Next]_vars
         => [Promise!Next]_<<amount, ShownRefunds, credits>>
  BY StepPromise
<1>3. QED
  BY InductiveTotal, <1>1, <1>2, PTL DEF Spec, KeepsPromise, Promise!Spec, ShownRefunds, Shown

=============================================================================

------------------------------ MODULE Refunds ------------------------------
(***************************************************************************)
(* The refunds of one captured payment (apps/refunds): the API calls that  *)
(* request them, the Celery task that processes each, and the task that    *)
(* sends PROCESSING refunds to it again.                                   *)
(*                                                                         *)
(* A request reads the payment, then the total of its refunds, then        *)
(* inserts; nothing is locked.  A worker takes the task message (which is  *)
(* acknowledged at once: a worker that dies loses it), reads the refund,   *)
(* and only then asks Redis for the lock of the payment, a key that        *)
(* vanishes after 30 seconds and that anybody may delete.  The rows that   *)
(* RefundLedger and RefundEvent gain beside a status are left out.         *)
(***************************************************************************)
EXTENDS Integers, FiniteSetsExt

CONSTANTS Refunds,          \* calls of create_refund, and their refunds
          Workers,          \* Celery worker processes
          PaymentAmount,    \* the amount of the payment
          Amounts,          \* the amounts asked for
          MaxRetries,       \* max_retries of process_refund_task
          MaxCreators,      \* calls of create_refund under way at a time
          MaxDuplicates,    \* reconcile sends no task of a refund that has so
                            \* many waiting; 0: it does not run
          MaxFailures,      \* failures: processes that die, messages that are not
                            \* sent, Redis commands that fail, statements outside
                            \* the try statement that raise
          MaxSlow,          \* locks that expire while their holder works
          NoWorker, NoJob

ASSUME RefundsAssumption ==
    /\ IsFiniteSet(Refunds) /\ Amounts \subseteq Nat /\ PaymentAmount \in Nat
    /\ MaxRetries \in Nat /\ MaxCreators \in Nat /\ MaxDuplicates \in Nat
    /\ MaxFailures \in Nat /\ MaxSlow \in Nat
    /\ NoWorker \notin Workers
    /\ NoJob \notin [refund : Refunds, retries : 0 .. MaxRetries]

VARIABLES payment,      \* the status of the payment
          refund,       \* refund[r]: the status of refund r, or "NONE"
          amount,       \* amount[r]: what it asks for
          creator,      \* creator[r]: where the call that requests it is
          queue,        \* queue[r][k]: messages for r that are retry number k
          job,          \* job[w]: the message worker w has taken
          pc,           \* pc[w]: where the worker is in the task
          lock,         \* the worker that set the lock key of the payment
          sent,         \* sent[r]: the gateway has carried out refund r
          credits,      \* credits[r]: how often r was settled (and the wallet
                        \* of a wallet payment credited)
          dlq,          \* dlq[r]: dead letter records of r
          failures, slow

created == <<creator, amount>>
worker == <<job, pc, lock>>
outcome == <<payment, refund, sent, credits, dlq>>
faults == <<failures, slow>>
vars == <<created, worker, outcome, queue, faults>>

Job == [refund : Refunds, retries : 0 .. MaxRetries]
Terminal == {"SUCCESS", "FAILED"}

\* Variant: only SUCCESS counts, not the refunds still under way.
CountedSettledOnly == {"SUCCESS"}

\* The statuses get_total_refunded_amount_for_payment adds up.
Counted == {"CREATED", "PROCESSING", "SUCCESS"}

AmountIn(statuses) ==
    MapThenSumSet(LAMBDA r : amount[r], {r \in Refunds : refund[r] \in statuses})

TotalRefunded == AmountIn(Counted)

Init == /\ payment = "CAPTURED"
        /\ refund = [r \in Refunds |-> "NONE"]
        /\ amount \in [Refunds -> Amounts]
        /\ creator = [r \in Refunds |-> "idle"]
        /\ queue = [r \in Refunds |-> [k \in 0 .. MaxRetries |-> 0]]
        /\ job = [w \in Workers |-> NoJob]
        /\ pc = [w \in Workers |-> "idle"]
        /\ lock = NoWorker
        /\ sent = [r \in Refunds |-> FALSE]
        /\ credits = [r \in Refunds |-> 0]
        /\ dlq = [r \in Refunds |-> 0]
        /\ failures = 0
        /\ slow = 0

\* Something fails that no exception handler deals with.
Fails == failures < MaxFailures /\ failures' = failures + 1

-----------------------------------------------------------------------------
(* create_refund.                                                           *)
CreatorAt(r, from, to) ==
    /\ creator[r] = from
    /\ creator' = [creator EXCEPT ![r] = to]
    /\ UNCHANGED <<amount, worker, payment, sent, credits, dlq, slow>>

Call(r) ==
    /\ Cardinality({q \in Refunds : creator[q] \notin {"idle", "done"}}) < MaxCreators
    /\ CreatorAt(r, "idle", "begin")
    /\ UNCHANGED <<refund, queue, failures>>

Refundable == {"CAPTURED", "SETTLED", "PARTIALLY_REFUNDED"}

ReadPayment(r) ==
    /\ payment \in Refundable
    /\ CreatorAt(r, "begin", "amount")
    /\ UNCHANGED <<refund, queue, failures>>

Fits(r) == amount[r] > 0 /\ amount[r] <= PaymentAmount - TotalRefunded

CheckAmount(r) ==
    /\ Fits(r)
    /\ CreatorAt(r, "amount", "insert")
    /\ UNCHANGED <<refund, queue, failures>>

\* PAYMENT_NOT_CAPTURED, INVALID_AMOUNT, REFUND_AMOUNT_EXCEEDED.
RefuseRefund(r) ==
    /\ \/ payment \notin Refundable /\ CreatorAt(r, "begin", "done")
       \/ ~Fits(r) /\ CreatorAt(r, "amount", "done")
    /\ UNCHANGED <<refund, queue, failures>>

InsertRefund(r) ==
    /\ CreatorAt(r, "insert", "dispatch")
    /\ refund' = [refund EXCEPT ![r] = "CREATED"]
    /\ UNCHANGED <<queue, failures>>

\* Variant: the view dispatches the task as well as the service.
DispatchTwice(r) ==
    /\ CreatorAt(r, "dispatch", "done")
    /\ queue' = [queue EXCEPT ![r][0] = @ + 2]
    /\ UNCHANGED <<refund, failures>>

Dispatch(r) ==
    /\ CreatorAt(r, "dispatch", "done")
    /\ queue' = [queue EXCEPT ![r][0] = @ + 1]
    /\ UNCHANGED <<refund, failures>>

\* The broker cannot be reached, the ledger entry after the insert raises, or
\* the web process dies: no task is sent.
DispatchFails(r) ==
    /\ Fails
    /\ CreatorAt(r, "dispatch", "done")
    /\ UNCHANGED <<refund, queue>>

-----------------------------------------------------------------------------
(* process_refund_task.                                                     *)
R(w) == job[w].refund
Goto(w, step) == pc' = [pc EXCEPT ![w] = step]
At(w, step) == pc[w] = step
Idle(w) == Goto(w, "idle") /\ job' = [job EXCEPT ![w] = NoJob]

\* The last transaction has added up, and found that something is left, or not.
Summed == {"partly", "fully"}

\* It has updated the row of its refund, which nobody else can update before
\* it ends.
RowIsFree(w) == \A v \in Workers \ {w} : pc[v] \in Summed => R(v) # R(w)

SetRefund(w, status) == RowIsFree(w) /\ refund' = [refund EXCEPT ![R(w)] = status]

\* The steps between cache.add and the finally clause.
Inside(w) == pc[w] \in {"mark", "call", "settle", "decline", "raised", "dlq", "finally"} \cup Summed

\* Variant: one retry too few.
SendRetryOffByOne(j) == queue' = IF j.retries + 1 < MaxRetries
                                 THEN [queue EXCEPT ![j.refund][j.retries + 1] = @ + 1]
                                 ELSE queue

\* self.retry: a new message, unless this was the last retry.
SendRetry(j) == queue' = IF j.retries < MaxRetries
                         THEN [queue EXCEPT ![j.refund][j.retries + 1] = @ + 1]
                         ELSE queue

Take(w) ==
    /\ At(w, "idle")
    /\ \E j \in Job :
          /\ queue[j.refund][j.retries] > 0
          /\ queue' = [queue EXCEPT ![j.refund][j.retries] = @ - 1]
          /\ IF refund[j.refund] \in Terminal
             THEN UNCHANGED <<job, pc>>
             ELSE job' = [job EXCEPT ![w] = j] /\ Goto(w, "lock")
    /\ UNCHANGED <<created, lock, outcome, faults>>

\* cache.add(lock_key) finds no key.
AcquireLock(w) ==
    /\ At(w, "lock")
    /\ lock = NoWorker
    /\ lock' = w
    /\ Goto(w, "mark")
    /\ UNCHANGED <<created, job, queue, outcome, faults>>

\* Variant: the try statement, with its finally, begins before cache.add.
LockBusyInsideTry(w) ==
    /\ At(w, "lock")
    /\ lock # NoWorker
    /\ SendRetry(job[w])
    /\ Goto(w, "finally")
    /\ UNCHANGED <<created, job, lock, outcome, faults>>

LockBusy(w) ==
    /\ At(w, "lock")
    /\ lock # NoWorker
    /\ SendRetry(job[w])
    /\ Idle(w)
    /\ UNCHANGED <<created, lock, outcome, faults>>

\* Redis fails, before or after it has set the key: with IGNORE_EXCEPTIONS
\* cache.add says no more than that it has not.
RedisFails(w) ==
    /\ At(w, "lock")
    /\ Fails
    /\ lock' \in {lock, IF lock = NoWorker THEN w ELSE lock}
    /\ SendRetry(job[w])
    /\ Idle(w)
    /\ UNCHANGED <<created, outcome, slow>>

MarkProcessing(w) ==
    /\ At(w, "mark")
    /\ SetRefund(w, "PROCESSING")
    /\ Goto(w, "call")
    /\ UNCHANGED <<created, job, lock, queue, payment, sent, credits, dlq, faults>>

GatewayRefunds(w) ==
    /\ At(w, "call")
    /\ sent' = [sent EXCEPT ![R(w)] = TRUE]
    /\ Goto(w, "settle")
    /\ UNCHANGED <<created, job, lock, queue, payment, refund, credits, dlq, faults>>

GatewayDeclines(w) ==
    /\ At(w, "call")
    /\ Goto(w, "decline")
    /\ UNCHANGED <<created, job, lock, queue, outcome, faults>>

\* Variant: the new status of the payment is always PARTIALLY_REFUNDED.
SumPartly(w) ==
    /\ At(w, "settle")
    /\ RowIsFree(w)
    /\ Goto(w, "partly")
    /\ UNCHANGED <<created, job, lock, queue, outcome, faults>>

\* The transaction begins: SUCCESS, the wallet credited, and the total of the
\* refunds, this one included.  (For a wallet payment it also has the lock of
\* the wallet's row, so such transactions come one after another.)
SumRefunds(w) ==
    /\ At(w, "settle")
    /\ RowIsFree(w)
    /\ LET total == MapThenSumSet(LAMBDA r : amount[r],
                                  {r \in Refunds : r = R(w) \/ refund[r] \in Counted})
       IN Goto(w, IF total >= PaymentAmount THEN "fully" ELSE "partly")
    /\ UNCHANGED <<created, job, lock, queue, outcome, faults>>

\* Variant: the status is the REFUNDED of docs/database.md.
SettleAsRefunded(w) ==
    /\ pc[w] \in Summed
    /\ SetRefund(w, "SUCCESS")
    /\ credits' = [credits EXCEPT ![R(w)] = @ + 1]
    /\ payment' = IF At(w, "fully") THEN "REFUNDED" ELSE "PARTIALLY_REFUNDED"
    /\ Goto(w, "finally")
    /\ UNCHANGED <<created, job, lock, queue, sent, dlq, faults>>

\* It saves the status of the payment, from that total, and commits.
Settle(w) ==
    /\ pc[w] \in Summed
    /\ SetRefund(w, "SUCCESS")
    /\ credits' = [credits EXCEPT ![R(w)] = @ + 1]
    /\ payment' = IF At(w, "fully") THEN "FULLY_REFUNDED" ELSE "PARTIALLY_REFUNDED"
    /\ Goto(w, "finally")
    /\ UNCHANGED <<created, job, lock, queue, sent, dlq, faults>>

Decline(w) ==
    /\ At(w, "decline")
    /\ SetRefund(w, "FAILED")
    /\ Goto(w, "finally")
    /\ UNCHANGED <<created, job, lock, queue, payment, sent, credits, dlq, faults>>

\* The steps of the try statement.
Tried == {"mark", "call", "settle", "decline"} \cup Summed

\* Variant: the credit is given outside the transaction and survives it.
RaisesAfterCredit(w) ==
    /\ pc[w] \in Tried
    /\ credits' = IF pc[w] \in Summed THEN [credits EXCEPT ![R(w)] = @ + 1] ELSE credits
    /\ Goto(w, "raised")
    /\ UNCHANGED <<created, job, lock, queue, payment, refund, sent, dlq, faults>>

\* The database, the adapter or credit_wallet, for a wallet that is not ACTIVE,
\* raises: a transaction is undone, but not what was done outside it (the
\* gateway's refund, a status saved before its ledger entry), and the exception
\* handler runs.
Raises(w) ==
    /\ pc[w] \in Tried
    /\ Goto(w, "raised")
    /\ \/ UNCHANGED <<refund, sent>>
       \/ At(w, "mark") /\ SetRefund(w, "PROCESSING") /\ UNCHANGED sent
       \/ At(w, "call") /\ sent' = [sent EXCEPT ![R(w)] = TRUE] /\ UNCHANGED refund
       \/ At(w, "decline") /\ SetRefund(w, "FAILED") /\ UNCHANGED sent
    /\ UNCHANGED <<created, job, lock, queue, payment, credits, dlq, faults>>

\* Variant: create_dlq_record is called for every exception.
RetryWithDeadLetter(w) ==
    /\ At(w, "raised")
    /\ job[w].retries < MaxRetries
    /\ SendRetry(job[w])
    /\ dlq' = [dlq EXCEPT ![R(w)] = @ + 1]
    /\ Goto(w, "finally")
    /\ UNCHANGED <<created, job, lock, payment, refund, sent, credits, faults>>

Retry(w) ==
    /\ At(w, "raised")
    /\ job[w].retries < MaxRetries
    /\ SendRetry(job[w])
    /\ Goto(w, "finally")
    /\ UNCHANGED <<created, job, lock, outcome, faults>>

FailFinally(w) ==
    /\ At(w, "raised")
    /\ job[w].retries >= MaxRetries
    /\ SetRefund(w, "FAILED")
    /\ Goto(w, "dlq")
    /\ UNCHANGED <<created, job, lock, queue, payment, sent, credits, dlq, faults>>

RecordDLQ(w) ==
    /\ At(w, "dlq")
    /\ dlq' = [dlq EXCEPT ![R(w)] = @ + 1]
    /\ Goto(w, "finally")
    /\ UNCHANGED <<created, job, lock, queue, payment, refund, sent, credits, faults>>

\* In the handler the retry cannot be sent, the status not saved, or the dead
\* letter record not created; the finally clause runs nevertheless.
HandlerFails(w) ==
    /\ pc[w] \in {"raised", "dlq"}
    /\ Fails
    /\ Goto(w, "finally")
    /\ UNCHANGED <<created, job, lock, queue, outcome, slow>>

\* cache.delete(lock_key), whoever has set the key.
Unlock(w) ==
    /\ At(w, "finally")
    /\ lock' = NoWorker
    /\ Idle(w)
    /\ UNCHANGED <<created, queue, outcome, faults>>

-----------------------------------------------------------------------------
(* Environment, and reconcile_refunds_task.                                 *)

\* The 30 seconds are over: the key of a worker that died, or of one that is
\* still at work.
Expire ==
    /\ lock # NoWorker
    /\ IF Inside(lock) THEN slow < MaxSlow /\ slow' = slow + 1 ELSE UNCHANGED slow
    /\ lock' = NoWorker
    /\ UNCHANGED <<created, job, pc, queue, outcome, failures>>

\* The task ends and its message is gone.  The worker dies; or the refund or its
\* payment cannot be read (the task is at "lock" then), a retry after a busy
\* lock cannot be sent, or Redis does not delete the key.
TaskDies(w) ==
    /\ pc[w] # "idle"
    /\ Fails
    /\ Idle(w)
    /\ UNCHANGED <<created, lock, queue, outcome, slow>>

Waiting(r) == MapThenSumSet(LAMBDA k : queue[r][k], 0 .. MaxRetries)

\* One refund of the loop.
Reconcile(r) ==
    /\ refund[r] = "PROCESSING"
    /\ MaxDuplicates > 0 /\ Waiting(r) < MaxDuplicates
    /\ queue' = [queue EXCEPT ![r][0] = @ + 1]
    /\ UNCHANGED <<created, worker, outcome, faults>>

-----------------------------------------------------------------------------
CreateStep(r) == \/ Call(r) \/ ReadPayment(r) \/ CheckAmount(r) \/ RefuseRefund(r)
                 \/ InsertRefund(r) \/ Dispatch(r)

\* A task that has begun runs on.
WorkStep(w) == \/ AcquireLock(w) \/ LockBusy(w) \/ MarkProcessing(w)
               \/ GatewayRefunds(w) \/ GatewayDeclines(w) \/ SumRefunds(w) \/ Settle(w)
               \/ Decline(w) \/ Raises(w) \/ Retry(w) \/ FailFinally(w) \/ RecordDLQ(w)
               \/ Unlock(w)

TaskStep(w) == Take(w) \/ WorkStep(w)

TaskFails(w) == RedisFails(w) \/ HandlerFails(w) \/ TaskDies(w)

\* Every call has returned and no task is left.
Terminated == /\ \A r \in Refunds : creator[r] = "done" /\ Waiting(r) = 0
              /\ \A w \in Workers : pc[w] = "idle"
              /\ UNCHANGED vars

Next == \/ \E r \in Refunds : CreateStep(r) \/ DispatchFails(r) \/ Reconcile(r)
        \/ \E w \in Workers : TaskStep(w) \/ TaskFails(w)
        \/ Expire
        \/ Terminated

Spec == Init /\ [][Next]_vars

\* A request and a task that have begun run on.  Nothing is assumed of who asks
\* for a refund, of who takes a message, or of reconcile_refunds_task, for which
\* the repository has no schedule.
FairSpec == /\ Spec
            /\ \A r \in Refunds : WF_vars(Dispatch(r))
            /\ \A w \in Workers : WF_vars(WorkStep(w))

-----------------------------------------------------------------------------
(* Properties.                                                              *)

\* Every variable has its type.
TypeOK == /\ payment \in {"CAPTURED", "PARTIALLY_REFUNDED", "FULLY_REFUNDED"}
          /\ refund \in [Refunds -> {"NONE", "CREATED", "PROCESSING", "SUCCESS", "FAILED"}]
          /\ amount \in [Refunds -> Amounts]
          /\ creator \in [Refunds -> {"idle", "begin", "amount", "insert", "dispatch", "done"}]
          /\ queue \in [Refunds -> [0 .. MaxRetries -> Nat]]
          /\ job \in [Workers -> Job \cup {NoJob}]
          /\ pc \in [Workers -> {"idle", "lock", "mark", "call", "settle", "partly",
                                 "fully", "decline", "raised", "dlq", "finally"}]
          /\ \A w \in Workers : job[w] = NoJob <=> pc[w] = "idle"
          /\ lock \in Workers \cup {NoWorker}
          /\ sent \in [Refunds -> BOOLEAN]
          /\ credits \in [Refunds -> Nat]
          /\ dlq \in [Refunds -> Nat]
          /\ failures \in 0 .. MaxFailures
          /\ slow \in 0 .. MaxSlow

\* The refunds of a payment that are paid, or may still be paid, never add up
\* to more than the payment.
NeverOverRefunded == TotalRefunded <= PaymentAmount

\* A refund is SUCCESS exactly if its money has been returned, once, and the
\* gateway has carried it out; rollbacks, retries, failures and an expired
\* lock included.
SettledOnce ==
    \A r \in Refunds :
        /\ credits[r] = IF refund[r] = "SUCCESS" THEN 1 ELSE 0
        /\ refund[r] = "SUCCESS" => sent[r]

\* A refund reaches the dead letter queue once, after it has FAILED for good.
DeadLetterIsFailed ==
    \A r \in Refunds : dlq[r] > 0 => dlq[r] = 1 /\ refund[r] = "FAILED"

\* The payment's status follows its refunds: it is CAPTURED until the first
\* one succeeds, and, as long as the lock has not expired under its holder,
\* PARTIALLY_REFUNDED only while something is left.  Between the sum and the
\* save it is the lock that keeps the others out.
PaymentShowsRefunds ==
    /\ payment = "CAPTURED" <=> \A r \in Refunds : refund[r] # "SUCCESS"
    /\ slow = 0 /\ payment = "PARTIALLY_REFUNDED" => AmountIn({"SUCCESS"}) < PaymentAmount

\* SUCCESS and FAILED are final: no later task run, duplicate or retry changes
\* them (VALID_REFUND_TRANSITIONS, which update_refund_status does not ask).
TerminalIsFinal ==
    [][\A r \in Refunds : refund[r] \in Terminal => refund'[r] = refund[r]]_vars

\* The Redis lock: as long as it has not expired under its holder, one worker
\* at a time processes refunds of the payment, dead workers, busy locks and
\* unconditional deletions of the key notwithstanding.
OneAtATime == slow = 0 => \A v, w \in Workers : Inside(v) /\ Inside(w) => v = w

\* As long as nothing has failed but the statements of the try statement, a
\* refund that is not settled has a message waiting, or a worker at it: neither
\* exceptions nor retries drop it.  (With a second worker they do: busy locks
\* use up the retries.)
NoTaskLost ==
    \A r \in Refunds :
        failures = 0 /\ creator[r] = "done" /\ refund[r] \in {"CREATED", "PROCESSING"} =>
            \/ Waiting(r) > 0
            \/ \E w \in Workers : job[w] # NoJob /\ R(w) = r

\* The engine keeps the promise of RefundPromise.
Promise == INSTANCE RefundPromise WITH
    state <- [r \in Refunds |->
                CASE refund[r] = "NONE"    -> "none"
                  [] refund[r] = "SUCCESS" -> "paid"
                  [] refund[r] = "FAILED"  -> "failed"
                  [] OTHER                 -> "open"]
KeepsPromise == Promise!Spec

\* Some worker consumes the queue that the task names.
QueueIsConsumed == \A w \in Workers : WF_vars(Take(w))

\* If so, a refund that was requested is eventually SUCCESS or FAILED, unless
\* something fails but the statements of the try statement.
EveryRefundSettles ==
    QueueIsConsumed =>
        \A r \in Refunds : creator[r] = "dispatch" ~> refund[r] \in Terminal \/ failures > 0
=============================================================================

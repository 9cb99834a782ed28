------------------------------ MODULE Payments ------------------------------
(***************************************************************************)
(* Orders and the payments made for them (apps/orders, apps/payments).     *)
(*                                                                         *)
(* Each API call and each run of the auto-expiry task is a thread.  None   *)
(* of them locks an order or a payment: a thread reads the row, tests what *)
(* it read, calls the gateway outside any transaction, and then writes the *)
(* new status over whatever the row holds by then.  A transaction's writes *)
(* (payment row, ledger entry, order status) are one step, Record...; two  *)
(* such transactions take their row locks in the same order, so they only  *)
(* ever wait for one another.                                              *)
(*                                                                         *)
(* The gateway answers as it likes: the bundled adapters capture (Dummy,   *)
(* COD, Wallet), authorize (Stripe) or only register (Razorpay) a payment, *)
(* and every caller handles a failure.  gateway[p] remembers what it did.  *)
(***************************************************************************)
EXTENDS Integers, Sequences, FiniteSets

CONSTANTS Orders,
          Payments,     \* calls of create_payment, each naming its payment
          Calls,        \* the other calls: capture, void, cancel, expire, sweep
          MaxActive,    \* threads under way at the same time
          MaxCrashes    \* threads that die half-way

ASSUME PaymentsAssumption == /\ Payments \cap Calls = {}
                             /\ MaxActive \in Nat /\ MaxCrashes \in Nat

VARIABLES order,        \* order[o]: the status of the order
          events,       \* events[o]: the types of its OrderEvent rows
          payment,      \* payment[p]: the status of the payment, or "NONE"
          ledger,       \* ledger[p]: its PaymentLedger rows, oldest first
          gateway,      \* gateway[p]: what the gateway did for the payment
          ask,          \* ask[t]: the method and target of thread t
          pc,           \* pc[t]: where thread t is
          answer,       \* answer[p]: the gateway's answer to create_payment p
          todo,         \* todo[t]: orders a sweep has selected and not yet saved
          crashes,      \* threads that have died
          overlapped    \* a thread has begun while another was under way

vars == <<order, events, payment, ledger, gateway, ask, pc, answer, todo, crashes, overlapped>>

Threads == Payments \cup Calls

OrderStatus == {"NONE", "DRAFT", "PENDING", "PROCESSING", "PAID", "FAILED",
                "CANCELLED", "EXPIRED", "REFUNDED"}
PaymentStatus == {"NONE", "CREATED", "AUTHORIZED", "CAPTURED", "SETTLED", "FAILED", "VOIDED"}
LedgerActions == {"PAYMENT_CREATED", "PAYMENT_CAPTURED", "PAYMENT_VOIDED"}

VALID_TRANSITIONS ==
    [DRAFT      |-> {"PENDING", "CANCELLED"},
     PENDING    |-> {"PROCESSING", "PAID", "CANCELLED", "EXPIRED"},
     PROCESSING |-> {"PAID", "FAILED", "CANCELLED"},
     PAID       |-> {"REFUNDED"},
     FAILED     |-> {"PENDING", "CANCELLED"},
     CANCELLED  |-> {}, EXPIRED |-> {}, REFUNDED |-> {}]

VALID_PAYMENT_TRANSITIONS ==
    [CREATED    |-> {"AUTHORIZED", "CAPTURED", "FAILED"},
     AUTHORIZED |-> {"CAPTURED", "VOIDED", "FAILED"},
     CAPTURED   |-> {"SETTLED"},
     SETTLED    |-> {}, FAILED |-> {}, VOIDED |-> {}]

\* validate_order_status_transition and validate_payment_status_transition:
\* a status may always be "changed" to itself; the row that is not there,
\* like any status without an entry in the table, may become nothing.
Valid(table, from, to) ==
    from = to \/ (from \in DOMAIN table /\ to \in table[from])
ValidOrder(from, to) == Valid(VALID_TRANSITIONS, from, to)
ValidPayment(from, to) == Valid(VALID_PAYMENT_TRANSITIONS, from, to)

Ask(t) == IF t \in Payments
          THEN [kind : {"create"}, on : Orders]
          ELSE [kind : {"capture", "void"}, on : Payments]
                 \cup [kind : {"cancel", "expire"}, on : Orders]
                 \cup [kind : {"sweep"}, on : {"overdue"}]

OrderOf(p) == ask[p].on
At(t, step, kinds) == pc[t] = step /\ ask[t].kind \in kinds
Goto(t, step) == pc' = [pc EXCEPT ![t] = step]
Return(t) == Goto(t, "done")
Active == {t \in Threads : pc[t] \notin {"idle", "done"}}

\* Variant: the event is named after the status.
EventTypeIsStatus(status) == status

\* The type of the OrderEvent that update_order_status adds.
EventType(status) ==
    IF status \in {"CANCELLED", "EXPIRED", "PAID"} THEN status ELSE "UPDATED"

\* update_order_status inside a transaction: the status and its event.
SetOrder(o, status) ==
    /\ order' = [order EXCEPT ![o] = status]
    /\ events' = [events EXCEPT ![o] = @ \cup {EventType(status)}]

\* Outside one, a thread that dies after saving the order leaves no event.
SetOrderUnprotected(o, status, type) ==
    /\ order' = [order EXCEPT ![o] = status]
    /\ \/ events' = [events EXCEPT ![o] = @ \cup {type}] /\ UNCHANGED crashes
       \/ crashes < MaxCrashes /\ crashes' = crashes + 1 /\ UNCHANGED events

\* Variant: the ledger entry is written before the new status is assigned.
SetPaymentLedgerFirst(p, status, action) ==
    /\ payment' = [payment EXCEPT ![p] = status]
    /\ ledger' = [ledger EXCEPT ![p] = Append(@, [action |-> action, status |-> payment[p]])]

\* PaymentRepository: the payment row and the ledger entry beside it.
SetPayment(p, status, action) ==
    /\ payment' = [payment EXCEPT ![p] = status]
    /\ ledger' = [ledger EXCEPT ![p] = Append(@, [action |-> action, status |-> status])]

Init == /\ order = [o \in Orders |-> "NONE"]
        /\ events = [o \in Orders |-> {}]
        /\ payment = [p \in Payments |-> "NONE"]
        /\ ledger = [p \in Payments |-> << >>]
        /\ gateway = [p \in Payments |-> {}]
        /\ ask \in {f \in [Threads -> UNION {Ask(t) : t \in Threads}] :
                      \A t \in Threads : f[t] \in Ask(t)}
        /\ pc = [t \in Threads |-> "idle"]
        /\ answer = [p \in Payments |-> "NONE"]
        /\ todo = [t \in Calls |-> {}]
        /\ crashes = 0
        /\ overlapped = FALSE

rows == <<order, events, payment, ledger>>

-----------------------------------------------------------------------------
(* Requests arrive, and threads die.                                        *)
Begin(t) ==
    /\ pc[t] = "idle" /\ Cardinality(Active) < MaxActive
    /\ overlapped' = (overlapped \/ Active # {})
    /\ Goto(t, "begin")
    /\ UNCHANGED <<rows, gateway, ask, answer, todo, crashes>>

\* The worker is killed or its connection is lost: what it has committed and
\* what the gateway has done remain.
Crash(t) ==
    /\ t \in Active /\ crashes < MaxCrashes
    /\ crashes' = crashes + 1
    /\ Return(t)
    /\ UNCHANGED <<rows, gateway, ask, answer, todo, overlapped>>

CreateOrder(o) ==
    /\ order[o] = "NONE"
    /\ SetOrderUnprotected(o, "PENDING", "CREATED")
    /\ UNCHANGED <<payment, ledger, gateway, ask, pc, answer, todo, overlapped>>

-----------------------------------------------------------------------------
(* create_payment.                                                          *)

\* Variant: the amount is compared only after the gateway has been called.
RefusePaymentLate(p) ==
    /\ At(p, "record", {"create"})
    /\ Return(p)
    /\ UNCHANGED <<rows, gateway, ask, answer, todo, crashes, overlapped>>

\* The order does not exist, has the wrong status, or the amount differs.
RefusePayment(p) ==
    /\ At(p, "begin", {"create"})
    /\ Return(p)
    /\ UNCHANGED <<rows, gateway, ask, answer, todo, crashes, overlapped>>

AcceptPayment(p) ==
    /\ At(p, "begin", {"create"})
    /\ order[OrderOf(p)] \in {"PENDING", "PROCESSING", "DRAFT"}
    /\ Goto(p, "charge")
    /\ UNCHANGED <<rows, gateway, ask, answer, todo, crashes, overlapped>>

\* adapter.create_payment, outside any transaction.
Charge(p) ==
    /\ At(p, "charge", {"create"})
    /\ \E a \in {"CREATED", "AUTHORIZED", "CAPTURED", "FAILED"} :
          /\ answer' = [answer EXCEPT ![p] = a]
          /\ gateway' = [gateway EXCEPT ![p] = @ \cup {a}]
    /\ Goto(p, "record")
    /\ UNCHANGED <<rows, ask, todo, crashes, overlapped>>

\* The transaction that inserts the payment and synchronizes the order.
RecordPayment(p) ==
    /\ At(p, "record", {"create"})
    /\ SetPayment(p, answer[p], "PAYMENT_CREATED")
    /\ CASE answer[p] = "CAPTURED"   -> SetOrder(OrderOf(p), "PAID")
         [] answer[p] = "AUTHORIZED" -> SetOrder(OrderOf(p), "PROCESSING")
         [] OTHER                    -> UNCHANGED <<order, events>>
    /\ Return(p)
    /\ UNCHANGED <<gateway, ask, answer, todo, crashes, overlapped>>

-----------------------------------------------------------------------------
(* capture_payment and void_payment.                                        *)
Target(t) == IF ask[t].kind = "capture" THEN "CAPTURED" ELSE "VOIDED"

\* No such payment, or its status cannot become the target.
RefuseChange(t) ==
    /\ At(t, "begin", {"capture", "void"})
    /\ ~ValidPayment(payment[ask[t].on], Target(t))
    /\ Return(t)
    /\ UNCHANGED <<rows, gateway, ask, answer, todo, crashes, overlapped>>

\* Variant: the call to validate_payment_status_transition is missing.
ReadPaymentUnvalidated(t) ==
    /\ At(t, "begin", {"capture", "void"})
    /\ payment[ask[t].on] # "NONE"
    /\ Goto(t, "call")
    /\ UNCHANGED <<rows, gateway, ask, answer, todo, crashes, overlapped>>

ReadPayment(t) ==
    /\ At(t, "begin", {"capture", "void"})
    /\ ValidPayment(payment[ask[t].on], Target(t))
    /\ Goto(t, "call")
    /\ UNCHANGED <<rows, gateway, ask, answer, todo, crashes, overlapped>>

\* adapter.capture or adapter.void succeeds.
CallGateway(t) ==
    /\ At(t, "call", {"capture", "void"})
    /\ gateway' = [gateway EXCEPT ![ask[t].on] = @ \cup {Target(t)}]
    /\ Goto(t, "record")
    /\ UNCHANGED <<rows, ask, answer, todo, crashes, overlapped>>

\* Variant: capture_payment, like void_payment, ignores the answer.
GatewayDeclinesUnseen(t) ==
    /\ At(t, "call", {"capture", "void"})
    /\ Goto(t, "record")
    /\ UNCHANGED <<rows, gateway, ask, answer, todo, crashes, overlapped>>

\* It does not: capture_payment raises, void_payment never looks.
GatewayDeclines(t) ==
    /\ At(t, "call", {"capture", "void"})
    /\ Goto(t, IF ask[t].kind = "capture" THEN "done" ELSE "record")
    /\ UNCHANGED <<rows, gateway, ask, answer, todo, crashes, overlapped>>

\* Variant: void_payment leaves the order alone.
RecordChangeVoidOnly(t) ==
    /\ At(t, "record", {"capture", "void"})
    /\ SetPayment(ask[t].on, Target(t),
                  IF ask[t].kind = "capture" THEN "PAYMENT_CAPTURED" ELSE "PAYMENT_VOIDED")
    /\ IF ask[t].kind = "capture" THEN SetOrder(OrderOf(ask[t].on), "PAID")
                                  ELSE UNCHANGED <<order, events>>
    /\ Return(t)
    /\ UNCHANGED <<gateway, ask, answer, todo, crashes, overlapped>>

\* The transaction that writes the new status over the payment and its order.
RecordChange(t) ==
    /\ At(t, "record", {"capture", "void"})
    /\ SetPayment(ask[t].on, Target(t),
                  IF ask[t].kind = "capture" THEN "PAYMENT_CAPTURED" ELSE "PAYMENT_VOIDED")
    /\ SetOrder(OrderOf(ask[t].on), IF ask[t].kind = "capture" THEN "PAID" ELSE "CANCELLED")
    /\ Return(t)
    /\ UNCHANGED <<gateway, ask, answer, todo, crashes, overlapped>>

-----------------------------------------------------------------------------
(* cancel_order and expire_order.                                           *)
Final(t) == IF ask[t].kind = "cancel" THEN "CANCELLED" ELSE "EXPIRED"

RefuseClose(t) ==
    /\ At(t, "begin", {"cancel", "expire"})
    /\ ~ValidOrder(order[ask[t].on], Final(t))
    /\ Return(t)
    /\ UNCHANGED <<rows, gateway, ask, answer, todo, crashes, overlapped>>

ReadOrder(t) ==
    /\ At(t, "begin", {"cancel", "expire"})
    /\ ValidOrder(order[ask[t].on], Final(t))
    /\ Goto(t, "save")
    /\ UNCHANGED <<rows, gateway, ask, answer, todo, crashes, overlapped>>

SaveOrder(t) ==
    /\ At(t, "save", {"cancel", "expire"})
    /\ SetOrderUnprotected(ask[t].on, Final(t), Final(t))
    /\ Return(t)
    /\ UNCHANGED <<payment, ledger, gateway, ask, answer, todo, overlapped>>

-----------------------------------------------------------------------------
(* auto_expire_pending_orders_task: one query, then a save per order.  Any  *)
(* of the PENDING orders may be past its expires_at.                        *)
\* Variant: the query forgets the status filter.
SelectOverdueAny(t) ==
    /\ At(t, "begin", {"sweep"})
    /\ todo' = [todo EXCEPT ![t] = {o \in Orders : order[o] # "NONE"}]
    /\ Goto(t, "expire")
    /\ UNCHANGED <<rows, gateway, ask, answer, crashes, overlapped>>

SelectOverdue(t) ==
    /\ At(t, "begin", {"sweep"})
    /\ \E S \in SUBSET {o \in Orders : order[o] = "PENDING"} :
          todo' = [todo EXCEPT ![t] = S]
    /\ Goto(t, "expire")
    /\ UNCHANGED <<rows, gateway, ask, answer, crashes, overlapped>>

ExpireNext(t) ==
    /\ At(t, "expire", {"sweep"})
    /\ \E o \in todo[t] :
          /\ SetOrderUnprotected(o, "EXPIRED", "EXPIRED")
          /\ todo' = [todo EXCEPT ![t] = IF crashes' = crashes THEN @ \ {o} ELSE {}]
    /\ UNCHANGED <<payment, ledger, gateway, ask, pc, answer, overlapped>>

SweepDone(t) ==
    /\ At(t, "expire", {"sweep"})
    /\ todo[t] = {}
    /\ Return(t)
    /\ UNCHANGED <<rows, gateway, ask, answer, todo, crashes, overlapped>>

-----------------------------------------------------------------------------
PaymentStep(p) ==
    RefusePayment(p) \/ AcceptPayment(p) \/ Charge(p) \/ RecordPayment(p)

CallStep(t) ==
    \/ RefuseChange(t) \/ ReadPayment(t) \/ CallGateway(t) \/ GatewayDeclines(t) \/ RecordChange(t)
    \/ RefuseClose(t) \/ ReadOrder(t) \/ SaveOrder(t)
    \/ SelectOverdue(t) \/ ExpireNext(t) \/ SweepDone(t)

Terminated == /\ \A t \in Threads : pc[t] = "done"
              /\ \A o \in Orders : order[o] # "NONE"
              /\ UNCHANGED vars

Next == \/ \E o \in Orders : CreateOrder(o)
        \/ \E t \in Threads : Begin(t) \/ Crash(t)
        \/ \E p \in Payments : PaymentStep(p)
        \/ \E t \in Calls : CallStep(t)
        \/ Terminated

Spec == Init /\ [][Next]_vars

-----------------------------------------------------------------------------
(* Properties.                                                              *)

\* Every variable has its type: among others, an order only ever has the event
\* types update_order_status, create_order and the sweep give it.
TypeOK == /\ order \in [Orders -> OrderStatus]
          /\ events \in [Orders -> SUBSET {"CREATED", "UPDATED", "CANCELLED", "EXPIRED", "PAID"}]
          /\ payment \in [Payments -> PaymentStatus]
          /\ ledger \in [Payments -> Seq([action : LedgerActions, status : PaymentStatus])]
          /\ gateway \in [Payments -> SUBSET {"CREATED", "AUTHORIZED", "CAPTURED", "FAILED", "VOIDED"}]
          /\ ask \in {f \in [Threads -> UNION {Ask(t) : t \in Threads}] :
                        \A t \in Threads : f[t] \in Ask(t)}
          /\ pc \in [Threads -> {"idle", "begin", "charge", "call", "record", "save",
                                 "expire", "done"}]
          /\ answer \in [Payments -> {"NONE", "CREATED", "AUTHORIZED", "CAPTURED", "FAILED"}]
          /\ todo \in [Calls -> SUBSET Orders]
          /\ crashes \in 0 .. MaxCrashes
          /\ overlapped \in BOOLEAN

\* An order counts as PAID only while a payment for it is CAPTURED, and as
\* PROCESSING only while one is AUTHORIZED, although threads that have seen
\* neither write both statuses; and whoever made it PAID left a PAID event.
OrderIsBackedByPayment ==
    \A o \in Orders :
        /\ order[o] = "PAID" =>
              /\ \E p \in Payments : OrderOf(p) = o /\ payment[p] = "CAPTURED"
              /\ "PAID" \in events[o]
        /\ order[o] = "PROCESSING" =>
              \E p \in Payments : OrderOf(p) = o /\ payment[p] = "AUTHORIZED"

\* The database never claims more than the gateway did: money recorded as
\* captured or authorized was captured or authorized there.
GatewayBacksRecord ==
    \A p \in Payments : payment[p] \in {"AUTHORIZED", "CAPTURED"} => payment[p] \in gateway[p]

\* The payment ledger tells the status: it opens with PAYMENT_CREATED, exactly
\* once, and its newest entry has the status of the payment row.
LedgerMatchesPayment ==
    \A p \in Payments :
        LET L == ledger[p]
        IN  /\ payment[p] = "NONE" <=> L = << >>
            /\ L # << >> => L[Len(L)].status = payment[p]
            /\ \A i \in DOMAIN L : L[i].action = "PAYMENT_CREATED" <=> i = 1

\* A payment that FAILED stays so, whatever else is tried on it and whenever.
FailedIsFinal ==
    [][\A p \in Payments : payment[p] = "FAILED" => payment'[p] = "FAILED"]_vars

\* As long as no two calls have overlapped, PaymentStatus follows
\* VALID_PAYMENT_TRANSITIONS, whatever sequence of calls is made and wherever
\* one of them dies.  (Two that overlap both write what they have validated.)
PaymentTransitionsValid ==
    [][~overlapped => \A p \in Payments :
          payment[p] # "NONE" => ValidPayment(payment[p], payment'[p])]_vars

\* And an order becomes EXPIRED only if it is PENDING at that moment.
OnlyPendingExpires ==
    [][~overlapped => \A o \in Orders :
          order'[o] = "EXPIRED" => order[o] \in {"PENDING", "EXPIRED"}]_vars

\* As long as no thread has died: once none is between the gateway and the
\* database, every charge the gateway made is on record, and so is every void.
ChargesRecorded ==
    \A p \in Payments :
        /\ crashes = 0
        /\ \A t \in Active : pc[t] = "record" => (t # p /\ ask[t].on # p)
        => /\ "CAPTURED" \in gateway[p] => \E i \in DOMAIN ledger[p] : ledger[p][i].status = "CAPTURED"
           /\ "VOIDED" \in gateway[p] => \E i \in DOMAIN ledger[p] : ledger[p][i].status = "VOIDED"

\* OrderStatus follows VALID_TRANSITIONS.
OrderTransitionsValid ==
    [][\A o \in Orders : order[o] # "NONE" => ValidOrder(order[o], order'[o])]_vars

\* The gateway never takes the amount of one order twice.
ChargedOnce ==
    \A p, q \in Payments :
        /\ "CAPTURED" \in gateway[p] \cap gateway[q]
        /\ OrderOf(p) = OrderOf(q)
        => p = q
=============================================================================

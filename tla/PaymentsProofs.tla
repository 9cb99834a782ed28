--------------------------- MODULE PaymentsProofs ---------------------------
(***************************************************************************)
(* Theorems about Payments, for any sets of orders, payments and calls,    *)
(* and any number of them under way or dying.                              *)
(*                                                                         *)
(* Nothing is locked in Payments, so nothing a thread has read is known to *)
(* hold when it writes, and the invariants must survive on what cannot be  *)
(* taken back.  PhaseOK collects it: a payment is inserted only by its own *)
(* create_payment and never deleted, a gateway never undoes what it did,   *)
(* and no transition leads from NONE or FAILED to CAPTURED or VOIDED.      *)
(***************************************************************************)
EXTENDS Payments, TLAPS

\* What each step of a thread relies on when it runs.
PhaseOK ==
    /\ \A p \in Payments :
          /\ pc[p] # "done" => payment[p] = "NONE"
          /\ pc[p] = "record" => answer[p] \in gateway[p] /\ answer[p] # "NONE"
    /\ \A t \in Calls :
          /\ pc[t] \in {"call", "record"} => /\ ask[t].kind \in {"capture", "void"}
                                             /\ ask[t].on \in Payments
                                             /\ payment[ask[t].on] \notin {"NONE", "FAILED"}
          /\ pc[t] = "record" /\ ask[t].kind = "capture" => "CAPTURED" \in gateway[ask[t].on]

IInv == /\ TypeOK
        /\ PhaseOK
        /\ LedgerMatchesPayment
        /\ GatewayBacksRecord
        /\ OrderIsBackedByPayment

\* A payment is made for an order.
LEMMA OrderOfPayment == ASSUME TypeOK, NEW p \in Payments PROVE OrderOf(p) \in Orders
BY DEF TypeOK, Threads, Ask, OrderOf

\* A call of capture_payment or void_payment names a payment ...
LEMMA ChangesPayment ==
    ASSUME TypeOK, NEW t \in Calls, ask[t].kind \in {"capture", "void"}
    PROVE  t \notin Payments /\ ask[t].on \in Payments
BY PaymentsAssumption DEF TypeOK, Threads, Ask

\* ... and one of cancel_order or expire_order an order.
LEMMA ClosesOrder ==
    ASSUME TypeOK, NEW t \in Calls, ask[t].kind \in {"cancel", "expire"}
    PROVE  t \notin Payments /\ ask[t].on \in Orders
BY PaymentsAssumption DEF TypeOK, Threads, Ask

\* The payment statuses from which the table allows CAPTURED or VOIDED.
LEMMA CanChange ==
    ASSUME NEW from, NEW to \in {"CAPTURED", "VOIDED"}, ValidPayment(from, to)
    PROVE  from \notin {"NONE", "FAILED"}
BY DEF ValidPayment, Valid, VALID_PAYMENT_TRANSITIONS

\* The initial state satisfies the inductive invariant.
LEMMA InitIInv == Init => IInv
<1> SUFFICES ASSUME Init PROVE IInv
  OBVIOUS
<1>1. TypeOK
  <2>1. ledger \in [Payments -> Seq([action : LedgerActions, status : PaymentStatus])]
    <3>1. << >> \in Seq([action : LedgerActions, status : PaymentStatus])
      OBVIOUS
    <3>2. QED
      BY <3>1 DEF Init
  <2>2. order \in [Orders -> OrderStatus] /\ payment \in [Payments -> PaymentStatus]
    BY DEF Init, OrderStatus, PaymentStatus
  <2>3. crashes \in 0 .. MaxCrashes
    BY PaymentsAssumption DEF Init
  <2>4. QED
    BY <2>1, <2>2, <2>3 DEF Init, TypeOK
<1>2. PhaseOK
  BY DEF Init, PhaseOK, Threads
<1>3. LedgerMatchesPayment /\ GatewayBacksRecord /\ OrderIsBackedByPayment
  BY DEF Init, LedgerMatchesPayment, GatewayBacksRecord, OrderIsBackedByPayment
<1>4. QED
  BY <1>1, <1>2, <1>3 DEF IInv

-----------------------------------------------------------------------------
(* Types.                                                                   *)

\* update_order_status and its event keep their types.
LEMMA SetOrderTypes ==
    ASSUME TypeOK, NEW o \in Orders, NEW s \in OrderStatus, SetOrder(o, s)
    PROVE  /\ order' \in [Orders -> OrderStatus]
           /\ events' \in [Orders -> SUBSET {"CREATED", "UPDATED", "CANCELLED", "EXPIRED", "PAID"}]
BY DEF TypeOK, SetOrder, EventType

LEMMA SetOrderUnprotectedTypes ==
    ASSUME TypeOK, NEW o \in Orders, NEW s \in OrderStatus,
           NEW type \in {"CREATED", "CANCELLED", "EXPIRED"}, SetOrderUnprotected(o, s, type)
    PROVE  /\ order' \in [Orders -> OrderStatus]
           /\ events' \in [Orders -> SUBSET {"CREATED", "UPDATED", "CANCELLED", "EXPIRED", "PAID"}]
           /\ crashes' \in 0 .. MaxCrashes
<1>1. /\ order' \in [Orders -> OrderStatus]
      /\ events' \in [Orders -> SUBSET {"CREATED", "UPDATED", "CANCELLED", "EXPIRED", "PAID"}]
  BY DEF TypeOK, SetOrderUnprotected
<1>2. crashes \in 0 .. MaxCrashes /\ MaxCrashes \in Nat
  BY PaymentsAssumption DEF TypeOK
<1>3. crashes' = crashes \/ (crashes < MaxCrashes /\ crashes' = crashes + 1)
  BY DEF SetOrderUnprotected
<1>4. QED
  BY <1>1, <1>2, <1>3

\* A payment and its ledger keep theirs.
LEMMA SetPaymentTypes ==
    ASSUME TypeOK, NEW p \in Payments, NEW s \in PaymentStatus, NEW a \in LedgerActions,
           SetPayment(p, s, a)
    PROVE  /\ payment' \in [Payments -> PaymentStatus]
           /\ ledger' \in [Payments -> Seq([action : LedgerActions, status : PaymentStatus])]
<1> DEFINE Row == [action : LedgerActions, status : PaymentStatus]
<1>1. [action |-> a, status |-> s] \in Row /\ ledger[p] \in Seq(Row)
  BY DEF TypeOK
<1>2. Append(ledger[p], [action |-> a, status |-> s]) \in Seq(Row)
  BY <1>1
<1>3. QED
  BY <1>2 DEF TypeOK, SetPayment

\* Every step of create_payment keeps the types.
LEMMA PaymentStepTypes ==
    ASSUME IInv, NEW p \in Payments, PaymentStep(p)
    PROVE  TypeOK'
<1>0. TypeOK /\ PhaseOK /\ OrderOf(p) \in Orders /\ p \in Threads
  BY OrderOfPayment DEF IInv, Threads
<1>1. CASE RefusePayment(p) \/ AcceptPayment(p)
  BY <1>0, <1>1 DEF RefusePayment, AcceptPayment, TypeOK, Return, Goto, rows
<1>2. CASE Charge(p)
  <2>1. PICK a \in {"CREATED", "AUTHORIZED", "CAPTURED", "FAILED"} :
           /\ answer' = [answer EXCEPT ![p] = a]
           /\ gateway' = [gateway EXCEPT ![p] = @ \cup {a}]
    BY <1>2 DEF Charge
  <2>2. answer' \in [Payments -> {"NONE", "CREATED", "AUTHORIZED", "CAPTURED", "FAILED"}]
    BY <1>0, <2>1 DEF TypeOK
  <2>3. gateway' \in [Payments -> SUBSET {"CREATED", "AUTHORIZED", "CAPTURED", "FAILED", "VOIDED"}]
    BY <1>0, <2>1 DEF TypeOK
  <2>4. QED
    BY <1>0, <1>2, <2>2, <2>3 DEF Charge, TypeOK, Goto, rows
<1>3. CASE RecordPayment(p)
  <2>1. answer[p] \in {"CREATED", "AUTHORIZED", "CAPTURED", "FAILED"}
    BY <1>0, <1>3 DEF TypeOK, PhaseOK, RecordPayment, At
  <2>2. payment' \in [Payments -> PaymentStatus] /\
        ledger' \in [Payments -> Seq([action : LedgerActions, status : PaymentStatus])]
    BY <1>0, <1>3, <2>1, SetPaymentTypes DEF RecordPayment, PaymentStatus, LedgerActions
  <2>3. order' \in [Orders -> OrderStatus] /\
        events' \in [Orders -> SUBSET {"CREATED", "UPDATED", "CANCELLED", "EXPIRED", "PAID"}]
    <3>1. CASE answer[p] = "CAPTURED"
      BY <1>0, <1>3, <3>1, SetOrderTypes DEF RecordPayment, OrderStatus
    <3>2. CASE answer[p] = "AUTHORIZED"
      BY <1>0, <1>3, <3>2, SetOrderTypes DEF RecordPayment, OrderStatus
    <3>3. CASE answer[p] \notin {"CAPTURED", "AUTHORIZED"}
      BY <1>0, <1>3, <3>3 DEF RecordPayment, TypeOK
    <3>4. QED
      BY <3>1, <3>2, <3>3
  <2>4. QED
    BY <1>0, <1>3, <2>2, <2>3 DEF RecordPayment, TypeOK, Return, Goto
<1>4. QED
  BY <1>1, <1>2, <1>3 DEF PaymentStep

\* Every step of the other calls keeps the types.
LEMMA CallStepTypes ==
    ASSUME IInv, NEW t \in Calls, CallStep(t)
    PROVE  TypeOK'
<1>0. TypeOK /\ t \in Threads
  BY DEF IInv, Threads
<1>1. CASE RefuseChange(t) \/ ReadPayment(t) \/ GatewayDeclines(t) \/ RefuseClose(t)
           \/ ReadOrder(t) \/ SweepDone(t)
  BY <1>0, <1>1 DEF RefuseChange, ReadPayment, GatewayDeclines, RefuseClose, ReadOrder,
                    SweepDone, TypeOK, Return, Goto, rows
<1>2. CASE CallGateway(t)
  <2>1. Target(t) \in {"CAPTURED", "VOIDED"}
    BY DEF Target
  <2>2. gateway' \in [Payments -> SUBSET {"CREATED", "AUTHORIZED", "CAPTURED", "FAILED", "VOIDED"}]
    BY <1>0, <1>2, <2>1 DEF CallGateway, TypeOK
  <2>3. QED
    BY <1>0, <1>2, <2>2 DEF CallGateway, TypeOK, Goto, rows
<1>3. CASE RecordChange(t)
  <2>1. ask[t].on \in Payments /\ OrderOf(ask[t].on) \in Orders
    BY <1>0, <1>3, ChangesPayment, OrderOfPayment DEF RecordChange, At
  <2>2. Target(t) \in PaymentStatus
    BY DEF Target, PaymentStatus
  <2>3. payment' \in [Payments -> PaymentStatus] /\
        ledger' \in [Payments -> Seq([action : LedgerActions, status : PaymentStatus])]
    BY <1>0, <1>3, <2>1, <2>2, SetPaymentTypes DEF RecordChange, LedgerActions
  <2>4. order' \in [Orders -> OrderStatus] /\
        events' \in [Orders -> SUBSET {"CREATED", "UPDATED", "CANCELLED", "EXPIRED", "PAID"}]
    BY <1>0, <1>3, <2>1, SetOrderTypes DEF RecordChange, OrderStatus
  <2>5. QED
    BY <1>0, <1>3, <2>3, <2>4 DEF RecordChange, TypeOK, Return, Goto
<1>4. CASE SaveOrder(t)
  <2>1. ask[t].on \in Orders
    BY <1>0, <1>4, ClosesOrder DEF SaveOrder, At
  <2>2. Final(t) \in OrderStatus /\ Final(t) \in {"CREATED", "CANCELLED", "EXPIRED"}
    BY DEF Final, OrderStatus
  <2>3. /\ order' \in [Orders -> OrderStatus]
        /\ events' \in [Orders -> SUBSET {"CREATED", "UPDATED", "CANCELLED", "EXPIRED", "PAID"}]
        /\ crashes' \in 0 .. MaxCrashes
    BY <1>0, <1>4, <2>1, <2>2, SetOrderUnprotectedTypes DEF SaveOrder
  <2>4. QED
    BY <1>0, <1>4, <2>3 DEF SaveOrder, TypeOK, Return, Goto
<1>5. CASE SelectOverdue(t)
  <2>1. PICK S \in SUBSET {o \in Orders : order[o] = "PENDING"} : todo' = [todo EXCEPT ![t] = S]
    BY <1>5 DEF SelectOverdue
  <2>2. todo' \in [Calls -> SUBSET Orders]
    BY <1>0, <2>1 DEF TypeOK
  <2>3. QED
    BY <1>0, <1>5, <2>2 DEF SelectOverdue, TypeOK, Goto, rows
<1>6. CASE ExpireNext(t)
  <2>1. PICK o \in todo[t] :
           /\ SetOrderUnprotected(o, "EXPIRED", "EXPIRED")
           /\ todo' = [todo EXCEPT ![t] = IF crashes' = crashes THEN @ \ {o} ELSE {}]
    BY <1>6 DEF ExpireNext
  <2>2. o \in Orders /\ todo' \in [Calls -> SUBSET Orders]
    BY <1>0, <2>1 DEF TypeOK
  <2>3. /\ order' \in [Orders -> OrderStatus]
        /\ events' \in [Orders -> SUBSET {"CREATED", "UPDATED", "CANCELLED", "EXPIRED", "PAID"}]
        /\ crashes' \in 0 .. MaxCrashes
    BY <1>0, <2>1, <2>2, SetOrderUnprotectedTypes DEF OrderStatus
  <2>4. QED
    BY <1>0, <1>6, <2>2, <2>3 DEF ExpireNext, TypeOK
<1>7. QED
  BY <1>1, <1>2, <1>3, <1>4, <1>5, <1>6 DEF CallStep

\* So do the arrival of a request, the death of a thread and create_order.
LEMMA OtherStepTypes ==
    ASSUME IInv,
           \/ \E o \in Orders : CreateOrder(o)
           \/ \E t \in Threads : Begin(t) \/ Crash(t)
    PROVE  TypeOK'
<1>0. TypeOK
  BY DEF IInv
<1>1. ASSUME NEW o \in Orders, CreateOrder(o) PROVE TypeOK'
  <2>1. /\ order' \in [Orders -> OrderStatus]
        /\ events' \in [Orders -> SUBSET {"CREATED", "UPDATED", "CANCELLED", "EXPIRED", "PAID"}]
        /\ crashes' \in 0 .. MaxCrashes
    BY <1>0, <1>1, SetOrderUnprotectedTypes DEF CreateOrder, OrderStatus
  <2>2. QED
    BY <1>0, <1>1, <2>1 DEF CreateOrder, TypeOK
<1>2. ASSUME NEW t \in Threads, Begin(t) PROVE TypeOK'
  <2>1. overlapped' \in BOOLEAN
    BY <1>2 DEF Begin
  <2>2. QED
    BY <1>0, <1>2, <2>1 DEF Begin, TypeOK, Goto, rows
<1>3. ASSUME NEW t \in Threads, Crash(t) PROVE TypeOK'
  <2>1. crashes' \in 0 .. MaxCrashes
    BY <1>0, <1>3, PaymentsAssumption DEF Crash, TypeOK
  <2>2. QED
    BY <1>0, <1>3, <2>1 DEF Crash, TypeOK, Return, Goto, rows
<1>4. QED
  BY <1>1, <1>2, <1>3

-----------------------------------------------------------------------------
(* What each step of a thread relies on.                                    *)

\* Every step of create_payment keeps it.
LEMMA PaymentStepPhase ==
    ASSUME IInv, NEW p \in Payments, PaymentStep(p)
    PROVE  PhaseOK'
<1>0. TypeOK /\ PhaseOK /\ p \in Threads /\ p \notin Calls
  BY PaymentsAssumption DEF IInv, Threads
<1> USE DEF Threads
<1>1. CASE RefusePayment(p) \/ AcceptPayment(p)
  BY <1>0, <1>1 DEF RefusePayment, AcceptPayment, TypeOK, PhaseOK, Return, Goto, rows, At
<1>2. CASE Charge(p)
  <2>1. PICK a \in {"CREATED", "AUTHORIZED", "CAPTURED", "FAILED"} :
           /\ answer' = [answer EXCEPT ![p] = a]
           /\ gateway' = [gateway EXCEPT ![p] = @ \cup {a}]
    BY <1>2 DEF Charge
  <2>2. \A q \in Payments : gateway[q] \subseteq gateway'[q]
    BY <1>0, <2>1 DEF TypeOK
  <2>3. QED
    BY <1>0, <1>2, <2>1, <2>2 DEF Charge, TypeOK, PhaseOK, Goto, rows, At
<1>3. CASE RecordPayment(p)
  <2>1. \A q \in Payments : payment'[q] = IF q = p THEN answer[p] ELSE payment[q]
    BY <1>0, <1>3 DEF RecordPayment, SetPayment, TypeOK
  <2>2. payment[p] = "NONE"
    BY <1>0, <1>3 DEF RecordPayment, PhaseOK, At
  <2>3. QED
    BY <1>0, <1>3, <2>1, <2>2 DEF RecordPayment, TypeOK, PhaseOK, Return, Goto, At
<1>4. QED
  BY <1>1, <1>2, <1>3 DEF PaymentStep

\* Every step of the other calls keeps it.
LEMMA CallStepPhase ==
    ASSUME IInv, NEW t \in Calls, CallStep(t)
    PROVE  PhaseOK'
<1>0. TypeOK /\ PhaseOK /\ t \in Threads /\ t \notin Payments
  BY PaymentsAssumption DEF IInv, Threads
<1> USE DEF Threads
<1>1. CASE RefuseChange(t) \/ RefuseClose(t) \/ ReadOrder(t) \/ SweepDone(t)
  BY <1>0, <1>1 DEF RefuseChange, RefuseClose, ReadOrder, SweepDone, TypeOK, PhaseOK,
                    Return, Goto, rows, At
<1>2. CASE ReadPayment(t)
  <2>1. ask[t].on \in Payments /\ ask[t].kind \in {"capture", "void"}
    BY <1>0, <1>2, ChangesPayment DEF ReadPayment, At
  <2>2. payment[ask[t].on] \notin {"NONE", "FAILED"}
    BY <1>2, CanChange DEF ReadPayment, Target
  <2>3. QED
    BY <1>0, <1>2, <2>1, <2>2 DEF ReadPayment, TypeOK, PhaseOK, Goto, rows
<1>3. CASE CallGateway(t)
  <2>1. gateway' = [gateway EXCEPT ![ask[t].on] = @ \cup {Target(t)}]
        /\ ask[t].on \in Payments /\ Target(t) \in gateway'[ask[t].on]
    BY <1>0, <1>3 DEF CallGateway, TypeOK, PhaseOK, At
  <2>2. \A q \in Payments : gateway[q] \subseteq gateway'[q]
    BY <1>0, <2>1 DEF TypeOK
  <2>3. QED
    BY <1>0, <1>3, <2>1, <2>2 DEF CallGateway, TypeOK, PhaseOK, Goto, rows, At, Target
<1>4. CASE GatewayDeclines(t)
  BY <1>0, <1>4 DEF GatewayDeclines, TypeOK, PhaseOK, Goto, rows, At
<1>5. CASE RecordChange(t)
  <2>1. ask[t].on \in Payments /\ payment[ask[t].on] # "NONE"
    BY <1>0, <1>5 DEF RecordChange, PhaseOK, At
  <2>2. \A q \in Payments : payment'[q] = IF q = ask[t].on THEN Target(t) ELSE payment[q]
    BY <1>0, <1>5 DEF RecordChange, SetPayment, TypeOK
  <2>3. Target(t) \notin {"NONE", "FAILED"}
    BY DEF Target
  <2>4. QED
    BY <1>0, <1>5, <2>1, <2>2, <2>3 DEF RecordChange, TypeOK, PhaseOK, Return, Goto, At
<1>6. CASE SaveOrder(t)
  BY <1>0, <1>6 DEF SaveOrder, TypeOK, PhaseOK, Return, Goto
<1>7. CASE SelectOverdue(t)
  BY <1>0, <1>7 DEF SelectOverdue, TypeOK, PhaseOK, Goto, rows
<1>8. CASE ExpireNext(t)
  BY <1>0, <1>8 DEF ExpireNext, PhaseOK
<1>9. QED
  BY <1>1, <1>2, <1>3, <1>4, <1>5, <1>6, <1>7, <1>8 DEF CallStep

\* So do the steps that belong to no method.
LEMMA OtherStepPhase ==
    ASSUME IInv,
           \/ \E o \in Orders : CreateOrder(o)
           \/ \E t \in Threads : Begin(t) \/ Crash(t)
    PROVE  PhaseOK'
<1>0. TypeOK /\ PhaseOK
  BY DEF IInv
<1>1. ASSUME NEW o \in Orders, CreateOrder(o) PROVE PhaseOK'
  BY <1>0, <1>1 DEF CreateOrder, PhaseOK
<1>2. ASSUME NEW t \in Threads, Begin(t) \/ Crash(t) PROVE PhaseOK'
  BY <1>0, <1>2 DEF Begin, Crash, Active, TypeOK, PhaseOK, Return, Goto, rows, Threads
<1>3. QED
  BY <1>1, <1>2

-----------------------------------------------------------------------------
(* The ledger, the gateway and the order.                                   *)

\* One payment and its ledger change together.
LEMMA SetPaymentLedger ==
    ASSUME TypeOK, LedgerMatchesPayment, NEW p \in Payments,
           NEW s \in PaymentStatus \ {"NONE"}, NEW a \in LedgerActions, SetPayment(p, s, a),
           a = "PAYMENT_CREATED" <=> payment[p] = "NONE"
    PROVE  LedgerMatchesPayment'
<1> DEFINE e == [action |-> a, status |-> s]
           L == ledger[p]
           M == Append(L, e)
<1>1. L \in Seq([action : LedgerActions, status : PaymentStatus])
  BY DEF TypeOK
<1>2. Len(M) = Len(L) + 1 /\ M[Len(M)] = e /\ Len(L) \in Nat /\ M # << >>
  BY <1>1
<1>3. \A i \in 1 .. Len(L) : M[i] = L[i]
  BY <1>1
<1>4. DOMAIN L = 1 .. Len(L) /\ DOMAIN M = 1 .. Len(L) + 1
  BY <1>1
<1>5. ledger'[p] = M /\ payment'[p] = s
  BY DEF SetPayment, TypeOK
<1>6. \A q \in Payments \ {p} : ledger'[q] = ledger[q] /\ payment'[q] = payment[q]
  BY DEF SetPayment, TypeOK
<1>7. a = "PAYMENT_CREATED" <=> Len(L) = 0
  BY <1>1 DEF LedgerMatchesPayment
<1>8. \A i \in DOMAIN M : M[i].action = "PAYMENT_CREATED" <=> i = 1
  <2>1. \A i \in DOMAIN L : L[i].action = "PAYMENT_CREATED" <=> i = 1
    BY DEF LedgerMatchesPayment
  <2>2. M[Len(L) + 1].action = a
    BY <1>2
  <2>3. QED
    BY <1>2, <1>3, <1>4, <1>7, <2>1, <2>2
<1>9. QED
  BY <1>2, <1>5, <1>6, <1>8 DEF LedgerMatchesPayment

\* What holds of every step that is not the recording transaction of
\* create_payment, capture_payment or void_payment.
Quiet == /\ UNCHANGED <<payment, ledger, ask>>
         /\ \A p \in Payments : gateway[p] \subseteq gateway'[p]
         /\ \A o \in Orders :
               /\ order'[o] \in {"PAID", "PROCESSING"} => order'[o] = order[o]
               /\ events[o] \subseteq events'[o]

\* Saving an order outside a transaction is quiet, since neither create_order
\* nor cancel_order, expire_order or the sweep makes it PAID or PROCESSING.
LEMMA UnprotectedIsQuiet ==
    ASSUME TypeOK, NEW o \in Orders, NEW s \in {"PENDING", "CANCELLED", "EXPIRED"}, NEW type,
           SetOrderUnprotected(o, s, type), UNCHANGED <<payment, ledger, gateway, ask>>
    PROVE  Quiet
<1>1. /\ order' = [order EXCEPT ![o] = s]
      /\ events' = [events EXCEPT ![o] = @ \cup {type}] \/ events' = events
  BY DEF SetOrderUnprotected
<1>2. \A x \in Orders : /\ order'[x] = IF x = o THEN s ELSE order[x]
                        /\ events[x] \subseteq events'[x]
  BY <1>1 DEF TypeOK
<1>3. QED
  BY <1>2 DEF Quiet

\* Every step is quiet or records what the gateway answered.
LEMMA QuietOrRecord ==
    ASSUME IInv, [Next]_vars
    PROVE  \/ Quiet
           \/ \E p \in Payments : RecordPayment(p)
           \/ \E t \in Calls : RecordChange(t)
<1>0. TypeOK /\ PhaseOK
  BY DEF IInv
<1>1. ASSUME NEW o \in Orders, CreateOrder(o) PROVE Quiet
  BY <1>0, <1>1, UnprotectedIsQuiet DEF CreateOrder
<1>2. ASSUME NEW t \in Threads, Begin(t) \/ Crash(t) PROVE Quiet
  BY <1>2 DEF Begin, Crash, rows, Quiet
<1>3. ASSUME NEW p \in Payments, PaymentStep(p), ~RecordPayment(p) PROVE Quiet
  <2>1. CASE RefusePayment(p) \/ AcceptPayment(p)
    BY <2>1 DEF RefusePayment, AcceptPayment, rows, Quiet
  <2>2. CASE Charge(p)
    <3>1. PICK a : gateway' = [gateway EXCEPT ![p] = @ \cup {a}]
      BY <2>2 DEF Charge
    <3>2. \A q \in Payments : gateway[q] \subseteq gateway'[q]
      BY <1>0, <3>1 DEF TypeOK
    <3>3. QED
      BY <2>2, <3>2 DEF Charge, rows, Quiet
  <2>3. QED
    BY <1>3, <2>1, <2>2 DEF PaymentStep
<1>4. ASSUME NEW t \in Calls, CallStep(t), ~RecordChange(t) PROVE Quiet
  <2>1. CASE RefuseChange(t) \/ ReadPayment(t) \/ GatewayDeclines(t) \/ RefuseClose(t)
             \/ ReadOrder(t) \/ SelectOverdue(t) \/ SweepDone(t)
    BY <2>1 DEF RefuseChange, ReadPayment, GatewayDeclines, RefuseClose, ReadOrder,
                SelectOverdue, SweepDone, rows, Quiet
  <2>2. CASE CallGateway(t)
    <3>1. gateway' = [gateway EXCEPT ![ask[t].on] = @ \cup {Target(t)}]
      BY <2>2 DEF CallGateway
    <3>2. \A q \in Payments : gateway[q] \subseteq gateway'[q]
      BY <1>0, <3>1 DEF TypeOK
    <3>3. QED
      BY <2>2, <3>2 DEF CallGateway, rows, Quiet
  <2>3. CASE SaveOrder(t)
    <3>1. ask[t].on \in Orders /\ Final(t) \in {"PENDING", "CANCELLED", "EXPIRED"}
      BY <1>0, <2>3, ClosesOrder DEF SaveOrder, At, Final
    <3>2. QED
      BY <1>0, <2>3, <3>1, UnprotectedIsQuiet DEF SaveOrder
  <2>4. CASE ExpireNext(t)
    <3>1. PICK o \in todo[t] : SetOrderUnprotected(o, "EXPIRED", "EXPIRED")
      BY <2>4 DEF ExpireNext
    <3>2. o \in Orders
      BY <1>0 DEF TypeOK
    <3>3. QED
      BY <1>0, <2>4, <3>1, <3>2, UnprotectedIsQuiet DEF ExpireNext
  <2>5. QED
    BY <1>4, <2>1, <2>2, <2>3, <2>4 DEF CallStep
<1>5. CASE UNCHANGED vars
  BY <1>5 DEF vars, Quiet
<1>6. QED
  BY <1>1, <1>2, <1>3, <1>4, <1>5 DEF Next, Terminated

\* What update_order_status leaves in the order and in every other.
LEMMA SetOrderEffect ==
    ASSUME TypeOK, NEW o \in Orders, NEW s \in OrderStatus, SetOrder(o, s)
    PROVE  /\ \A x \in Orders : /\ order'[x] = IF x = o THEN s ELSE order[x]
                                /\ events[x] \subseteq events'[x]
           /\ EventType(s) \in events'[o]
BY DEF TypeOK, SetOrder

\* The order of a payment is backed again once both have been written.
LEMMA WrittenOrderIsBacked ==
    ASSUME TypeOK, OrderIsBackedByPayment, NEW p \in Payments, UNCHANGED ask,
           NEW s \in {"PAID", "PROCESSING", "CANCELLED"}, SetOrder(OrderOf(p), s),
           s = "PAID" => payment'[p] = "CAPTURED",
           s = "PROCESSING" => payment'[p] = "AUTHORIZED",
           \A q \in Payments \ {p} : payment'[q] = payment[q]
    PROVE  OrderIsBackedByPayment'
<1> DEFINE o == OrderOf(p)
<1>1. o \in Orders /\ \A q \in Payments : OrderOf(q)' = OrderOf(q)
  BY OrderOfPayment DEF OrderOf
<1>2. /\ \A x \in Orders : /\ order'[x] = IF x = o THEN s ELSE order[x]
                           /\ events[x] \subseteq events'[x]
      /\ EventType(s) \in events'[o]
  BY <1>1, SetOrderEffect DEF OrderStatus
<1>3. ASSUME NEW x \in Orders, x # o
      PROVE  /\ order'[x] = "PAID" =>
                   /\ \E q \in Payments : OrderOf(q) = x /\ payment'[q] = "CAPTURED"
                   /\ "PAID" \in events'[x]
             /\ order'[x] = "PROCESSING" =>
                   \E q \in Payments : OrderOf(q) = x /\ payment'[q] = "AUTHORIZED"
  <2>1. \A q \in Payments : OrderOf(q) = x => payment'[q] = payment[q]
    BY <1>3
  <2>2. order'[x] = order[x] /\ events[x] \subseteq events'[x]
    BY <1>2, <1>3
  <2>3. QED
    BY <2>1, <2>2 DEF OrderIsBackedByPayment
<1>4. order'[o] = s /\ (s = "PAID" => "PAID" \in events'[o])
  BY <1>1, <1>2 DEF EventType
<1>5. QED
  BY <1>1, <1>3, <1>4 DEF OrderIsBackedByPayment

\* The inductive invariant survives the recording of a new payment ...
LEMMA RecordPaymentKeeps ==
    ASSUME IInv, NEW p \in Payments, RecordPayment(p)
    PROVE  LedgerMatchesPayment' /\ GatewayBacksRecord' /\ OrderIsBackedByPayment'
<1> DEFINE o == OrderOf(p)
<1>0. TypeOK /\ PhaseOK /\ LedgerMatchesPayment /\ GatewayBacksRecord /\ OrderIsBackedByPayment
  BY DEF IInv
<1>1. /\ payment[p] = "NONE" /\ answer[p] \in gateway[p]
      /\ answer[p] \in {"CREATED", "AUTHORIZED", "CAPTURED", "FAILED"}
  BY <1>0 DEF RecordPayment, PhaseOK, TypeOK, At
<1>2. \A q \in Payments : payment'[q] = IF q = p THEN answer[p] ELSE payment[q]
  BY <1>0 DEF RecordPayment, SetPayment, TypeOK
<1>3. LedgerMatchesPayment'
  BY <1>0, <1>1, SetPaymentLedger DEF RecordPayment, PaymentStatus, LedgerActions
<1>4. GatewayBacksRecord'
  BY <1>0, <1>1, <1>2 DEF RecordPayment, GatewayBacksRecord
<1>5. OrderIsBackedByPayment'
  <2>1. CASE answer[p] \in {"CAPTURED", "AUTHORIZED"}
    <3>1. SetOrder(o, IF answer[p] = "CAPTURED" THEN "PAID" ELSE "PROCESSING") /\ UNCHANGED ask
      BY <2>1 DEF RecordPayment
    <3>2. QED
      BY <1>0, <1>2, <2>1, <3>1, WrittenOrderIsBacked
  <2>2. CASE answer[p] \notin {"CAPTURED", "AUTHORIZED"}
    <3>1. UNCHANGED <<order, events, ask>>
      BY <2>2 DEF RecordPayment
    <3>2. QED
      BY <1>0, <1>1, <1>2, <3>1 DEF OrderIsBackedByPayment, OrderOf
  <2>3. QED
    BY <2>1, <2>2
<1>6. QED
  BY <1>3, <1>4, <1>5

\* ... and that of a capture or a void, although the row it overwrites need
\* not be the one it validated.
LEMMA RecordChangeKeeps ==
    ASSUME IInv, NEW t \in Calls, RecordChange(t)
    PROVE  LedgerMatchesPayment' /\ GatewayBacksRecord' /\ OrderIsBackedByPayment'
<1> DEFINE p == ask[t].on
           o == OrderOf(p)
<1>0. TypeOK /\ PhaseOK /\ LedgerMatchesPayment /\ GatewayBacksRecord /\ OrderIsBackedByPayment
  BY DEF IInv
<1>1. /\ p \in Payments /\ payment[p] # "NONE" /\ ask[t].kind \in {"capture", "void"}
      /\ ask[t].kind = "capture" => "CAPTURED" \in gateway[p]
  BY <1>0 DEF RecordChange, PhaseOK, At
<1>2. \A q \in Payments : payment'[q] = IF q = p THEN Target(t) ELSE payment[q]
  BY <1>0, <1>1 DEF RecordChange, SetPayment, TypeOK
<1>3. LedgerMatchesPayment'
  <2>1. Target(t) \in PaymentStatus \ {"NONE"}
    BY DEF Target, PaymentStatus
  <2>2. QED
    BY <1>0, <1>1, <2>1, SetPaymentLedger DEF RecordChange, LedgerActions
<1>4. GatewayBacksRecord'
  BY <1>0, <1>1, <1>2 DEF RecordChange, GatewayBacksRecord, Target
<1>5. OrderIsBackedByPayment'
  <2>1. SetOrder(o, IF ask[t].kind = "capture" THEN "PAID" ELSE "CANCELLED") /\ UNCHANGED ask
    BY DEF RecordChange
  <2>2. ask[t].kind = "capture" => payment'[p] = "CAPTURED"
    BY <1>1, <1>2 DEF Target
  <2>3. QED
    BY <1>0, <1>1, <1>2, <2>1, <2>2, WrittenOrderIsBacked
<1>6. QED
  BY <1>3, <1>4, <1>5

\* A quiet step disturbs none of the three.
LEMMA QuietKeeps ==
    ASSUME IInv, Quiet
    PROVE  LedgerMatchesPayment' /\ GatewayBacksRecord' /\ OrderIsBackedByPayment'
<1>0. LedgerMatchesPayment /\ GatewayBacksRecord /\ OrderIsBackedByPayment
  BY DEF IInv
<1>1. LedgerMatchesPayment'
  BY <1>0 DEF Quiet, LedgerMatchesPayment
<1>2. GatewayBacksRecord'
  BY <1>0 DEF Quiet, GatewayBacksRecord
<1>3. OrderIsBackedByPayment'
  BY <1>0 DEF Quiet, OrderIsBackedByPayment, OrderOf
<1>4. QED
  BY <1>1, <1>2, <1>3

-----------------------------------------------------------------------------
(* The theorems.                                                            *)

\* IInv is an inductive invariant.
LEMMA Inductive == Spec => []IInv
<1>1. IInv /\ [Next]_vars => IInv'
  <2> SUFFICES ASSUME IInv, [Next]_vars
               PROVE  IInv'
    OBVIOUS
  <2>1. TypeOK' /\ PhaseOK'
    <3>1. CASE UNCHANGED vars
      BY <3>1 DEF IInv, TypeOK, PhaseOK, vars
    <3>2. QED
      BY <3>1, PaymentStepTypes, CallStepTypes, OtherStepTypes, PaymentStepPhase,
         CallStepPhase, OtherStepPhase DEF Next, Terminated
  <2>2. LedgerMatchesPayment' /\ GatewayBacksRecord' /\ OrderIsBackedByPayment'
    BY QuietOrRecord, QuietKeeps, RecordPaymentKeeps, RecordChangeKeeps
  <2>3. QED
    BY <2>1, <2>2 DEF IInv
<1>2. QED
  BY InitIInv, <1>1, PTL DEF Spec

\* Orders, payments, ledgers and requests have their types: no save ever
\* writes a status or an event type that the model's tables do not have.
THEOREM TypeCorrect == Spec => []TypeOK
BY Inductive, PTL DEF IInv

\* An order is PAID only while some payment for it is CAPTURED, and PROCESSING
\* only while one is AUTHORIZED, whatever calls overlap and wherever they die.
THEOREM PaidOrderIsBacked == Spec => []OrderIsBackedByPayment
BY Inductive, PTL DEF IInv

\* A payment the database calls CAPTURED or AUTHORIZED is so at the gateway.
THEOREM RecordIsBacked == Spec => []GatewayBacksRecord
BY Inductive, PTL DEF IInv

\* The newest PaymentLedger row has the status of the payment, and the oldest
\* one, and no other, records its creation.
THEOREM LedgerComplete == Spec => []LedgerMatchesPayment
BY Inductive, PTL DEF IInv

\* No later call brings a FAILED payment back to life.
THEOREM FailedStays == Spec => FailedIsFinal
<1>1. ASSUME IInv, [Next]_vars
      PROVE  [\A p \in Payments : payment[p] = "FAILED" => payment'[p] = "FAILED"]_vars
  <2>0. TypeOK /\ PhaseOK
    BY <1>1 DEF IInv
  <2>1. CASE Quiet
    BY <2>1 DEF Quiet
  <2>2. ASSUME NEW p \in Payments, RecordPayment(p), NEW q \in Payments, payment[q] = "FAILED"
        PROVE  payment'[q] = "FAILED"
    BY <2>0, <2>2 DEF RecordPayment, SetPayment, PhaseOK, TypeOK, At
  <2>3. ASSUME NEW t \in Calls, RecordChange(t), NEW q \in Payments, payment[q] = "FAILED"
        PROVE  payment'[q] = "FAILED"
    BY <2>0, <2>3 DEF RecordChange, SetPayment, PhaseOK, TypeOK, At
  <2>4. QED
    BY <1>1, <2>1, <2>2, <2>3, QuietOrRecord
<1>2. QED
  BY <1>1, Inductive, PTL DEF Spec, FailedIsFinal

-----------------------------------------------------------------------------
(* Charges.                                                                 *)

\* A row of the payment ledger has the status, or a thread that has had the
\* gateway's answer is about to write it.
Recorded(p, status) == \E i \in DOMAIN ledger[p] : ledger[p][i].status = status
Recording(p, status) ==
    \/ pc[p] = "record" /\ answer[p] = status
    \/ \E t \in Calls : At(t, "record", {"capture", "void"}) /\ ask[t].on = p /\ Target(t) = status

ChargeInv ==
    crashes = 0 => \A p \in Payments : \A status \in {"CAPTURED", "VOIDED"} :
                      status \in gateway[p] => Recorded(p, status) \/ Recording(p, status)

\* Thread u, which has nothing to record, takes a step: whatever the gateway
\* does in it, u is about to record.
Moves(u) ==
    /\ pc[u] # "record" /\ UNCHANGED <<ask, ledger>>
    /\ \A t \in Threads \ {u} : pc'[t] = pc[t]
    /\ \A q \in Payments \ {u} : answer'[q] = answer[q]
    /\ \A p \in Payments : \A status \in {"CAPTURED", "VOIDED"} :
          status \in gateway'[p] => status \in gateway[p] \/ Recording(p, status)'

\* A step that only moves u on, or saves an order.
LEMMA QuietMove ==
    ASSUME TypeOK, NEW u \in Threads, NEW step, pc[u] # "record",
           pc' = [pc EXCEPT ![u] = step], UNCHANGED <<ask, ledger, answer, gateway>>
    PROVE  Moves(u)
BY DEF TypeOK, Moves

LEMMA PaymentMoves ==
    ASSUME TypeOK, NEW p \in Payments, PaymentStep(p)
    PROVE  Moves(p) \/ RecordPayment(p)
<1>1. p \in Threads
  BY DEF Threads
<1>2. CASE RefusePayment(p) \/ AcceptPayment(p)
  BY <1>1, <1>2, QuietMove DEF RefusePayment, AcceptPayment, Return, Goto, At, rows
<1>3. CASE Charge(p)
  <2>1. PICK a \in {"CREATED", "AUTHORIZED", "CAPTURED", "FAILED"} :
           /\ answer' = [answer EXCEPT ![p] = a]
           /\ gateway' = [gateway EXCEPT ![p] = @ \cup {a}]
    BY <1>3 DEF Charge
  <2>2. /\ pc'[p] = "record" /\ pc[p] = "charge" /\ UNCHANGED <<ask, ledger>>
        /\ \A t \in Threads \ {p} : pc'[t] = pc[t]
    BY <1>1, <1>3 DEF Charge, At, Goto, TypeOK, rows
  <2>3. /\ answer'[p] = a /\ gateway'[p] = gateway[p] \cup {a}
        /\ \A q \in Payments \ {p} : answer'[q] = answer[q] /\ gateway'[q] = gateway[q]
    BY <2>1 DEF TypeOK
  <2>4. Recording(p, a)'
    BY <2>2, <2>3 DEF Recording
  <2>5. QED
    BY <2>2, <2>3, <2>4 DEF Moves
<1>4. QED
  BY <1>2, <1>3 DEF PaymentStep

LEMMA CallMoves ==
    ASSUME TypeOK, NEW t \in Calls, CallStep(t)
    PROVE  Moves(t) \/ RecordChange(t) \/ UNCHANGED <<pc, ask, answer, gateway, ledger>>
<1>1. t \in Threads
  BY DEF Threads
<1>2. CASE \/ RefuseChange(t) \/ ReadPayment(t) \/ GatewayDeclines(t)
           \/ RefuseClose(t) \/ ReadOrder(t) \/ SaveOrder(t)
           \/ SelectOverdue(t) \/ SweepDone(t)
  BY <1>1, <1>2, QuietMove
     DEF RefuseChange, ReadPayment, GatewayDeclines, RefuseClose, ReadOrder,
         SaveOrder, SelectOverdue, SweepDone, Return, Goto, At, rows
<1>3. CASE ExpireNext(t)
  BY <1>3 DEF ExpireNext
<1>4. CASE CallGateway(t)
  <2>1. /\ pc'[t] = "record" /\ pc[t] = "call" /\ UNCHANGED <<ask, ledger, answer>>
        /\ ask[t].kind \in {"capture", "void"} /\ ask[t].on \in Payments
        /\ \A u \in Threads \ {t} : pc'[u] = pc[u]
    BY <1>1, <1>4, ChangesPayment DEF CallGateway, At, Goto, TypeOK, rows
  <2>2. /\ gateway'[ask[t].on] = gateway[ask[t].on] \cup {Target(t)}
        /\ \A q \in Payments \ {ask[t].on} : gateway'[q] = gateway[q]
    BY <1>4, <2>1 DEF CallGateway, TypeOK
  <2>3. Recording(ask[t].on, Target(t))'
    BY <2>1 DEF Recording, At, Target
  <2>4. ASSUME NEW p \in Payments, NEW status \in {"CAPTURED", "VOIDED"}, status \in gateway'[p]
        PROVE  status \in gateway[p] \/ Recording(p, status)'
    <3>1. CASE p = ask[t].on /\ status = Target(t)
      <4>1. ask'[t].on = p /\ Target(t)' = status
        BY <2>1, <3>1 DEF Target
      <4>2. QED
        BY <2>1, <4>1 DEF Recording, At
    <3>2. QED
      BY <2>2, <2>4, <3>1
  <2>5. QED
    BY <2>1, <2>4 DEF Moves
<1>5. QED
  BY <1>2, <1>3, <1>4 DEF CallStep

\* As long as nobody dies.
LEMMA StepsAlive ==
    ASSUME TypeOK, [Next]_vars, crashes' = 0
    PROVE  /\ crashes = 0
           /\ \/ UNCHANGED <<pc, ask, answer, gateway, ledger>>
              \/ \E u \in Threads : Moves(u)
              \/ \E p \in Payments : RecordPayment(p)
              \/ \E t \in Calls : RecordChange(t)
<1>0. crashes \in Nat /\ crashes' \in Nat /\ crashes <= crashes'
  <2>1. crashes \in Nat /\ (crashes' = crashes \/ crashes' = crashes + 1)
    BY DEF TypeOK, Next, Terminated, vars, CreateOrder, Begin, Crash, PaymentStep, CallStep,
           RefusePayment, AcceptPayment, Charge, RecordPayment, RefuseChange, ReadPayment,
           CallGateway, GatewayDeclines, RecordChange, RefuseClose, ReadOrder, SaveOrder,
           SelectOverdue, ExpireNext, SweepDone, SetOrderUnprotected
  <2>2. QED
    BY <2>1
<1>1. crashes = 0
  BY <1>0
<1>2. ASSUME NEW o \in Orders, CreateOrder(o)
      PROVE  UNCHANGED <<pc, ask, answer, gateway, ledger>>
  BY <1>2 DEF CreateOrder
<1>3. ASSUME NEW t \in Threads, Begin(t)
      PROVE  Moves(t)
  BY <1>3, QuietMove DEF Begin, Goto, rows
<1>4. ASSUME NEW t \in Threads, Crash(t)
      PROVE  FALSE
  BY <1>1, <1>4 DEF Crash
<1>5. CASE UNCHANGED vars
  BY <1>5 DEF vars
<1>6. Payments \subseteq Threads /\ Calls \subseteq Threads
  BY DEF Threads
<1>7. ASSUME NEW q \in Payments, PaymentStep(q)
      PROVE  Moves(q) \/ RecordPayment(q)
  BY <1>7, PaymentMoves
<1>8. ASSUME NEW t \in Calls, CallStep(t)
      PROVE  Moves(t) \/ RecordChange(t) \/ UNCHANGED <<pc, ask, answer, gateway, ledger>>
  BY <1>8, CallMoves
<1>9. QED
  BY <1>1, <1>2, <1>3, <1>4, <1>5, <1>6, <1>7, <1>8 DEF Next, Terminated

\* What a thread is about to record is still to be recorded when another moves.
LEMMA MoveKeeps ==
    ASSUME NEW u \in Threads, Moves(u), NEW p \in Payments, NEW status, Recording(p, status)
    PROVE  Recording(p, status)'
<1>1. CASE pc[p] = "record" /\ answer[p] = status
  BY <1>1 DEF Recording, Moves, Threads
<1>2. ASSUME NEW t \in Calls, At(t, "record", {"capture", "void"}), ask[t].on = p, Target(t) = status
      PROVE  Recording(p, status)'
  <2>1. pc'[t] = "record" /\ ask' = ask
    BY <1>2 DEF Moves, At, Threads
  <2>2. QED
    BY <1>2, <2>1 DEF Recording, At, Target
<1>3. QED
  BY <1>1, <1>2 DEF Recording

\* SetPayment appends a row of the ledger.
LEMMA SetPaymentRecords ==
    ASSUME TypeOK, NEW q \in Payments, NEW s \in PaymentStatus, NEW a \in LedgerActions,
           SetPayment(q, s, a)
    PROVE  /\ Recorded(q, s)'
           /\ \A p \in Payments : \A status : Recorded(p, status) => Recorded(p, status)'
<1> DEFINE e == [action |-> a, status |-> s]
           L == ledger[q]
           M == Append(L, e)
<1>1. L \in Seq([action : LedgerActions, status : PaymentStatus])
  BY DEF TypeOK
<1>2. /\ Len(L) \in Nat /\ DOMAIN L = 1 .. Len(L) /\ DOMAIN M = 1 .. Len(L) + 1
      /\ M[Len(L) + 1] = e /\ \A i \in 1 .. Len(L) : M[i] = L[i]
  BY <1>1
<1>3. ledger'[q] = M /\ \A p \in Payments \ {q} : ledger'[p] = ledger[p]
  BY DEF SetPayment, TypeOK
<1>4. e.status = s /\ Len(L) + 1 \in DOMAIN M
  BY <1>2
<1>5. Recorded(q, s)'
  BY <1>2, <1>3, <1>4 DEF Recorded
<1>6. ASSUME NEW status, Recorded(q, status) PROVE Recorded(q, status)'
  <2>1. PICK i \in DOMAIN L : L[i].status = status
    BY <1>6 DEF Recorded
  <2>2. i \in DOMAIN M /\ M[i] = L[i]
    BY <1>2, <2>1
  <2>3. QED
    BY <1>3, <2>1, <2>2 DEF Recorded
<1>7. ASSUME NEW p \in Payments \ {q}, NEW status, Recorded(p, status) PROVE Recorded(p, status)'
  BY <1>3, <1>7 DEF Recorded
<1>8. QED
  BY <1>5, <1>6, <1>7

LEMMA InitChargeInv == Init => ChargeInv
BY DEF Init, ChargeInv

LEMMA NextChargeInv == IInv /\ ChargeInv /\ [Next]_vars => ChargeInv'
<1> SUFFICES ASSUME IInv, ChargeInv, [Next]_vars, crashes' = 0,
                    NEW p \in Payments, NEW status \in {"CAPTURED", "VOIDED"},
                    status \in gateway'[p]
             PROVE  Recorded(p, status)' \/ Recording(p, status)'
  BY DEF ChargeInv
<1>0. TypeOK /\ PhaseOK
  BY DEF IInv
<1>1. crashes = 0
  BY <1>0, StepsAlive
<1>2. status \in gateway[p] => Recorded(p, status) \/ Recording(p, status)
  BY <1>1 DEF ChargeInv
<1>3. CASE UNCHANGED <<pc, ask, answer, gateway, ledger>>
  BY <1>2, <1>3 DEF Recorded, Recording, At, Target
<1>4. ASSUME NEW u \in Threads, Moves(u)
      PROVE  Recorded(p, status)' \/ Recording(p, status)'
  <2>1. status \in gateway[p] \/ Recording(p, status)'
    BY <1>4 DEF Moves
  <2>2. Recorded(p, status) => Recorded(p, status)'
    BY <1>4 DEF Moves, Recorded
  <2>3. QED
    BY <1>2, <1>4, <2>1, <2>2, MoveKeeps
<1>5. ASSUME NEW q \in Payments, RecordPayment(q)
      PROVE  Recorded(p, status)' \/ Recording(p, status)'
  <2>1. PICK s \in PaymentStatus : s = answer[q]
    BY <1>0 DEF TypeOK, PaymentStatus
  <2>2. /\ Recorded(q, s)'
        /\ Recorded(p, status) => Recorded(p, status)'
    BY <1>0, <1>5, <2>1, SetPaymentRecords DEF RecordPayment, LedgerActions
  <2>3. /\ UNCHANGED <<ask, answer, gateway>>
        /\ \A t \in Threads \ {q} : pc'[t] = pc[t]
    BY <1>0, <1>5 DEF RecordPayment, Return, Goto, TypeOK
  <2>4. CASE pc[p] = "record" /\ answer[p] = status
    <3>1. CASE p = q
      BY <2>1, <2>2, <2>4, <3>1
    <3>2. CASE p # q
      BY <2>3, <2>4, <3>2 DEF Recording, Threads
    <3>3. QED
      BY <3>1, <3>2
  <2>5. ASSUME NEW t \in Calls, At(t, "record", {"capture", "void"}), ask[t].on = p,
               Target(t) = status
        PROVE  Recording(p, status)'
    <3>1. t \in Threads \ {q}
      BY PaymentsAssumption DEF Threads
    <3>2. QED
      BY <2>3, <2>5, <3>1 DEF Recording, At, Target
  <2>6. QED
    BY <1>2, <2>2, <2>3, <2>4, <2>5 DEF Recording
<1>6. ASSUME NEW u \in Calls, RecordChange(u)
      PROVE  Recorded(p, status)' \/ Recording(p, status)'
  <2>1. PICK q \in Payments, s \in PaymentStatus : q = ask[u].on /\ s = Target(u)
    BY <1>0, <1>6, ChangesPayment DEF RecordChange, At, Target, PaymentStatus
  <2>2. /\ Recorded(q, s)'
        /\ Recorded(p, status) => Recorded(p, status)'
    BY <1>0, <1>6, <2>1, SetPaymentRecords DEF RecordChange, LedgerActions
  <2>3. /\ UNCHANGED <<ask, answer, gateway>>
        /\ \A t \in Threads \ {u} : pc'[t] = pc[t]
    BY <1>0, <1>6 DEF RecordChange, Return, Goto, TypeOK
  <2>4. CASE pc[p] = "record" /\ answer[p] = status
    <3>1. p \in Threads \ {u}
      BY PaymentsAssumption DEF Threads
    <3>2. QED
      BY <2>3, <2>4, <3>1 DEF Recording
  <2>5. ASSUME NEW t \in Calls, At(t, "record", {"capture", "void"}), ask[t].on = p,
               Target(t) = status
        PROVE  Recorded(p, status)' \/ Recording(p, status)'
    <3>1. CASE t = u
      BY <2>1, <2>2, <2>5, <3>1
    <3>2. CASE t # u
      BY <2>3, <2>5, <3>2 DEF Recording, At, Target, Threads
    <3>3. QED
      BY <3>1, <3>2
  <2>6. QED
    BY <1>2, <2>2, <2>3, <2>4, <2>5 DEF Recording
<1>7. QED
  BY <1>0, <1>3, <1>4, <1>5, <1>6, StepsAlive

\* As long as nobody has died, every charge and every void of the gateway is in
\* the ledger, or a thread is about to write it there.
THEOREM ChargesAreRecorded == Spec => []ChargesRecorded
<1>1. IInv /\ ChargeInv => ChargesRecorded
  <2> SUFFICES ASSUME IInv, ChargeInv, NEW p \in Payments, crashes = 0,
                      \A t \in Active : pc[t] = "record" => (t # p /\ ask[t].on # p),
                      NEW status \in {"CAPTURED", "VOIDED"}, status \in gateway[p]
               PROVE  \E i \in DOMAIN ledger[p] : ledger[p][i].status = status
    BY DEF ChargesRecorded
  <2>1. Recorded(p, status) \/ Recording(p, status)
    BY DEF ChargeInv
  <2>2. \A t \in Threads : pc[t] = "record" => t \in Active
    BY DEF Active
  <2>3. ~Recording(p, status)
    BY <2>2 DEF Recording, At, Threads
  <2>4. QED
    BY <2>1, <2>3 DEF Recorded
<1>2. QED
  BY <1>1, Inductive, InitChargeInv, NextChargeInv, PTL DEF Spec

-----------------------------------------------------------------------------
(* One call at a time.                                                       *)

\* What a call has read, and not written yet, still allows what it will write.
StillValid(t) ==
    /\ pc[t] \in {"call", "record"} => ValidPayment(payment[ask[t].on], Target(t))
    /\ pc[t] = "save" => ask[t].on \in Orders /\ ValidOrder(order[ask[t].on], Final(t))
    /\ pc[t] = "expire" => \A o \in todo[t] : order[o] = "PENDING"

\* Until two calls overlap, one is under way at most.
SoloInv == ~overlapped => /\ \A t, u \in Active : t = u
                          /\ \A t \in Calls : StillValid(t)

\* So a step of its keeps the invariant if what it has read still holds.
LEMMA SoloStep ==
    ASSUME SoloInv, NEW t \in Threads, t \in Active, UNCHANGED overlapped,
           \A u \in Threads \ {t} : pc'[u] = pc[u],
           ~overlapped /\ t \in Calls => StillValid(t)'
    PROVE  SoloInv'
<1> SUFFICES ASSUME ~overlapped
             PROVE  /\ \A v, u \in Active' : v = u
                    /\ \A u \in Calls : StillValid(u)'
  BY DEF SoloInv
<1>1. \A u \in Threads \ {t} : pc[u] \in {"idle", "done"}
  BY DEF SoloInv, Active
<1>2. \A u \in Threads \ {t} : pc'[u] \in {"idle", "done"}
  BY <1>1
<1>3. \A u \in Active' : u = t
  BY <1>2 DEF Active
<1>4. \A u \in Calls : StillValid(u)'
  <2> SUFFICES ASSUME NEW u \in Calls, u # t PROVE StillValid(u)'
    OBVIOUS
  <2>1. pc'[u] \in {"idle", "done"}
    BY <1>2 DEF Threads
  <2>2. QED
    BY <2>1 DEF StillValid
<1>5. QED
  BY <1>3, <1>4

LEMMA InitSoloInv == Init => SoloInv
BY DEF Init, SoloInv, StillValid, Active, Threads

\* The steps of create_payment: nothing it has read is tested later.
LEMMA PaymentSolo == ASSUME TypeOK, SoloInv, NEW p \in Payments, PaymentStep(p) PROVE SoloInv'
<1>1. p \in Threads /\ p \notin Calls
  BY PaymentsAssumption DEF Threads
<1>2. /\ pc[p] \in {"begin", "charge", "record"} /\ UNCHANGED overlapped
      /\ \A u \in Threads \ {p} : pc'[u] = pc[u]
  BY <1>1 DEF PaymentStep, RefusePayment, AcceptPayment, Charge, RecordPayment, At, Return,
              Goto, TypeOK
<1>3. p \in Active
  BY <1>1, <1>2 DEF Active
<1>4. QED
  BY <1>1, <1>2, <1>3, SoloStep

\* The steps of the other calls.
LEMMA CallSolo == ASSUME TypeOK, SoloInv, NEW t \in Calls, CallStep(t) PROVE SoloInv'
<1>1. t \in Threads
  BY DEF Threads
<1>2. /\ pc[t] \in {"begin", "call", "record", "save", "expire"} /\ UNCHANGED <<overlapped, ask>>
      /\ \A u \in Threads \ {t} : pc'[u] = pc[u]
  BY <1>1 DEF CallStep, RefuseChange, ReadPayment, CallGateway, GatewayDeclines, RecordChange,
              RefuseClose, ReadOrder, SaveOrder, SelectOverdue, ExpireNext, SweepDone, At,
              Return, Goto, TypeOK
<1>3. t \in Active
  BY <1>1, <1>2 DEF Active
<1>4. ASSUME ~overlapped PROVE StillValid(t)'
  <2>0. StillValid(t)
    BY <1>4 DEF SoloInv
  <2>1. CASE \/ RefuseChange(t) \/ RecordChange(t) \/ RefuseClose(t)
             \/ SaveOrder(t) \/ SweepDone(t)
    <3>1. pc'[t] = "done"
      BY <1>1, <2>1 DEF RefuseChange, RecordChange, RefuseClose, SaveOrder, SweepDone,
                        Return, Goto, TypeOK
    <3>2. QED
      BY <3>1 DEF StillValid
  <2>2. CASE ReadPayment(t)
    <3>1. pc'[t] = "call" /\ UNCHANGED <<payment, ask>> /\ ValidPayment(payment[ask[t].on], Target(t))
      BY <1>1, <2>2 DEF ReadPayment, Goto, TypeOK, rows
    <3>2. QED
      BY <3>1 DEF StillValid, Target
  <2>3. CASE CallGateway(t) \/ GatewayDeclines(t)
    <3>1. /\ pc'[t] \in {"record", "done"} /\ UNCHANGED <<payment, ask>>
          /\ pc[t] = "call"
      BY <1>1, <2>3 DEF CallGateway, GatewayDeclines, Goto, At, TypeOK, rows
    <3>2. QED
      BY <2>0, <3>1 DEF StillValid, Target
  <2>4. CASE ReadOrder(t)
    <3>1. /\ pc'[t] = "save" /\ UNCHANGED <<order, ask>> /\ ask[t].on \in Orders
          /\ ValidOrder(order[ask[t].on], Final(t))
      BY <1>1, <2>4, ClosesOrder DEF ReadOrder, Goto, At, TypeOK, rows
    <3>2. QED
      BY <3>1 DEF StillValid, Final
  <2>5. CASE SelectOverdue(t)
    <3>1. PICK S \in SUBSET {o \in Orders : order[o] = "PENDING"} : todo' = [todo EXCEPT ![t] = S]
      BY <2>5 DEF SelectOverdue
    <3>2. pc'[t] = "expire" /\ order' = order /\ todo'[t] = S
      BY <1>1, <2>5, <3>1 DEF SelectOverdue, Goto, TypeOK, rows
    <3>3. QED
      BY <3>1, <3>2 DEF StillValid
  <2>6. CASE ExpireNext(t)
    <3>1. PICK o \in todo[t] :
             /\ SetOrderUnprotected(o, "EXPIRED", "EXPIRED")
             /\ todo' = [todo EXCEPT ![t] = IF crashes' = crashes THEN @ \ {o} ELSE {}]
      BY <2>6 DEF ExpireNext
    <3>2. pc' = pc /\ pc[t] = "expire"
      BY <2>6 DEF ExpireNext, At
    <3>3. todo'[t] \subseteq todo[t] \ {o} /\ todo[t] \subseteq Orders
      BY <3>1 DEF TypeOK
    <3>4. \A x \in Orders \ {o} : order'[x] = order[x]
      BY <3>1 DEF SetOrderUnprotected, TypeOK
    <3>5. \A x \in todo'[t] : order'[x] = "PENDING"
      BY <2>0, <3>2, <3>3, <3>4 DEF StillValid
    <3>6. QED
      BY <3>2, <3>5 DEF StillValid
  <2>7. QED
    BY <2>1, <2>2, <2>3, <2>4, <2>5, <2>6 DEF CallStep
<1>5. QED
  BY <1>1, <1>2, <1>3, <1>4, SoloStep

LEMMA NextSoloInv == TypeOK /\ SoloInv /\ [Next]_vars => SoloInv'
<1> SUFFICES ASSUME TypeOK, SoloInv, [Next]_vars PROVE SoloInv'
  OBVIOUS
<1>1. ASSUME NEW o \in Orders, CreateOrder(o) PROVE SoloInv'
  <2>1. /\ order[o] = "NONE" /\ UNCHANGED <<pc, payment, ask, todo, overlapped>>
        /\ \A x \in Orders \ {o} : order'[x] = order[x]
    BY <1>1 DEF CreateOrder, SetOrderUnprotected, TypeOK
  <2>2. Active' = Active
    BY <2>1 DEF Active
  <2>3. ASSUME ~overlapped, NEW t \in Calls PROVE StillValid(t)'
    <3>0. StillValid(t)
      BY <2>3 DEF SoloInv
    <3>1. pc[t] = "save" => ask[t].on \in Orders \ {o}
      BY <2>1, <3>0 DEF StillValid, ValidOrder, Valid, VALID_TRANSITIONS, Final
    <3>2. QED
      BY <2>1, <3>0, <3>1 DEF StillValid, Target, Final, TypeOK
  <2>4. QED
    BY <2>1, <2>2, <2>3 DEF SoloInv
<1>2. ASSUME NEW t \in Threads, Begin(t) PROVE SoloInv'
  <2> SUFFICES ASSUME ~overlapped' PROVE SoloInv'
    BY DEF SoloInv
  <2>1. ~overlapped /\ Active = {}
    BY <1>2 DEF Begin, TypeOK
  <2>2. pc'[t] = "begin" /\ \A u \in Threads \ {t} : pc'[u] = pc[u]
    BY <1>2 DEF Begin, Goto, TypeOK
  <2>3. \A u \in Threads \ {t} : pc'[u] \in {"idle", "done"}
    BY <2>1, <2>2 DEF Active
  <2>4. \A u \in Active' : u = t
    BY <2>3 DEF Active
  <2>5. \A u \in Calls : StillValid(u)'
    BY <2>2, <2>3 DEF StillValid, Threads
  <2>6. QED
    BY <2>4, <2>5 DEF SoloInv
<1>3. ASSUME NEW t \in Threads, Crash(t) PROVE SoloInv'
  <2>1. /\ pc'[t] = "done" /\ t \in Active /\ UNCHANGED overlapped
        /\ \A u \in Threads \ {t} : pc'[u] = pc[u]
    BY <1>3 DEF Crash, Return, Goto, TypeOK
  <2>2. StillValid(t)'
    BY <2>1 DEF StillValid
  <2>3. QED
    BY <2>1, <2>2, SoloStep
<1>4. CASE UNCHANGED vars
  BY <1>4 DEF vars, SoloInv, StillValid, Active, Target, Final
<1>5. QED
  BY <1>1, <1>2, <1>3, <1>4, PaymentSolo, CallSolo DEF Next, Terminated

\* Both hold of every behaviour.
LEMMA Solo == Spec => [](IInv /\ SoloInv)
<1>1. IInv => TypeOK
  BY DEF IInv
<1>2. QED
  BY <1>1, Inductive, InitSoloInv, NextSoloInv, PTL DEF Spec

\* Until two calls overlap, the payment status follows its transition table,
\* wherever a call dies.
THEOREM TransitionsFollowTable == Spec => PaymentTransitionsValid
<1>1. ASSUME IInv, SoloInv, [Next]_vars, ~overlapped, NEW p \in Payments, payment[p] # "NONE"
      PROVE  ValidPayment(payment[p], payment'[p])
  <2>0. TypeOK /\ PhaseOK
    BY <1>1 DEF IInv
  <2>1. CASE Quiet
    BY <2>1 DEF Quiet, ValidPayment, Valid
  <2>2. ASSUME NEW q \in Payments, RecordPayment(q)
        PROVE  ValidPayment(payment[p], payment'[p])
    <3>1. payment[q] = "NONE"
      BY <2>0, <2>2 DEF RecordPayment, PhaseOK, At
    <3>2. payment'[p] = payment[p]
      BY <1>1, <2>0, <2>2, <3>1 DEF RecordPayment, SetPayment, TypeOK
    <3>3. QED
      BY <3>2 DEF ValidPayment, Valid
  <2>3. ASSUME NEW t \in Calls, RecordChange(t)
        PROVE  ValidPayment(payment[p], payment'[p])
    <3>1. payment'[p] = IF p = ask[t].on THEN Target(t) ELSE payment[p]
      BY <2>0, <2>3 DEF RecordChange, SetPayment, TypeOK
    <3>2. ValidPayment(payment[ask[t].on], Target(t))
      BY <1>1, <2>3 DEF SoloInv, StillValid, RecordChange, At
    <3>3. QED
      BY <3>1, <3>2 DEF ValidPayment, Valid
  <2>4. QED
    BY <1>1, <2>1, <2>2, <2>3, QuietOrRecord
<1>2. IInv /\ SoloInv /\ [Next]_vars =>
        [~overlapped => \A p \in Payments :
            payment[p] # "NONE" => ValidPayment(payment[p], payment'[p])]_vars
  BY <1>1
<1>3. QED
  BY <1>2, Solo, PTL DEF Spec, PaymentTransitionsValid

\* And nothing but a PENDING order becomes EXPIRED.
THEOREM OnlyPendingExpire == Spec => OnlyPendingExpires
<1>1. ASSUME IInv, SoloInv, [Next]_vars, ~overlapped, NEW o \in Orders, order'[o] = "EXPIRED"
      PROVE  order[o] \in {"PENDING", "EXPIRED"}
  <2>0. TypeOK
    BY <1>1 DEF IInv
  <2>1. ASSUME NEW x \in Orders, CreateOrder(x) PROVE order[o] = "EXPIRED"
    BY <1>1, <2>0, <2>1 DEF CreateOrder, SetOrderUnprotected, TypeOK
  <2>2. ASSUME NEW t \in Threads, Begin(t) \/ Crash(t) PROVE order[o] = "EXPIRED"
    BY <1>1, <2>2 DEF Begin, Crash, rows
  <2>3. ASSUME NEW p \in Payments, PaymentStep(p) PROVE order[o] = "EXPIRED"
    <3>1. CASE RefusePayment(p) \/ AcceptPayment(p) \/ Charge(p)
      BY <1>1, <3>1 DEF RefusePayment, AcceptPayment, Charge, rows
    <3>2. CASE RecordPayment(p)
      <4>1. \/ order' = [order EXCEPT ![OrderOf(p)] = "PAID"]
            \/ order' = [order EXCEPT ![OrderOf(p)] = "PROCESSING"]
            \/ order' = order
        BY <3>2 DEF RecordPayment, SetOrder
      <4>2. QED
        BY <1>1, <2>0, <4>1 DEF TypeOK
    <3>3. QED
      BY <2>3, <3>1, <3>2 DEF PaymentStep
  <2>4. ASSUME NEW t \in Calls, CallStep(t) PROVE order[o] \in {"PENDING", "EXPIRED"}
    <3>0. StillValid(t)
      BY <1>1 DEF SoloInv
    <3>1. CASE \/ RefuseChange(t) \/ ReadPayment(t) \/ CallGateway(t) \/ GatewayDeclines(t)
               \/ RefuseClose(t) \/ ReadOrder(t) \/ SelectOverdue(t) \/ SweepDone(t)
      BY <1>1, <3>1 DEF RefuseChange, ReadPayment, CallGateway, GatewayDeclines, RefuseClose,
                        ReadOrder, SelectOverdue, SweepDone, rows
    <3>2. CASE RecordChange(t)
      BY <1>1, <2>0, <3>2 DEF RecordChange, SetOrder, TypeOK
    <3>3. CASE SaveOrder(t)
      <4>1. order' = [order EXCEPT ![ask[t].on] = Final(t)]
        BY <3>3 DEF SaveOrder, SetOrderUnprotected
      <4>2. ValidOrder(order[ask[t].on], Final(t))
        BY <3>0, <3>3 DEF SaveOrder, StillValid, At
      <4>3. CASE o = ask[t].on
        <5>1. Final(t) = "EXPIRED"
          BY <1>1, <2>0, <4>1, <4>3 DEF TypeOK
        <5>2. QED
          BY <4>2, <4>3, <5>1 DEF ValidOrder, Valid, VALID_TRANSITIONS
      <4>4. CASE o # ask[t].on
        BY <1>1, <2>0, <4>1, <4>4 DEF TypeOK
      <4>5. QED
        BY <4>3, <4>4
    <3>4. CASE ExpireNext(t)
      <4>1. PICK x \in todo[t] : order' = [order EXCEPT ![x] = "EXPIRED"]
        BY <3>4 DEF ExpireNext, SetOrderUnprotected
      <4>2. order[x] = "PENDING"
        BY <3>0, <3>4, <4>1 DEF ExpireNext, StillValid, At
      <4>3. QED
        BY <1>1, <2>0, <4>1, <4>2 DEF TypeOK
    <3>5. QED
      BY <2>4, <3>1, <3>2, <3>3, <3>4 DEF CallStep
  <2>5. CASE UNCHANGED vars
    BY <1>1, <2>5 DEF vars
  <2>6. QED
    BY <1>1, <2>1, <2>2, <2>3, <2>4, <2>5 DEF Next, Terminated
<1>2. IInv /\ SoloInv /\ [Next]_vars =>
        [~overlapped => \A o \in Orders :
            order'[o] = "EXPIRED" => order[o] \in {"PENDING", "EXPIRED"}]_vars
  BY <1>1
<1>3. QED
  BY <1>2, Solo, PTL DEF Spec, OnlyPendingExpires
=============================================================================

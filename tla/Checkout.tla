------------------------------ MODULE Checkout ------------------------------
(***************************************************************************)
(* The money of one customer with one merchant (apps/payments with its     *)
(* gateway adapters, apps/refunds, apps/wallet and apps/orders together):  *)
(* sales made through the real adapters, some of them paid from the        *)
(* wallet, and refunds that flow back into it.                             *)
(*                                                                         *)
(* The races within one engine are the business of Payments, Refunds and   *)
(* Wallet.  Here a capture, a void, a refund request and a refund's last   *)
(* transaction are one step each; create_payment keeps its steps, because  *)
(* the wallet is debited in a transaction of its own before the payment is *)
(* recorded.                                                               *)
(***************************************************************************)
EXTENDS Integers, FiniteSetsExt, Functions

CONSTANTS Purchases,    \* the orders
          Price,        \* Price[o]: the amount of order o
          Sales,        \* calls of create_payment, each naming its payment
          Returns,      \* refunds
          Opening,      \* what the wallet holds at first
          MaxLost,      \* sales that die half-way
          NoPayment, NoRefund

ASSUME CheckoutAssumption == /\ IsFiniteSet(Purchases) /\ IsFiniteSet(Sales)
                             /\ IsFiniteSet(Returns)
                             /\ Price \in [Purchases -> Nat \ {0}]
                             /\ Opening \in Nat /\ MaxLost \in Nat

VARIABLES purchase,     \* purchase[o]: the status of order o
          sale,         \* sale[p]: how far call p is
          paymentRow,   \* paymentRow[p]: the Payment row, or NoPayment
          refundRow,    \* refundRow[r]: the Refund row, or NoRefund
          purse         \* the wallet

checkoutVars == <<purchase, sale, paymentRow, refundRow, purse>>

\* _adapters of the factory: COD has the adapter of DUMMY.
Gateways == {"DUMMY", "COD", "STRIPE", "RAZORPAY", "WALLET"}

PurchaseRow == {"PENDING", "PROCESSING", "PAID", "CANCELLED", "EXPIRED"}
PaymentRow == [order : Purchases, gateway : Gateways,
               status : {"CREATED", "AUTHORIZED", "CAPTURED", "FAILED", "VOIDED",
                         "PARTIALLY_REFUNDED", "FULLY_REFUNDED"}]
RefundRow == [of : Sales, amount : Nat \ {0},
              status : {"CREATED", "PROCESSING", "SUCCESS", "FAILED"}]

ASSUME NoRowAssumption == NoPayment \notin PaymentRow /\ NoRefund \notin RefundRow

Purse == [status : {"ACTIVE", "FROZEN"}, balance : Nat]

CheckoutInit ==
    /\ purchase = [o \in Purchases |-> "PENDING"]
    /\ sale = [p \in Sales |-> [step |-> "new"]]
    /\ paymentRow = [p \in Sales |-> NoPayment]
    /\ refundRow = [r \in Returns |-> NoRefund]
    /\ purse = [status |-> "ACTIVE", balance |-> Opening]

-----------------------------------------------------------------------------
(* create_payment.                                                          *)
StartSale(p, o, gateway) ==
    /\ sale[p].step = "new"
    /\ purchase[o] \in {"PENDING", "PROCESSING"}
    /\ sale' = [sale EXCEPT ![p] = [step |-> "charge", order |-> o, gateway |-> gateway]]
    /\ UNCHANGED <<purchase, paymentRow, refundRow, purse>>

\* debit_wallet refuses a frozen wallet and one that holds too little.
CanDebit(amount) == purse.status = "ACTIVE" /\ purse.balance >= amount

\* What create_payment of the adapter answers.
GatewayAnswer(gateway, amount) ==
    CASE gateway \in {"DUMMY", "COD"} -> "CAPTURED"
      [] gateway = "STRIPE" -> "AUTHORIZED"
      [] gateway = "RAZORPAY" -> "CREATED"
      [] gateway = "WALLET" -> IF CanDebit(amount) THEN "CAPTURED" ELSE "FAILED"

\* The gateway acts: only the wallet is money of ours.
ChargeSale(p) ==
    /\ sale[p].step = "charge"
    /\ LET amount == Price[sale[p].order]
           answer == GatewayAnswer(sale[p].gateway, amount)
       IN /\ sale' = [sale EXCEPT ![p] = [step |-> "insert", order |-> sale[p].order,
                                          gateway |-> sale[p].gateway, answer |-> answer]]
          /\ purse' = IF sale[p].gateway = "WALLET" /\ answer = "CAPTURED"
                      THEN [purse EXCEPT !.balance = @ - amount] ELSE purse
    /\ UNCHANGED <<purchase, paymentRow, refundRow>>

\* The row gets its created_at when it is inserted,
StampSale(p) ==
    /\ sale[p].step = "insert"
    /\ sale' = [sale EXCEPT ![p].step = "commit"]
    /\ UNCHANGED <<purchase, paymentRow, refundRow, purse>>

\* and is seen, with the order's new status, when the transaction commits.
RecordSale(p) ==
    /\ sale[p].step = "commit"
    /\ sale' = [sale EXCEPT ![p].step = "done"]
    /\ paymentRow' = [paymentRow EXCEPT ![p] =
                         [order |-> sale[p].order, gateway |-> sale[p].gateway,
                          status |-> sale[p].answer]]
    /\ purchase' = CASE sale[p].answer = "CAPTURED" -> [purchase EXCEPT ![sale[p].order] = "PAID"]
                     [] sale[p].answer = "AUTHORIZED" ->
                            [purchase EXCEPT ![sale[p].order] = "PROCESSING"]
                     [] OTHER -> purchase
    /\ UNCHANGED <<refundRow, purse>>

Lost == {p \in Sales : sale[p].step = "lost"}

\* The request dies: the transaction is rolled back, the debit stays.
SaleDies(p) ==
    /\ sale[p].step \in {"insert", "commit"} /\ Cardinality(Lost) < MaxLost
    /\ sale' = [sale EXCEPT ![p].step = "lost"]
    /\ UNCHANGED <<purchase, paymentRow, refundRow, purse>>

-----------------------------------------------------------------------------
(* capture_payment and void_payment: every adapter says yes.                *)
Recorded == {p \in Sales : paymentRow[p] # NoPayment}

SetSale(p, status, orderStatus) ==
    /\ paymentRow' = [paymentRow EXCEPT ![p].status = status]
    /\ purchase' = [purchase EXCEPT ![paymentRow[p].order] = orderStatus]
    /\ UNCHANGED <<sale, refundRow, purse>>

CaptureSale(p) ==
    /\ p \in Recorded /\ paymentRow[p].status \in {"CREATED", "AUTHORIZED", "CAPTURED"}
    /\ SetSale(p, "CAPTURED", "PAID")

VoidSale(p) ==
    /\ p \in Recorded /\ paymentRow[p].status \in {"AUTHORIZED", "VOIDED"}
    /\ SetSale(p, "VOIDED", "CANCELLED")

-----------------------------------------------------------------------------
(* cancel_order, expire_order and the auto-expiry.  Each reads the order,   *)
(* finds it PENDING (or PROCESSING, to cancel it), and saves its status     *)
(* later; every order was PENDING once, so such a save may come at any      *)
(* time, after the order was PAID too.                                      *)
CloseOrder(o, status) ==
    /\ purchase' = [purchase EXCEPT ![o] = status]
    /\ UNCHANGED <<sale, paymentRow, refundRow, purse>>

-----------------------------------------------------------------------------
(* Refunds.                                                                 *)
Amount(p) == Price[paymentRow[p].order]
Requested == {r \in Returns : refundRow[r] # NoRefund}
Reserved(p) == {r \in Requested : refundRow[r].of = p /\ refundRow[r].status # "FAILED"}
SumRefunds(R) == SumFunction([r \in R |-> refundRow[r].amount])

\* create_refund.
RequestReturn(r, p, amount) ==
    /\ refundRow[r] = NoRefund /\ p \in Recorded
    /\ paymentRow[p].status \in {"CAPTURED", "PARTIALLY_REFUNDED"}
    /\ amount <= Amount(p) - SumRefunds(Reserved(p))
    /\ refundRow' = [refundRow EXCEPT ![r] = [of |-> p, amount |-> amount, status |-> "CREATED"]]
    /\ UNCHANGED <<purchase, sale, paymentRow, purse>>

\* process_refund_task.
TakeReturn(r) ==
    /\ r \in Requested /\ refundRow[r].status = "CREATED"
    /\ refundRow' = [refundRow EXCEPT ![r].status = "PROCESSING"]
    /\ UNCHANGED <<purchase, sale, paymentRow, purse>>

FromWallet(r) == paymentRow[refundRow[r].of].gateway = "WALLET"

ReturnStatus(p) == IF SumRefunds(Reserved(p)) >= Amount(p) THEN "FULLY_REFUNDED"
                                                           ELSE "PARTIALLY_REFUNDED"

\* Variant: every refund goes to the wallet.
CreditAnyWay(r) ==
    /\ r \in Requested /\ refundRow[r].status = "PROCESSING" /\ purse.status = "ACTIVE"
    /\ refundRow' = [refundRow EXCEPT ![r].status = "SUCCESS"]
    /\ purse' = [purse EXCEPT !.balance = @ + refundRow[r].amount]
    /\ paymentRow' = [paymentRow EXCEPT ![refundRow[r].of].status = ReturnStatus(refundRow[r].of)]
    /\ UNCHANGED <<purchase, sale>>

\* The task's last transaction; the order is left as it is.
PayBack(r) ==
    /\ r \in Requested /\ refundRow[r].status = "PROCESSING"
    /\ FromWallet(r) => purse.status = "ACTIVE"
    /\ refundRow' = [refundRow EXCEPT ![r].status = "SUCCESS"]
    /\ purse' = IF FromWallet(r) THEN [purse EXCEPT !.balance = @ + refundRow[r].amount] ELSE purse
    /\ paymentRow' = [paymentRow EXCEPT ![refundRow[r].of].status = ReturnStatus(refundRow[r].of)]
    /\ UNCHANGED <<purchase, sale>>

\* credit_wallet refuses a frozen wallet: rolled back, retried, given up.
GiveUpReturn(r) ==
    /\ r \in Requested /\ refundRow[r].status = "PROCESSING"
    /\ FromWallet(r) /\ purse.status = "FROZEN"
    /\ refundRow' = [refundRow EXCEPT ![r].status = "FAILED"]
    /\ UNCHANGED <<purchase, sale, paymentRow, purse>>

\* freeze_wallet and unfreeze_wallet.
TurnPurse ==
    /\ purse' = [purse EXCEPT !.status = IF @ = "ACTIVE" THEN "FROZEN" ELSE "ACTIVE"]
    /\ UNCHANGED <<purchase, sale, paymentRow, refundRow>>

-----------------------------------------------------------------------------
CheckoutNext ==
    \/ \E p \in Sales : \/ \E o \in Purchases, gateway \in Gateways : StartSale(p, o, gateway)
                        \/ ChargeSale(p) \/ StampSale(p) \/ RecordSale(p) \/ SaleDies(p)
                        \/ CaptureSale(p) \/ VoidSale(p)
    \/ \E o \in Purchases, status \in {"CANCELLED", "EXPIRED"} : CloseOrder(o, status)
    \/ \E r \in Returns :
          \/ \E p \in Recorded : \E amount \in 1 .. Amount(p) : RequestReturn(r, p, amount)
          \/ TakeReturn(r) \/ PayBack(r) \/ GiveUpReturn(r)
    \/ TurnPurse

CheckoutSpec == CheckoutInit /\ [][CheckoutNext]_checkoutVars

-----------------------------------------------------------------------------
(* Properties.                                                              *)

\* Every variable has its type.
CheckoutTypeOK ==
    /\ purchase \in [Purchases -> PurchaseRow]
    /\ \A p \in Sales : sale[p].step \in {"new", "charge", "insert", "commit", "done", "lost"}
    /\ paymentRow \in [Sales -> PaymentRow \cup {NoPayment}]
    /\ refundRow \in [Returns -> RefundRow \cup {NoRefund}]
    /\ purse \in Purse

Charged == {p \in Sales : /\ sale[p].step \in {"insert", "commit", "done", "lost"}
                          /\ sale[p].gateway = "WALLET" /\ sale[p].answer = "CAPTURED"}
PaidBack == {r \in Requested : refundRow[r].status = "SUCCESS" /\ FromWallet(r)}

\* The wallet and the payments tell one story: what has left the wallet is what
\* the sales recorded as paid from it cost, less what was refunded of them, and
\* what a call that is under way, or has died, has taken and not recorded.  No
\* sale gives back more than it cost, and one that is FAILED has cost nothing.
MoneyIsAccounted ==
    /\ Opening - purse.balance =
          SumFunction([p \in Charged |-> Price[sale[p].order]]) - SumRefunds(PaidBack)
    /\ \A p \in Sales :
          /\ p \in Recorded /\ paymentRow[p].gateway = "WALLET" =>
                (p \in Charged <=> paymentRow[p].status # "FAILED")
          /\ p \in Charged \ Recorded => sale[p].step \in {"insert", "commit", "lost"}
          /\ p \in Recorded => SumRefunds({r \in PaidBack : refundRow[r].of = p}) <= Amount(p)
=============================================================================

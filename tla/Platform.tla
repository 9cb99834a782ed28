------------------------------ MODULE Platform ------------------------------
(***************************************************************************)
(* The parts around the payment core, side by side: webhooks and the        *)
(* outbox, notifications, accounts, coupons, merchants, customers,          *)
(* requests, and the checkout with its reports.  In the model they share    *)
(* no state, so any step of the platform is a step, or none, of each.       *)
(***************************************************************************)
EXTENDS Webhooks, Notifications, Accounts, Coupons, Merchants, Customers, Requests, Reports

platformVars == <<webhookVars, notificationVars, accountVars, couponVars, merchantVars,
                  customerVars, requestVars, booksVars>>

PlatformSpec == /\ WebhookSpec /\ NotificationSpec /\ AccountSpec /\ CouponSpec
                /\ MerchantSpec /\ CustomerSpec /\ RequestSpec /\ BooksSpec

-----------------------------------------------------------------------------
(* Properties: each joins those of the parts that say the same of their      *)
(* part; the parts' modules say what and why.                                *)

\* Every variable of every part has its type.
PlatformTypeOK == /\ WebhookTypeOK /\ NotificationTypeOK /\ AccountTypeOK /\ CouponTypeOK
                  /\ MerchantTypeOK /\ CustomerTypeOK /\ RequestTypeOK
                  /\ CheckoutTypeOK /\ ReportTypeOK

\* The status of a delivery, an event or a notification says what has happened
\* to it, and no notification is dropped unnoticed.
StatusTells == StatusIsEarned /\ StatusTellsMail /\ NoticeNotDropped

\* What readers are told is true of the books, every recorded request can be
\* traced, and no two customers share an address.
AnswersAreTrue == ReportsTell /\ RequestsAreTraced /\ CustomersAreDistinct

\* What one request has stored, another that holds an older copy of the row does
\* not undo: accounts, API keys, profiles, endpoints, customers.
RecordsAreKept ==
    [][AccountIsKept /\ KeysAreKept /\ MerchantIsServed /\ EndpointNeverReverts
       /\ CustomersAreKept]_platformVars
=============================================================================

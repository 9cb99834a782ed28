----------------------------- MODULE MCPlatform -----------------------------
(* Small instances of the parts around the payment core.  They share no     *)
(* state, so one run takes them one at a time: the scenario, chosen at      *)
(* first, says which part is at work and what bounds it; the others rest.   *)
EXTENDS Platform

VARIABLE scenario

Filters == {{}, {"payment.captured"}}

\* Percentages in hundredths, so 1250 is 12.5%; a cap of 0 and a limit of 1.
Terms == {[type |-> "PERCENTAGE", value |-> 1250, cap |-> NoCap, minimum |-> 0, limit |-> 1],
          [type |-> "PERCENTAGE", value |-> 1250, cap |-> 1, minimum |-> 5, limit |-> 2],
          [type |-> "PERCENTAGE", value |-> 1250, cap |-> 0, minimum |-> 5, limit |-> 2],
          [type |-> "FIXED", value |-> 5, cap |-> NoCap, minimum |-> 0, limit |-> 2],
          [type |-> "FIXED", value |-> -5, cap |-> NoCap, minimum |-> 0, limit |-> 1]}
Changes == {[cap |-> 0], [limit |-> 1, status |-> "ACTIVE"],
            [value |-> 10000, cap |-> 1, status |-> "EXPIRED"]}
Prices == [o \in Purchases |-> 3]

First(S) == CHOOSE x \in S : TRUE

-----------------------------------------------------------------------------
(* The scenarios, each with its bounds on the next state.                   *)
Runs(name, vars) == scenario = name /\ UNCHANGED <<scenario, vars>>

\* The variables of all parts but the named one.
NotWebhooks == <<notificationVars, accountVars, couponVars, merchantVars,
                 customerVars, requestVars, booksVars>>
NotNotifications == <<webhookVars, accountVars, couponVars, merchantVars,
                      customerVars, requestVars, booksVars>>
NotAccounts == <<webhookVars, notificationVars, couponVars, merchantVars,
                 customerVars, requestVars, booksVars>>
NotCoupons == <<webhookVars, notificationVars, accountVars, merchantVars,
                customerVars, requestVars, booksVars>>
NotMerchants == <<webhookVars, notificationVars, accountVars, couponVars,
                  customerVars, requestVars, booksVars>>
NotCustomers == <<webhookVars, notificationVars, accountVars, couponVars,
                  merchantVars, requestVars, booksVars>>
NotRequests == <<webhookVars, notificationVars, accountVars, couponVars,
                 merchantVars, customerVars, booksVars>>
NotBooks == <<webhookVars, notificationVars, accountVars, couponVars,
              merchantVars, customerVars, requestVars>>

\* Webhooks: two events for one endpoint; two for one endpoint that always
\* answers and asks for all, with overlapping fan-outs; one event for two
\* endpoints, with one replay, rotation, deletion or death.
OneEndpoint == /\ Len(endpoint') <= 1 /\ deaths' = 0
               /\ \A n \in DOMAIN endpoint' : endpoint'[n].secret = 0 /\ ~endpoint'[n].deleted
               /\ \A d \in DOMAIN delivery' : ~delivery'[d].replay

EventsScenario == Runs("events", NotWebhooks) /\ WebhookNext /\ OneEndpoint /\ overlaps' = 0

OverlapsScenario ==
    /\ Runs("overlaps", NotWebhooks) /\ WebhookNext /\ OneEndpoint
    /\ \A n \in DOMAIN endpoint' : endpoint'[n].enabled = {"*"}
    /\ \A w \in DeliveryWorkers : deliverer'[w].step # "failure"

EndpointsScenario ==
    /\ Runs("endpoints", NotWebhooks) /\ WebhookNext
    /\ Len(outbox') <= 1
    /\ endpoint' # <<>> => endpoint'[1].enabled = {"*"}
    /\ \A w \in DeliveryWorkers :
          deliverer'[w].step = "failure" => delivery[deliverer'[w].delivery].endpoint = 1

\* Notifications: one notice and one letter.
MailScenario == Runs("mail", NotNotifications) /\ NotificationNext

\* Accounts: codes, without sessions; passwords and the profile, without
\* wrong codes.
CodesOnly == /\ session' = "none" /\ tokens' = 0
             /\ \A c \in AccountCalls : call'[c].step # "checkToken"
CodesScenario == Runs("codes", NotAccounts) /\ AccountNext /\ CodesOnly /\ ~clash'
ClashScenario == /\ Runs("clash", NotAccounts) /\ AccountNext /\ CodesOnly /\ codes' <= 1
                 /\ \A c \in AccountCalls : call'[c].step = "read" => call'[c].answer <= 1

PasswordsScenario ==
    /\ Runs("passwords", NotAccounts) /\ AccountNext
    /\ codes' <= 1 /\ attempts' = 0
    /\ \A c \in AccountCalls : /\ call'[c].step \notin {"count", "counted"}
                               /\ call'[c].step = "read" => call'[c].answer = 1

CouponsScenario == Runs("coupons", NotCoupons) /\ CouponNext

\* Merchants: API keys; profile and secret, hooks, of one merchant.
Asks(users, operations) ==
    \A c \in MerchantCalls : "op" \in DOMAIN request'[c] =>
        request'[c].op.do \in operations /\ request'[c].user \in users

KeysScenario == /\ Runs("keys", NotMerchants) /\ MerchantNext
                /\ Asks(Users, {"newKey", "revoke", "read"})
ProfileScenario == /\ Runs("profile", NotMerchants) /\ MerchantNext
                   /\ Asks({First(MerchantUsers)}, {"patch", "rotate"})
HooksScenario == /\ Runs("hooks", NotMerchants) /\ MerchantNext
                 /\ Asks({First(MerchantUsers)}, {"newHook", "editHook", "dropHook"})

\* Customers: addresses; the methods of one customer.
AddressesScenario == /\ Runs("addresses", NotCustomers) /\ CustomerNext
                     /\ \A c \in CustomerCalls : cust'[c].step \notin {"clear", "add"}
                     /\ customer' # <<>> => customer'[1].email.mailbox = First(Mailboxes)
MethodsScenario ==
    /\ Runs("methods", NotCustomers) /\ CustomerNext
    /\ Len(customer') <= 1 /\ ~readdressed'
    /\ \A c \in CustomerCalls : cust'[c].step = "insert" => cust'[c].mailbox = First(Mailboxes)

\* Requests: one backend fails once; the second request to come is a POST.
RequestsScenario ==
    /\ Runs("requests", NotRequests) /\ RequestNext
    /\ \A r \in WebRequests : "body" \in DOMAIN web'[r] => web'[r].body.status \in {200, 400, 503}
    /\ Cardinality(refusedRows'["file"]) + Cardinality(refusedRows'["database"]) <= 1
    /\ \A r \in WebRequests :
          web'[r].step = "view" /\ (\E q \in WebRequests \ {r} : web[q].step # "new") =>
              web'[r].path = "audited" /\ web'[r].method = "POST"

-----------------------------------------------------------------------------
(* Books: money without readers; readers, one view or two at a time.        *)
Plans(x, views) == \A i \in DOMAIN reader'[x].plan : reader'[x].plan[i] \in views
NobodyElse(x) == \A y \in Readers \ {x} : reader'[y] = Idle
Paid(sales, gateways) ==
    \A p \in Sales : sale'[p].step # "new" => p \in sales /\ sale'[p].gateway \in gateways

NobodyCloses == UNCHANGED purchase \/ paymentRow' # paymentRow

MoneyScenario ==
    /\ Runs("money", NotBooks) /\ ReportNext /\ NobodyCloses
    /\ reader' = reader /\ cache' = cache
    /\ \A r \in Returns : refundRow'[r] # NoRefund => refundRow'[r].amount # 2
    /\ \A p \in Sales : sale'[p].step # "new" /\ sale'[p].gateway # "WALLET" => p = First(Sales)

\* One reader while sales and refunds go on, and orders are closed while it
\* reconciles.
ReadsScenario(name, views, sales, gateways, returns) ==
    /\ Runs(name, NotBooks) /\ ReportNext
    /\ Paid(sales, gateways) /\ purse'.status = "ACTIVE" /\ Lost' = {} /\ invoices' = <<>>
    /\ views # {"reconciliation"} => NobodyCloses
    /\ \A r \in Returns : refundRow'[r] # NoRefund => r \in returns /\ refundRow'[r].amount # 2
    /\ summaries' = 0 /\ Plans(First(Readers), views) /\ NobodyElse(First(Readers))

\* Readers and summaries while one sale is made.
OneSale == /\ NobodyCloses /\ Paid({First(Sales)}, {"DUMMY"}) /\ purse'.status = "ACTIVE"
           /\ Requested' = {} /\ Lost' = {} /\ invoices' = <<>>

SummaryScenario ==
    /\ Runs("summary", NotBooks) /\ ReportNext /\ OneSale
    /\ Plans(First(Readers), {"settlement", "dashboard", "admin"})
    /\ reader'[First(Readers)].plan # <<"dashboard">> /\ cache'.admin = NotCached
    /\ \A x \in Readers \ {First(Readers)} :
          \/ reader'[x].plan = <<"settlement">> /\ summaries = 0
          \/ reader'[x].plan = <<>> /\ (reader'[x] = Idle \/ reader'[x].view = "settlement")

ChartsScenario ==
    /\ Runs("charts", NotBooks) /\ ReportNext /\ OneSale
    /\ Plans(First(Readers), CachedViews) /\ NobodyElse(First(Readers))
    /\ Cardinality({k \in CachedViews : cache'[k] # NotCached}) <= 1

-----------------------------------------------------------------------------
ScenarioInit ==
    /\ scenario \in {"events", "overlaps", "endpoints", "mail", "codes", "clash", "passwords",
                     "coupons", "keys", "profile", "hooks", "addresses", "methods", "requests",
                     "money", "dashboards", "reports", "reconciliation", "summary", "charts"}
    /\ WebhookInit /\ NotificationInit /\ AccountInit /\ CouponInit
    /\ MerchantInit /\ CustomerInit /\ RequestInit /\ BooksInit

ScenarioNext ==
    \/ EventsScenario \/ OverlapsScenario \/ EndpointsScenario \/ MailScenario
    \/ CodesScenario \/ ClashScenario \/ PasswordsScenario \/ CouponsScenario
    \/ KeysScenario \/ ProfileScenario \/ HooksScenario
    \/ AddressesScenario \/ MethodsScenario \/ RequestsScenario
    \/ MoneyScenario
    \/ ReadsScenario("dashboards", {"dashboard"}, Sales, {"DUMMY", "WALLET"}, {})
    \/ ReadsScenario("reports", Reports, Sales, {"DUMMY"}, {})
    \/ ReadsScenario("reconciliation", {"reconciliation"}, {First(Sales)}, Gateways, Returns)
    \/ SummaryScenario \/ ChartsScenario

ScenarioSpec == ScenarioInit /\ [][ScenarioNext]_<<scenario, platformVars>>

\* The workers of the default queue keep running.
ScenarioFairSpec == ScenarioSpec /\ WebhookFairness

-----------------------------------------------------------------------------
(* Properties.                                                               *)

\* Published events are fanned out, and their deliveries come to an end.
TasksEnd == EventIsProcessed /\ DeliveryEnds
=============================================================================

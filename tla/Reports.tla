------------------------------ MODULE Reports ------------------------------
(***************************************************************************)
(* What merchants are told about the books of Checkout (apps/analytics):   *)
(* dashboards, charts and settlements, which are cached, reconciliation    *)
(* and reports, which are not, the summary tasks, and invoices.            *)
(*                                                                         *)
(* A reader asks the database one query at a time, in the order of the     *)
(* code, and the books may move between two of them.  Whatever a view      *)
(* derives from the same query is one figure here; the parts of a          *)
(* dashboard that only split a figure up (by day, method, gateway or       *)
(* currency) are left out.                                                 *)
(***************************************************************************)
EXTENDS Checkout, Sequences

CONSTANTS Readers,          \* requests and tasks that read
          MaxSummaries,     \* runs of generate_daily_summary_task
          MaxInvoices,
          NotCached

ASSUME ReportsAssumption == MaxSummaries \in Nat /\ MaxInvoices \in Nat

VARIABLES reader,       \* reader[x]: how far reader x is
          cache,        \* cache[k]: what the cache holds under key k
          summaries,    \* runs of the daily summary so far
          invoices      \* the Invoice rows

reportVars == <<reader, cache, summaries, invoices>>
booksVars == <<checkoutVars, reportVars>>

\* The cached views.  Charts have a key for each granularity and number of days.
CachedViews == {"dashboard", "settlement", "weekly:30", "monthly:365", "daily:14", "admin"}
Reports == {"transactions", "captured"}
Views == CachedViews \cup {"reconciliation"} \cup Reports

\* Variant: the dashboard counts all payments first.
TotalFirst == <<"payments", "revenue", "captured", "failed", "returns", "returned">>

\* The queries of each view, in their order.  (Nothing is ever SETTLED.)
DashboardQueries == <<"revenue", "captured", "failed", "payments", "returns", "returned">>
ChartQueries == <<"revenue", "returned", "payments">>
SettlementQueries == <<"revenue", "returned", "captured">>
AdminQueries == <<"purchases", "payments", "refunds", "revenue", "failed">>
ReconciliationQueries == <<"paid", "revenue", "returned">>

\* A report's summary, then its rows: of all payments, or of those with one
\* status, which the revenue report and a status filter ask for.  (Refund, order
\* and wallet reports make the same two queries of other tables.)
ReportQueries == <<"summary", "rows">>
CapturedQueries == <<"capturedSummary", "capturedRows">>

Queries(view) == CASE view = "dashboard"      -> DashboardQueries
                   [] view = "settlement"     -> SettlementQueries
                   [] view = "admin"          -> AdminQueries
                   [] view = "reconciliation" -> ReconciliationQueries
                   [] view = "transactions"   -> ReportQueries
                   [] view = "captured"       -> CapturedQueries
                   [] OTHER                   -> ChartQueries

WithStatus(status) == {p \in Recorded : paymentRow[p].status = status}
SumSales(S) == SumFunction([p \in S |-> Amount(p)])
PaidOrders == {o \in Purchases : purchase[o] = "PAID"}
Returned == {r \in Requested : refundRow[r].status = "SUCCESS"}

\* What a query answers; asOf: the sales whose created_at is in the report's range.
Figure(query, asOf) ==
    CASE query = "purchases" -> Cardinality(Purchases)
      [] query = "paid"      -> SumFunction([o \in PaidOrders |-> Price[o]])
      [] query = "payments"  -> Cardinality(Recorded)
      [] query = "revenue"   -> SumSales(WithStatus("CAPTURED"))
      [] query = "captured"  -> Cardinality(WithStatus("CAPTURED"))
      [] query = "failed"    -> Cardinality(WithStatus("FAILED"))
      [] query = "refunds"   -> Cardinality(Requested)
      [] query = "returns"   -> Cardinality(Returned)
      [] query = "returned"  -> SumRefunds(Returned)
      [] query \in {"summary", "rows"} -> Cardinality(Recorded \cap asOf)
      [] query \in {"capturedSummary", "capturedRows"} ->
             Cardinality(WithStatus("CAPTURED") \cap asOf)

Idle == [step |-> "idle", plan |-> <<>>]

ReportInit ==
    /\ reader = [x \in Readers |-> Idle]
    /\ cache = [k \in CachedViews |-> NotCached]
    /\ summaries = 0
    /\ invoices = <<>>

-----------------------------------------------------------------------------
(* Readers.  plan: the views still to be computed; since: the number of     *)
(* summaries run when the reader asked the cache; history: raced, moved,    *)
(* whether a summary has run or the books have changed since.               *)
ReaderRests(x) == reader[x].step \in {"idle", "told"} /\ reader[x].plan = <<>>
Planned(plan) == [step |-> "told", plan |-> plan, view |-> "none"]

Start(x, plan) ==
    /\ ReaderRests(x)
    /\ reader' = [reader EXCEPT ![x] = Planned(plan)]
    /\ UNCHANGED <<checkoutVars, cache, summaries, invoices>>

\* The API asks for a view, the weekly and the monthly task each for a chart.
AskFor(x, view) == Start(x, <<view>>)
WeeklySummary(x) == Start(x, <<"weekly:30">>)
MonthlySummary(x) == Start(x, <<"monthly:365">>)

\* Variant: the settlement report is forgotten.
AllButSettlement == {"dashboard", "weekly:30", "monthly:365", "admin"}

\* invalidate_merchant_cache deletes charts of 7, 30, 90 and 365 days only.
Invalidated == {"dashboard", "settlement", "weekly:30", "monthly:365", "admin"}

\* generate_daily_summary_task begins by invalidating the merchant's cache.
DailySummary(x) ==
    /\ ReaderRests(x) /\ summaries < MaxSummaries
    /\ summaries' = summaries + 1
    /\ cache' = [k \in CachedViews |-> IF k \in Invalidated THEN NotCached ELSE cache[k]]
    /\ reader' = [y \in Readers |->
            IF y = x THEN Planned(<<"dashboard", "settlement", "admin">>)
            ELSE IF reader[y].step = "reading" THEN [reader[y] EXCEPT !.raced = TRUE]
            ELSE reader[y]]
    /\ UNCHANGED <<checkoutVars, invoices>>

Told(view, plan, entry) ==
    [step |-> "told", plan |-> plan, view |-> view, got |-> entry.got,
     inFlight |-> entry.inFlight, moved |-> entry.moved]

\* What the range of a report may take in: sales that were made, that are being
\* recorded and, as date_to may lie in the future, that nobody has made yet.
Ranges(view) == IF view \in Reports THEN SUBSET Sales ELSE {{}}

\* cache.get: answered at once, or read from the books, as of now; inFlight: what
\* the range takes in and is not recorded yet.
OpenView(x) ==
    /\ reader[x].step = "told" /\ reader[x].plan # <<>>
    /\ LET view == Head(reader[x].plan)
           plan == Tail(reader[x].plan)
       IN \E asOf \in Ranges(view) : reader' = [reader EXCEPT ![x] =
              IF view \in CachedViews /\ cache[view] # NotCached
              THEN Told(view, plan, [got |-> cache[view].got, inFlight |-> {}, moved |-> TRUE])
              ELSE [step |-> "reading", plan |-> plan, view |-> view, todo |-> Queries(view),
                    got |-> <<>>, asOf |-> asOf, inFlight |-> asOf \ Recorded,
                    since |-> summaries, raced |-> FALSE, moved |-> FALSE]]
    /\ UNCHANGED <<checkoutVars, cache, summaries, invoices>>

Query(x) ==
    /\ reader[x].step = "reading" /\ reader[x].todo # <<>>
    /\ LET asked == DOMAIN reader[x].got
           told == asked \cup {Head(reader[x].todo)}
       IN reader' = [reader EXCEPT
              ![x].todo = Tail(@),
              ![x].got = [query \in told |-> IF query \in asked THEN @[query]
                                             ELSE Figure(query, reader[x].asOf)]]
    /\ UNCHANGED <<checkoutVars, cache, summaries, invoices>>

\* cache.set, and the answer.
Tell(x) ==
    /\ reader[x].step = "reading" /\ reader[x].todo = <<>>
    /\ reader' = [reader EXCEPT ![x] = Told(@.view, @.plan, @)]
    /\ cache' = IF reader[x].view \in CachedViews
                THEN [cache EXCEPT ![reader[x].view] =
                         [got |-> reader[x].got, since |-> reader[x].since,
                          raced |-> reader[x].raced]]
                ELSE cache
    /\ UNCHANGED <<checkoutVars, summaries, invoices>>

\* After 5, 10 or 15 minutes.
CacheExpires(k) ==
    /\ cache[k] # NotCached
    /\ cache' = [cache EXCEPT ![k] = NotCached]
    /\ UNCHANGED <<checkoutVars, reader, summaries, invoices>>

-----------------------------------------------------------------------------
(* Invoices.                                                                *)
\* Decimal.quantize rounds halves to the even neighbour.
Quantized(n, unit) ==
    LET q == n \div unit
        r == n % unit
    IN IF 2 * r > unit \/ (2 * r = unit /\ q % 2 = 1) THEN q + 1 ELSE q

\* 18% of an amount in paise.
TaxAmount(subtotal) == Quantized(18 * subtotal, 100)

CreateInvoice(o) ==
    /\ Len(invoices) < MaxInvoices
    /\ invoices' = Append(invoices, [order |-> o, subtotal |-> Price[o], tax |-> TaxAmount(Price[o]),
                                     total |-> Price[o] + TaxAmount(Price[o])])
    /\ UNCHANGED <<checkoutVars, reader, cache, summaries>>

-----------------------------------------------------------------------------
BooksMove ==
    /\ CheckoutNext
    /\ reader' = [x \in Readers |->
            IF "moved" \in DOMAIN reader[x] THEN [reader[x] EXCEPT !.moved = TRUE] ELSE reader[x]]
    /\ UNCHANGED <<cache, summaries, invoices>>

ReportNext ==
    \/ BooksMove
    \/ \E x \in Readers : \/ \E view \in Views : AskFor(x, view)
                          \/ WeeklySummary(x) \/ MonthlySummary(x) \/ DailySummary(x)
                          \/ OpenView(x) \/ Query(x) \/ Tell(x)
    \/ \E k \in CachedViews : CacheExpires(k)
    \/ \E o \in Purchases : CreateInvoice(o)

BooksInit == CheckoutInit /\ ReportInit
BooksSpec == BooksInit /\ [][ReportNext]_booksVars

-----------------------------------------------------------------------------
(* Properties.                                                              *)
\* Every variable has its type.
ReportTypeOK ==
    /\ \A x \in Readers : reader[x].step \in {"idle", "reading", "told"}
    /\ \A k \in CachedViews : cache[k] # NotCached =>
            /\ DOMAIN cache[k].got = {Queries(k)[i] : i \in DOMAIN Queries(k)}
            /\ \A query \in DOMAIN cache[k].got : cache[k].got[query] \in Nat
    /\ summaries \in 0 .. MaxSummaries
    /\ \A i \in DOMAIN invoices : invoices[i].order \in Purchases

\* A dashboard, however old, never shows more captured and failed payments
\* than payments: its success rate is at most 100%.
DashboardAddsUp ==
    LET AddsUp(got) == got.captured + got.failed <= got.payments
    IN /\ cache.dashboard # NotCached => AddsUp(cache.dashboard.got)
       /\ \A x \in Readers : reader[x].step = "told" /\ reader[x].view = "dashboard" =>
              AddsUp(reader[x].got)

\* A figure from before the last daily summary stays under a key that the
\* summary invalidates only if its reader raced with the summary.
InvalidationIsSeen ==
    \A k \in Invalidated \cup {"settlement"} :
        cache[k] # NotCached => cache[k].since = summaries \/ cache[k].raced

\* The payments that were captured and whose order does not say so: a call that
\* closes the order has saved it later.
Kept == {"CAPTURED", "PARTIALLY_REFUNDED", "FULLY_REFUNDED"}
ClosedOver == {p \in Recorded : /\ paymentRow[p].status \in Kept
                                /\ purchase[paymentRow[p].order] # "PAID"}

\* If the books have not moved since, and every order has one payment at most,
\* reconciliation tells a refund, even in part, as a discrepancy, and so it does
\* a captured payment whose order was cancelled or expired all the same; without
\* either it says "reconciled".  (The two may hide each other.)
ReconciliationTells ==
    \A x \in Readers :
        /\ reader[x].step = "told" /\ reader[x].view = "reconciliation" /\ ~reader[x].moved
        /\ \A p, q \in Recorded : paymentRow[p].order = paymentRow[q].order => p = q
        => LET reconciled == reader[x].got.paid = reader[x].got.revenue
           IN /\ ClosedOver = {} => (reconciled <=> Returned = {})
              /\ Returned = {} => (reconciled <=> ClosedOver = {})

\* The summary of a report on all payments never counts more than its rows, and
\* as many if everything in its range was recorded when it was asked for; that of
\* a report on payments with one status counts its rows unless the books have
\* moved since.
ReportAddsUp ==
    \A x \in Readers :
        LET got == reader[x].got
        IN reader[x].step = "told" =>
               /\ reader[x].view = "transactions" =>
                      /\ got.summary <= got.rows
                      /\ reader[x].inFlight = {} => got.summary = got.rows
               /\ reader[x].view = "captured" /\ ~reader[x].moved =>
                      got.capturedSummary = got.capturedRows

\* The tax of an invoice is 18%, to half a paisa.
InvoiceAddsUp ==
    \A i \in DOMAIN invoices :
        /\ 100 * invoices[i].tax - 18 * invoices[i].subtotal \in -50 .. 50
        /\ invoices[i].total = invoices[i].subtotal + invoices[i].tax

\* All of it.
ReportsTell == /\ DashboardAddsUp /\ InvalidationIsSeen /\ ReconciliationTells
               /\ ReportAddsUp /\ InvoiceAddsUp

\* "All heavy aggregations are cached in Redis and invalidated on new
\* payment/refund events": when no call and no reader is under way, what is
\* cached is what the books say.
CacheFollowsBooks ==
    /\ \A x \in Readers : ReaderRests(x)
    /\ \A p \in Sales : sale[p].step \in {"new", "done", "lost"}
    /\ \A r \in Requested : refundRow[r].status \in {"SUCCESS", "FAILED"}
    => \A k \in CachedViews : cache[k] # NotCached =>
           \A query \in DOMAIN cache[k].got : cache[k].got[query] = Figure(query, {})
=============================================================================

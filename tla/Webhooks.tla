------------------------------ MODULE Webhooks ------------------------------
(***************************************************************************)
(* The webhooks of one merchant (apps/webhooks): the transactional outbox, *)
(* the Celery task that fans its rows out to the merchant's endpoints, and *)
(* the task that delivers to one endpoint, with its retries.               *)
(*                                                                         *)
(* Nothing runs in a transaction: every statement commits on its own, and  *)
(* a worker may die, or a statement or the broker fail, between any two of *)
(* them.  A task message is acknowledged when it is taken.  Rows are       *)
(* numbered in the order of their creation.                                *)
(***************************************************************************)
EXTENDS Integers, Sequences, FiniteSetsExt

CONSTANTS FanoutWorkers,      \* worker processes that run the fan-out task
          DeliveryWorkers,    \* worker processes that run the delivery task
          FilterChoices,      \* the lists of enabled events that are asked for
          MaxEvents, MaxEndpoints,   \* outbox rows, endpoints
          MaxDeliveryRetries, \* max_retries of deliver_webhook_task
          BatchSize,          \* outbox rows a fan-out reads
          MaxUnusual          \* replays, rotations and deletions, overlaps and
                              \* deaths together

ASSUME WebhooksAssumption ==
    /\ MaxEvents \in Nat /\ MaxEndpoints \in Nat /\ MaxDeliveryRetries \in Nat
    /\ BatchSize \in Nat \ {0} /\ MaxUnusual \in Nat
    /\ FilterChoices \subseteq SUBSET {"*", "ping", "payment.captured"}

VARIABLES outbox,            \* the OutboxEvent rows
          webhookEvent,      \* webhookEvent[e]: the status of event e, or "NONE"
          endpoint,          \* the WebhookEndpoint rows
          delivery,          \* the WebhookDelivery rows
          fanoutMessages,    \* messages for process_outbox_events_task
          fanout,            \* fanout[w]: how far the fan-out of worker w is
          deliveryMessages,  \* messages for deliver_webhook_task
          deliverer,         \* deliverer[w]: the delivery of worker w
          accepted,          \* <<e, n>>: endpoint n has accepted event e
          overlaps,          \* fan-outs that have begun while another was running
          deaths             \* tasks that have died, messages that were not sent

webhookVars == <<outbox, webhookEvent, endpoint, delivery, fanoutMessages,
                 fanout, deliveryMessages, deliverer, accepted, overlaps, deaths>>

Events == 1 .. MaxEvents
EndpointIds == 1 .. MaxEndpoints

\* History: audience, the endpoints that match the event when it is published.
OutboxRow == [type : {"ping"}, processed : BOOLEAN, audience : SUBSET EndpointIds]

\* deleted: the endpoint is soft-deleted; no operation sets its status DISABLED.
EndpointRow == [enabled : SUBSET {"*", "ping", "payment.captured"}, secret : Nat,
                deleted : BOOLEAN, succeeded : BOOLEAN]

\* PROCESSING is declared and never used.
WebhookEventStatus == {"PENDING", "DELIVERED", "FAILED"}
DeliveryStatus == {"PENDING", "SUCCESS", "FAILED"}

\* History: replay, whether replay_delivery created the row.
DeliveryRow == [event : Events, endpoint : EndpointIds, status : DeliveryStatus,
                attempt : Nat \ {0}, replay : BOOLEAN]

DeliveryMessage == [delivery : Nat \ {0}, retries : 0 .. MaxDeliveryRetries]

NoFanout == [step |-> "idle", batch |-> {}, targets |-> {}, row |-> 0]
NoDelivery == [step |-> "idle"]

WebhookInit ==
    /\ outbox = <<>>
    /\ webhookEvent = [e \in Events |-> "NONE"]
    /\ endpoint = <<>>
    /\ delivery = <<>>
    /\ fanoutMessages = 0
    /\ fanout = [w \in FanoutWorkers |-> NoFanout]
    /\ deliveryMessages = {}
    /\ deliverer = [w \in DeliveryWorkers |-> NoDelivery]
    /\ accepted = {}
    /\ overlaps = 0
    /\ deaths = 0

-----------------------------------------------------------------------------
(* The API: endpoints, test events and replays.                             *)
Replays == {d \in DOMAIN delivery : delivery[d].replay}

\* The bound on what makes the runs long.
Unusual == /\ Cardinality(Replays) + Cardinality({n \in DOMAIN endpoint : endpoint[n].deleted})
              + MapThenSumSet(LAMBDA n : endpoint[n].secret, DOMAIN endpoint)
              + overlaps + deaths < MaxUnusual

Dies == Unusual /\ deaths' = deaths + 1

tables == <<outbox, webhookEvent, endpoint, delivery>>
tasks == <<fanoutMessages, fanout, deliveryMessages, deliverer>>
outside == <<accepted, overlaps, deaths>>

\* `enabled_events or ["*"]`.
NewEndpoint(events) == [enabled |-> IF events = {} THEN {"*"} ELSE events,
                        secret |-> 0, deleted |-> FALSE, succeeded |-> FALSE]

CreateEndpoint(events) ==
    /\ Len(endpoint) < MaxEndpoints
    /\ endpoint' = Append(endpoint, NewEndpoint(events))
    /\ UNCHANGED <<outbox, webhookEvent, delivery, tasks, outside>>

\* get_endpoint: the manager hides the rows that are soft-deleted.
Alive == {n \in DOMAIN endpoint : ~endpoint[n].deleted}

DeleteEndpoint(n) ==
    /\ n \in Alive /\ Unusual
    /\ endpoint' = [endpoint EXCEPT ![n].deleted = TRUE]
    /\ UNCHANGED <<outbox, webhookEvent, delivery, tasks, outside>>

RotateSecret(n) ==
    /\ n \in Alive /\ Unusual
    /\ endpoint' = [endpoint EXCEPT ![n].secret = @ + 1]
    /\ UNCHANGED <<outbox, webhookEvent, delivery, tasks, outside>>

\* The endpoints whose enabled_events name the type or hold "*".
Matching(type) == {n \in Alive : endpoint[n].enabled \cap {"*", type} # {}}

\* EventPublisher.publish: the row, and a task for it, unless the broker cannot
\* be reached, which publish only logs, or the request dies.
PublishEvent(type) ==
    /\ Len(outbox) < MaxEvents
    /\ outbox' = Append(outbox, [type |-> type, processed |-> FALSE,
                                 audience |-> Matching(type)])
    /\ \/ fanoutMessages' = fanoutMessages + 1 /\ UNCHANGED deaths
       \/ Dies /\ UNCHANGED fanoutMessages
    /\ UNCHANGED <<webhookEvent, endpoint, delivery, fanout, deliveryMessages, deliverer,
                   accepted, overlaps>>

SendTestEvent(n) == n \in Alive /\ PublishEvent("ping")

NewDelivery(e, n, attempt) == [event |-> e, endpoint |-> n, status |-> "PENDING",
                               attempt |-> attempt, replay |-> attempt > 1]

\* replay_delivery: a row of its own, and a task for it.
ReplayDelivery(d) ==
    /\ Unusual
    /\ delivery' = Append(delivery, NewDelivery(delivery[d].event, delivery[d].endpoint,
                                                delivery[d].attempt + 1))
    /\ deliveryMessages' = deliveryMessages \cup
                           {[delivery |-> Len(delivery) + 1, retries |-> 0]}
    /\ UNCHANGED <<outbox, webhookEvent, endpoint, fanoutMessages, fanout,
                   deliverer, outside>>

-----------------------------------------------------------------------------
(* process_outbox_events_task.                                              *)
FanoutAt(w, from, to) ==
    /\ fanout[w].step = from
    /\ fanout' = [fanout EXCEPT ![w] = to]
    /\ UNCHANGED <<endpoint, deliverer, accepted>>

Running == {w \in FanoutWorkers : fanout[w].step # "idle"}

\* The one query of the task: the oldest unprocessed rows,
Unprocessed == {e \in DOMAIN outbox : ~outbox[e].processed}
Oldest == {e \in Unprocessed : Cardinality({d \in Unprocessed : d < e}) < BatchSize}

\* that are gone through one by one.
NextEvent(w) == Min(fanout[w].batch)

TakeBatch(w) ==
    /\ fanoutMessages > 0
    /\ FanoutAt(w, "idle", [NoFanout EXCEPT !.step = "event", !.batch = Oldest])
    /\ fanoutMessages' = fanoutMessages - 1
    /\ IF Running = {} THEN UNCHANGED overlaps ELSE Unusual /\ overlaps' = overlaps + 1
    /\ UNCHANGED <<outbox, webhookEvent, delivery, deliveryMessages, deaths>>

\* The event is logged, unless it is there already, and its endpoints read.
OpenEvent(w) ==
    /\ fanout[w].batch # {}
    /\ LET e == NextEvent(w)
       IN /\ webhookEvent' = IF webhookEvent[e] = "NONE"
                             THEN [webhookEvent EXCEPT ![e] = "PENDING"] ELSE webhookEvent
          /\ FanoutAt(w, "event", [fanout[w] EXCEPT !.step = "create",
                                                    !.targets = Matching(outbox[e].type)])
    /\ UNCHANGED <<outbox, delivery, fanoutMessages, deliveryMessages, overlaps, deaths>>

\* The next endpoint, newest first.
CreateDelivery(w) ==
    /\ fanout[w].targets # {}
    /\ LET n == Max(fanout[w].targets)
       IN /\ delivery' = Append(delivery, NewDelivery(NextEvent(w), n, 1))
          /\ FanoutAt(w, "create", [fanout[w] EXCEPT !.step = "send", !.targets = @ \ {n},
                                                     !.row = Len(delivery) + 1])
    /\ UNCHANGED <<outbox, webhookEvent, fanoutMessages, deliveryMessages, overlaps, deaths>>

SendDelivery(w) ==
    /\ FanoutAt(w, "send", [fanout[w] EXCEPT !.step = "create", !.row = 0])
    /\ deliveryMessages' = deliveryMessages \cup
                           {[delivery |-> fanout[w].row, retries |-> 0]}
    /\ UNCHANGED <<outbox, webhookEvent, delivery, fanoutMessages, overlaps, deaths>>

\* Variant: the row is marked before the endpoints have their deliveries.
MarkProcessedFirst(w) ==
    /\ FanoutAt(w, "create", [fanout[w] EXCEPT !.step = "event", !.batch = @ \ {NextEvent(w)}])
    /\ outbox' = [outbox EXCEPT ![NextEvent(w)].processed = TRUE]
    /\ UNCHANGED <<webhookEvent, delivery, fanoutMessages, deliveryMessages, overlaps, deaths>>

\* Every endpoint has its task.
MarkProcessed(w) ==
    /\ fanout[w].targets = {}
    /\ FanoutAt(w, "create", [fanout[w] EXCEPT !.step = "event", !.batch = @ \ {NextEvent(w)}])
    /\ outbox' = [outbox EXCEPT ![NextEvent(w)].processed = TRUE]
    /\ UNCHANGED <<webhookEvent, delivery, fanoutMessages, deliveryMessages, overlaps, deaths>>

FanoutEnds(w) ==
    /\ fanout[w].batch = {}
    /\ FanoutAt(w, "event", NoFanout)
    /\ UNCHANGED <<outbox, webhookEvent, delivery, fanoutMessages, deliveryMessages,
                   overlaps, deaths>>

\* A statement or the broker fails, which nothing catches, or the worker dies.
FanoutDies(w) ==
    /\ w \in Running
    /\ FanoutAt(w, fanout[w].step, NoFanout)
    /\ Dies
    /\ UNCHANGED <<outbox, webhookEvent, delivery, fanoutMessages, deliveryMessages, overlaps>>

-----------------------------------------------------------------------------
(* deliver_webhook_task.  endpoint: the row as the task has read it.        *)
DelivererAt(w, from, to) ==
    /\ deliverer[w].step = from
    /\ deliverer' = [deliverer EXCEPT ![w] = to]
    /\ UNCHANGED <<outbox, fanoutMessages, fanout, overlaps>>

TakeDelivery(w) ==
    /\ \E m \in deliveryMessages :
          /\ deliveryMessages' = deliveryMessages \ {m}
          /\ DelivererAt(w, "idle", [step |-> "post", delivery |-> m.delivery,
                                     retries |-> m.retries,
                                     endpoint |-> endpoint[delivery[m.delivery].endpoint]])
    /\ UNCHANGED <<webhookEvent, endpoint, delivery, accepted, deaths>>

D(w) == deliverer[w].delivery
EventOf(w) == delivery[D(w)].event
EndpointOf(w) == delivery[D(w)].endpoint

\* The POST is answered 2xx, or not (or too late, which is the same here).
PostAccepted(w) ==
    /\ DelivererAt(w, "post", [deliverer[w] EXCEPT !.step = "success"])
    /\ accepted' = accepted \cup {<<EventOf(w), EndpointOf(w)>>}
    /\ UNCHANGED <<webhookEvent, endpoint, delivery, deliveryMessages, deaths>>

PostFails(w) ==
    /\ DelivererAt(w, "post", [deliverer[w] EXCEPT !.step = "failure"])
    /\ UNCHANGED <<webhookEvent, endpoint, delivery, deliveryMessages, accepted, deaths>>

\* delivery.save() writes the whole row, but no other task has it.
SaveDelivery(w, status) ==
    delivery' = [delivery EXCEPT ![D(w)].status = status,
                                 ![D(w)].attempt = deliverer[w].retries + 1]

Succeed(w) ==
    /\ DelivererAt(w, "success", [deliverer[w] EXCEPT !.step = "delivered"])
    /\ SaveDelivery(w, "SUCCESS")
    /\ UNCHANGED <<webhookEvent, endpoint, deliveryMessages, accepted, deaths>>

EventDelivered(w) ==
    /\ DelivererAt(w, "delivered", [deliverer[w] EXCEPT !.step = "touch"])
    /\ webhookEvent' = [webhookEvent EXCEPT ![EventOf(w)] = "DELIVERED"]
    /\ UNCHANGED <<endpoint, delivery, deliveryMessages, accepted, deaths>>

\* Variant: endpoint.save() writes the row that the task has read.
SaveWholeEndpoint(w) ==
    /\ DelivererAt(w, "touch", NoDelivery)
    /\ endpoint' = [endpoint EXCEPT ![EndpointOf(w)] = [deliverer[w].endpoint EXCEPT
                                                            !.succeeded = TRUE]]
    /\ UNCHANGED <<webhookEvent, delivery, deliveryMessages, accepted, deaths>>

\* last_delivery_at and last_success_at, and no other column.
TouchEndpoint(w) ==
    /\ DelivererAt(w, "touch", NoDelivery)
    /\ endpoint' = [endpoint EXCEPT ![EndpointOf(w)].succeeded = TRUE]
    /\ UNCHANGED <<webhookEvent, delivery, deliveryMessages, accepted, deaths>>

\* Variant: one retry too many.
ExhaustedLate(w) == deliverer[w].retries > MaxDeliveryRetries

\* The retries are used up.
Exhausted(w) == deliverer[w].retries >= MaxDeliveryRetries

Fail(w) ==
    /\ DelivererAt(w, "failure",
                   [deliverer[w] EXCEPT !.step = IF Exhausted(w) THEN "failed" ELSE "retry"])
    /\ SaveDelivery(w, "FAILED")
    /\ UNCHANGED <<webhookEvent, endpoint, deliveryMessages, accepted, deaths>>

\* Variant: the row says FAILED and no retry is sent.
RetryDeliveryDropped(w) ==
    /\ DelivererAt(w, "retry", NoDelivery)
    /\ UNCHANGED <<webhookEvent, endpoint, delivery, deliveryMessages, accepted, deaths>>

RetryDelivery(w) ==
    /\ DelivererAt(w, "retry", NoDelivery)
    /\ deliveryMessages' = deliveryMessages \cup
                           {[delivery |-> D(w), retries |-> deliverer[w].retries + 1]}
    /\ UNCHANGED <<webhookEvent, endpoint, delivery, accepted, deaths>>

EventFailed(w) ==
    /\ DelivererAt(w, "failed", NoDelivery)
    /\ webhookEvent' = [webhookEvent EXCEPT ![EventOf(w)] = "FAILED"]
    /\ UNCHANGED <<endpoint, delivery, deliveryMessages, accepted, deaths>>

DelivererDies(w) ==
    /\ deliverer[w].step # "idle"
    /\ DelivererAt(w, deliverer[w].step, NoDelivery)
    /\ Dies
    /\ UNCHANGED <<webhookEvent, endpoint, delivery, deliveryMessages, accepted>>

-----------------------------------------------------------------------------
FanoutStep(w) == \/ TakeBatch(w) \/ OpenEvent(w) \/ CreateDelivery(w) \/ SendDelivery(w)
                 \/ MarkProcessed(w) \/ FanoutEnds(w)

DeliveryStep(w) == \/ TakeDelivery(w) \/ PostAccepted(w) \/ PostFails(w)
                   \/ Succeed(w) \/ EventDelivered(w) \/ TouchEndpoint(w)
                   \/ Fail(w) \/ RetryDelivery(w) \/ EventFailed(w)

WebhooksQuiet == /\ fanoutMessages = 0 /\ deliveryMessages = {}
                 /\ Running = {}
                 /\ \A w \in DeliveryWorkers : deliverer[w].step = "idle"
                 /\ UNCHANGED webhookVars

WebhookNext ==
    \/ \E events \in FilterChoices : CreateEndpoint(events)
    \/ \E n \in DOMAIN endpoint : DeleteEndpoint(n) \/ RotateSecret(n) \/ SendTestEvent(n)
    \/ \E d \in DOMAIN delivery : ReplayDelivery(d)
    \/ \E w \in FanoutWorkers : FanoutStep(w) \/ FanoutDies(w)
    \/ \E w \in DeliveryWorkers : DeliveryStep(w) \/ DelivererDies(w)
    \/ WebhooksQuiet

WebhookSpec == WebhookInit /\ [][WebhookNext]_webhookVars

\* Web processes and Celery workers keep running.
WebhookFairness == /\ \A w \in FanoutWorkers : WF_webhookVars(FanoutStep(w))
                   /\ \A w \in DeliveryWorkers : WF_webhookVars(DeliveryStep(w))
WebhookFairSpec == WebhookSpec /\ WebhookFairness

-----------------------------------------------------------------------------
(* Properties.                                                              *)

\* Every variable has its type.
WebhookTypeOK ==
    /\ outbox \in Seq(OutboxRow) /\ Len(outbox) <= MaxEvents
    /\ webhookEvent \in [Events -> WebhookEventStatus \cup {"NONE"}]
    /\ endpoint \in Seq(EndpointRow) /\ Len(endpoint) <= MaxEndpoints
    /\ delivery \in Seq(DeliveryRow)
    /\ fanoutMessages \in Nat
    /\ fanout \in [FanoutWorkers -> [step : {"idle", "event", "create", "send"},
                                     batch : SUBSET Events, targets : SUBSET EndpointIds,
                                     row : Nat]]
    /\ deliveryMessages \subseteq DeliveryMessage
    /\ deliverer \in [DeliveryWorkers -> {NoDelivery} \cup
            [step : {"post", "success", "delivered", "touch", "failure", "retry", "failed"},
             delivery : Nat \ {0}, retries : 0 .. MaxDeliveryRetries, endpoint : EndpointRow]]
    /\ accepted \subseteq Events \X EndpointIds
    /\ overlaps \in Nat /\ deaths \in Nat

\* The outbox loses nothing: once a row is marked processed, every endpoint
\* that matched it when it was published, and has not been deleted, has a
\* delivery of the event, whatever task has died on the way.
ProcessedIsFannedOut ==
    \A e \in DOMAIN outbox : outbox[e].processed =>
        \A n \in outbox[e].audience \cap Alive :
            \E d \in DOMAIN delivery : delivery[d].event = e /\ delivery[d].endpoint = n

\* ... and while no task has died and no two fan-outs have overlapped, it has
\* exactly one, replays aside.
FannedOutOnce ==
    overlaps = 0 /\ deaths = 0 =>
        \A c, d \in DOMAIN delivery :
            /\ delivery[c].event = delivery[d].event
            /\ delivery[c].endpoint = delivery[d].endpoint
            /\ ~delivery[c].replay /\ ~delivery[d].replay
            => c = d

\* What the outbox publishes reaches every endpoint, once if nothing goes wrong.
OutboxIsFannedOut == ProcessedIsFannedOut /\ FannedOutOnce

\* A status is earned: a delivery is SUCCESS only if its endpoint has accepted
\* the event, an event is DELIVERED only if one of its deliveries is SUCCESS,
\* and FAILED, even after it was DELIVERED, only if one has used up its retries.
StatusIsEarned ==
    /\ \A d \in DOMAIN delivery : delivery[d].status = "SUCCESS" =>
            <<delivery[d].event, delivery[d].endpoint>> \in accepted
    /\ \A e \in Events :
          /\ webhookEvent[e] = "DELIVERED" =>
                \E d \in DOMAIN delivery : delivery[d].event = e /\ delivery[d].status = "SUCCESS"
          /\ webhookEvent[e] = "FAILED" =>
                \E d \in DOMAIN delivery : /\ delivery[d].event = e
                                           /\ delivery[d].status = "FAILED"
                                           /\ delivery[d].attempt = MaxDeliveryRetries + 1

\* In every step: a delivery that ends late, with a stale endpoint in hand,
\* undoes neither the deletion of the endpoint nor the rotation of its secret.
EndpointNeverReverts ==
    \A n \in DOMAIN endpoint :
        /\ endpoint[n].deleted => endpoint'[n].deleted
        /\ endpoint[n].secret <= endpoint'[n].secret

\* An event is fanned out, and a delivery ends, with SUCCESS or after its last
\* retry, unless a task dies: FAILED alone is no end, every failed attempt says so.
Outstanding(e) == e \in DOMAIN outbox /\ ~outbox[e].processed
Undelivered(d) == /\ d \in DOMAIN delivery
                  /\ \/ delivery[d].status = "PENDING"
                     \/ delivery[d].status = "FAILED" /\ delivery[d].attempt <= MaxDeliveryRetries
DeliveryRows == 1 .. MaxEvents * MaxEndpoints
EventIsProcessed == \A e \in Events : Outstanding(e) ~> deaths > 0 \/ ~Outstanding(e)
DeliveryEnds == \A d \in DeliveryRows : Undelivered(d) ~> deaths > 0 \/ ~Undelivered(d)
=============================================================================

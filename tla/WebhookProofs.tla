---------------------------- MODULE WebhookProofs ---------------------------
(***************************************************************************)
(* What is proved of the webhooks and the notifications, for every number  *)
(* of workers, rows, endpoints and retries and every batch size.           *)
(*                                                                         *)
(* WebhookInv says more than types: the numbers that rows, messages and tasks *)
(* hold are those of rows, which RowsGrow shows to stay, with what they    *)
(* are about (Grow).  OutboxInv is what a fan-out keeps while it is under  *)
(* way.  CoverInv: of the event at hand, every endpoint that matched at    *)
(* publication and lives is a target still to come or has its delivery, so *)
(* that when no target is left the row may be marked.  OnceInv, as long as *)
(* no two fan-outs have overlapped and no task has died: what has a        *)
(* delivery is marked, or is the event at hand and no target any more, so  *)
(* that nothing is delivered twice.  Both have a lemma per action.         *)
(* StatusInv: a delivery is in one place at a time, a fan-out that will    *)
(* send it, a message or a task, so that no two tasks save the same row.   *)
(* MailInv, last, is the same idea for the notifications.                  *)
(***************************************************************************)
EXTENDS Webhooks, Notifications, SequenceTheorems, WellFoundedInduction, TLAPS

-----------------------------------------------------------------------------
(* The least and the greatest of a set of row numbers.                      *)

LEMMA MinIsLeast ==
    ASSUME NEW S, S \subseteq Nat, S # {}
    PROVE  Min(S) \in S /\ \A y \in S : Min(S) <= y
<1> DEFINE R == OpToRel(<, Nat)
<1>1. IsWellFoundedOn(R, Nat)
  BY NatLessThanWellFounded
<1>2. \A y, x \in Nat : <<y, x>> \notin R => x <= y
  BY DEF OpToRel
<1> HIDE DEF R
<1>3. PICK x \in S : \A y \in S : ~ (<<y, x>> \in R)
  BY <1>1, WFMin, Zenon
<1>4. \A y \in S : x <= y
  BY <1>2, <1>3
<1>5. QED
  BY <1>4 DEF Min

LEMMA MaxIsIn ==
    ASSUME NEW S, NEW m \in Nat, S \subseteq 1 .. m, S # {}
    PROVE  Max(S) \in S
<1> DEFINE above == {k \in Nat : \A y \in S : y <= k}
<1>1. m \in above /\ above \subseteq Nat
  OBVIOUS
<1>2. PICK x : x = Min(above)
  OBVIOUS
<1>3. x \in above /\ \A k \in above : x <= k
  BY <1>1, <1>2, MinIsLeast
<1>4. x \in Nat /\ \A y \in S : y \in Nat /\ 1 <= y /\ y <= x
  BY <1>3
<1>5. PICK z \in S : z \in Nat /\ 1 <= z /\ z <= x
  BY <1>4
<1>6. x \in S
  <2>1. SUFFICES ASSUME x \notin S PROVE FALSE
    OBVIOUS
  <2>2. \A y \in S : y <= x - 1
    BY <1>4, <2>1
  <2>3. x - 1 \in Nat
    BY <1>4, <1>5
  <2>4. x - 1 \in above
    BY <2>2, <2>3
  <2>5. QED
    BY <1>3, <1>4, <2>4
<1>7. \A y \in S : x >= y
  BY <1>4
<1>8. QED
  BY <1>6, <1>7 DEF Max

-----------------------------------------------------------------------------
(* Types.                                                                   *)

\* A number that a task or a row holds is that of a row.
RowTypes ==
    /\ outbox \in Seq(OutboxRow) /\ Len(outbox) <= MaxEvents
    /\ webhookEvent \in [Events -> WebhookEventStatus \cup {"NONE"}]
    /\ endpoint \in Seq(EndpointRow) /\ Len(endpoint) <= MaxEndpoints
    /\ delivery \in Seq(DeliveryRow)
    /\ \A d \in DOMAIN delivery :
          delivery[d].event \in DOMAIN outbox /\ delivery[d].endpoint \in DOMAIN endpoint
    /\ fanoutMessages \in Nat /\ accepted \subseteq Events \X EndpointIds
    /\ overlaps \in Nat /\ deaths \in Nat

FanoutRecord == [step : {"idle", "event", "create", "send"},
                 batch : SUBSET Events, targets : SUBSET EndpointIds, row : Nat]
FanoutTypes ==
    /\ fanout \in [FanoutWorkers -> FanoutRecord]
    /\ \A w \in FanoutWorkers :
          /\ fanout[w].batch \subseteq DOMAIN outbox /\ fanout[w].targets \subseteq DOMAIN endpoint
          /\ fanout[w].step \in {"create", "send"} => fanout[w].batch # {}
          /\ fanout[w].step = "send" => fanout[w].row \in DOMAIN delivery

DelivererRecord ==
    [step : {"post", "success", "delivered", "touch", "failure", "retry", "failed"},
     delivery : Nat \ {0}, retries : 0 .. MaxDeliveryRetries, endpoint : EndpointRow]
TaskTypes ==
    /\ deliveryMessages \subseteq DeliveryMessage
    /\ \A m \in deliveryMessages : m.delivery \in DOMAIN delivery
    /\ deliverer \in [DeliveryWorkers -> {NoDelivery} \cup DelivererRecord]
    /\ \A w \in DeliveryWorkers : deliverer[w].step # "idle" =>
          /\ deliverer[w] \in DelivererRecord /\ D(w) \in DOMAIN delivery
          /\ deliverer[w].step = "retry" => deliverer[w].retries < MaxDeliveryRetries

WebhookInv == RowTypes /\ FanoutTypes /\ TaskTypes

\* What a step never does: rows stay, with what they are about.
Grow ==
    /\ DOMAIN outbox \subseteq DOMAIN outbox' /\ DOMAIN endpoint \subseteq DOMAIN endpoint'
    /\ DOMAIN delivery \subseteq DOMAIN delivery'
    /\ \A e \in DOMAIN outbox : outbox'[e].audience = outbox[e].audience
    /\ \A n \in DOMAIN endpoint :
          /\ endpoint'[n].enabled = endpoint[n].enabled
          /\ endpoint[n].deleted => endpoint'[n].deleted
          /\ endpoint[n].secret <= endpoint'[n].secret
    /\ \A d \in DOMAIN delivery : /\ delivery'[d].event = delivery[d].event
                                  /\ delivery'[d].endpoint = delivery[d].endpoint
                                  /\ delivery'[d].replay = delivery[d].replay

LEMMA InitTypes == WebhookInit => WebhookInv
BY WebhooksAssumption DEF WebhookInit, WebhookInv, RowTypes, FanoutTypes, TaskTypes, FanoutRecord,
   DelivererRecord, NoFanout, NoDelivery

\* Tasks that rest are not affected by rows that grow.
LEMMA FanoutKept ==
    ASSUME FanoutTypes, Grow, fanout' = fanout
    PROVE  FanoutTypes'
BY DEF FanoutTypes, Grow

LEMMA TasksKept ==
    ASSUME TaskTypes, Grow, deliverer' = deliverer, deliveryMessages' = deliveryMessages
    PROVE  TaskTypes'
BY DEF TaskTypes, Grow, D

LEMMA SecretIsNat ==
    ASSUME RowTypes, NEW n \in DOMAIN endpoint
    PROVE  /\ endpoint[n] \in EndpointRow /\ endpoint[n].secret \in Nat
           /\ endpoint[n].secret <= endpoint[n].secret
<1>1. endpoint[n] \in EndpointRow
  BY DEF RowTypes
<1>2. endpoint[n].secret \in Nat
  BY <1>1 DEF EndpointRow
<1>3. QED
  BY <1>1, <1>2

LEMMA RowsKept ==
    ASSUME RowTypes, outbox' = outbox, endpoint' = endpoint, delivery' = delivery
    PROVE  Grow
<1>1. \A n \in DOMAIN endpoint : endpoint[n].secret <= endpoint[n].secret
  BY SecretIsNat
<1>2. QED
  BY <1>1 DEF Grow

\* A delivery is added, by a replay or by a fan-out.
LEMMA DeliveryAdded ==
    ASSUME RowTypes, NEW r \in DeliveryRow,
           r.event \in DOMAIN outbox, r.endpoint \in DOMAIN endpoint,
           delivery' = Append(delivery, r),
           UNCHANGED <<outbox, webhookEvent, endpoint, fanoutMessages, accepted, overlaps, deaths>>
    PROVE  /\ RowTypes' /\ Grow
           /\ DOMAIN delivery' = 1 .. Len(delivery) + 1 /\ Len(delivery) \in Nat
           /\ delivery'[Len(delivery) + 1] = r
           /\ \A d \in DOMAIN delivery : delivery'[d] = delivery[d]
<1>1. delivery \in Seq(DeliveryRow)
  BY DEF RowTypes
<1>2. /\ delivery' \in Seq(DeliveryRow)
      /\ Len(delivery') = Len(delivery) + 1 /\ Len(delivery) \in Nat
      /\ DOMAIN delivery' = 1 .. Len(delivery) + 1 /\ DOMAIN delivery = 1 .. Len(delivery)
      /\ delivery'[Len(delivery) + 1] = r
      /\ \A d \in DOMAIN delivery : delivery'[d] = delivery[d]
  BY <1>1, AppendProperties
<1>3. Grow
  BY <1>2, SecretIsNat DEF Grow
<1>4. \A d \in DOMAIN delivery' :
         delivery'[d].event \in DOMAIN outbox /\ delivery'[d].endpoint \in DOMAIN endpoint
  <2>1. SUFFICES ASSUME NEW d \in DOMAIN delivery'
                 PROVE  delivery'[d].event \in DOMAIN outbox
                        /\ delivery'[d].endpoint \in DOMAIN endpoint
    OBVIOUS
  <2>2. d \in DOMAIN delivery \/ d = Len(delivery) + 1
    BY <1>2
  <2>3. QED
    BY <1>2, <2>2 DEF RowTypes
<1>5. RowTypes'
  BY <1>2, <1>4 DEF RowTypes
<1>6. QED
  BY <1>2, <1>3, <1>5

-----------------------------------------------------------------------------
(* The API.                                                                 *)

LEMMA CreateEndpointTypes ==
    ASSUME WebhookInv, NEW events \in FilterChoices, CreateEndpoint(events)
    PROVE  WebhookInv' /\ Grow
<1>1. NewEndpoint(events) \in EndpointRow
  BY WebhooksAssumption DEF NewEndpoint, EndpointRow
<1>2. /\ endpoint \in Seq(EndpointRow) /\ Len(endpoint) < MaxEndpoints
      /\ endpoint' = Append(endpoint, NewEndpoint(events))
      /\ UNCHANGED <<outbox, webhookEvent, delivery, fanoutMessages, fanout, deliveryMessages,
                     deliverer, accepted, overlaps, deaths>>
  BY DEF CreateEndpoint, WebhookInv, RowTypes, tasks, outside
<1>3. /\ endpoint' \in Seq(EndpointRow) /\ Len(endpoint') <= MaxEndpoints
      /\ DOMAIN endpoint \subseteq DOMAIN endpoint'
      /\ \A n \in DOMAIN endpoint : endpoint'[n] = endpoint[n]
  BY <1>1, <1>2, WebhooksAssumption
<1>4. Grow
  BY <1>2, <1>3, SecretIsNat DEF Grow, WebhookInv
<1>5. RowTypes'
  BY <1>2, <1>3 DEF WebhookInv, RowTypes
<1>6. QED
  BY <1>2, <1>4, <1>5, FanoutKept, TasksKept DEF WebhookInv

\* One row is updated: deletion, rotation, the end of a delivery.
LEMMA EndpointSaved ==
    ASSUME RowTypes, NEW n \in DOMAIN endpoint, NEW r \in EndpointRow,
           endpoint' = [endpoint EXCEPT ![n] = r],
           r.enabled = endpoint[n].enabled, endpoint[n].deleted => r.deleted,
           endpoint[n].secret <= r.secret,
           UNCHANGED <<outbox, webhookEvent, delivery, fanoutMessages, accepted, overlaps,
                       deaths>>
    PROVE  RowTypes' /\ Grow
<1>1. endpoint \in Seq(EndpointRow) /\ n \in 1 .. Len(endpoint)
  BY DEF RowTypes
<1>2. /\ endpoint' \in Seq(EndpointRow) /\ Len(endpoint') = Len(endpoint)
      /\ DOMAIN endpoint' = DOMAIN endpoint
      /\ \A i \in DOMAIN endpoint : endpoint'[i] = IF i = n THEN r ELSE endpoint[i]
  BY <1>1, ExceptSeq
<1>3. Grow
  BY <1>2, SecretIsNat DEF Grow
<1>4. RowTypes'
  BY <1>2 DEF RowTypes
<1>5. QED
  BY <1>3, <1>4

LEMMA EndpointTypes ==
    ASSUME WebhookInv, NEW n \in DOMAIN endpoint, DeleteEndpoint(n) \/ RotateSecret(n)
    PROVE  WebhookInv' /\ Grow
<1>1. /\ endpoint \in Seq(EndpointRow) /\ n \in DOMAIN endpoint
      /\ \/ endpoint' = [endpoint EXCEPT ![n].deleted = TRUE]
         \/ endpoint' = [endpoint EXCEPT ![n].secret = @ + 1]
      /\ UNCHANGED <<outbox, webhookEvent, delivery, fanoutMessages, fanout, deliveryMessages,
                     deliverer, accepted, overlaps, deaths>>
  BY DEF DeleteEndpoint, RotateSecret, WebhookInv, RowTypes, tasks, outside
<1>2. PICK r \in EndpointRow : /\ endpoint' = [endpoint EXCEPT ![n] = r]
                               /\ r.enabled = endpoint[n].enabled
                               /\ endpoint[n].deleted => r.deleted
                               /\ endpoint[n].secret <= r.secret
  <2>1. /\ endpoint[n] \in EndpointRow /\ endpoint[n].secret \in Nat
        /\ endpoint[n].secret <= endpoint[n].secret
    BY SecretIsNat DEF WebhookInv
  <2>2. CASE endpoint' = [endpoint EXCEPT ![n].deleted = TRUE]
    <3>1. [endpoint[n] EXCEPT !.deleted = TRUE] \in EndpointRow
      BY <2>1 DEF EndpointRow
    <3>2. QED
      BY <2>1, <2>2, <3>1 DEF EndpointRow
  <2>3. CASE endpoint' = [endpoint EXCEPT ![n].secret = @ + 1]
    <3>1. [endpoint[n] EXCEPT !.secret = @ + 1] \in EndpointRow
      BY <2>1 DEF EndpointRow
    <3>2. endpoint[n].secret <= endpoint[n].secret + 1
      BY <2>1
    <3>3. QED
      BY <2>1, <2>3, <3>1, <3>2 DEF EndpointRow
  <2>4. QED
    BY <1>1, <2>2, <2>3
<1>3. RowTypes' /\ Grow
  <2>1. RowTypes
    BY DEF WebhookInv
  <2>2. UNCHANGED <<outbox, webhookEvent, delivery, fanoutMessages, accepted, overlaps, deaths>>
    BY <1>1
  <2>3. QED
    BY <1>2, <2>1, <2>2, EndpointSaved
<1>4. QED
  BY <1>1, <1>3, FanoutKept, TasksKept DEF WebhookInv

LEMMA PublishTypes ==
    ASSUME WebhookInv, PublishEvent("ping")
    PROVE  WebhookInv' /\ Grow
<1> DEFINE row == [type |-> "ping", processed |-> FALSE, audience |-> Matching("ping")]
<1>1. /\ outbox \in Seq(OutboxRow) /\ Len(outbox) < MaxEvents
      /\ outbox' = Append(outbox, row)
      /\ fanoutMessages' \in Nat /\ deaths' \in Nat
      /\ UNCHANGED <<webhookEvent, endpoint, delivery, fanout, deliveryMessages, deliverer,
                     accepted, overlaps>>
  BY DEF PublishEvent, Dies, WebhookInv, RowTypes
<1>2. row \in OutboxRow
  BY WebhooksAssumption DEF WebhookInv, RowTypes, OutboxRow, Matching, Alive, EndpointIds
<1> HIDE DEF row
<1>3. /\ outbox' \in Seq(OutboxRow) /\ Len(outbox') <= MaxEvents
      /\ DOMAIN outbox \subseteq DOMAIN outbox'
      /\ \A e \in DOMAIN outbox : outbox'[e] = outbox[e]
  BY <1>1, <1>2, WebhooksAssumption
<1>4. Grow
  BY <1>1, <1>3, SecretIsNat DEF Grow, WebhookInv
<1>5. RowTypes'
  BY <1>1, <1>3 DEF WebhookInv, RowTypes
<1>6. QED
  BY <1>1, <1>4, <1>5, FanoutKept, TasksKept DEF WebhookInv

LEMMA ReplayTypes ==
    ASSUME WebhookInv, NEW d \in DOMAIN delivery, ReplayDelivery(d)
    PROVE  WebhookInv' /\ Grow
<1> DEFINE row == NewDelivery(delivery[d].event, delivery[d].endpoint, delivery[d].attempt + 1)
           m == [delivery |-> Len(delivery) + 1, retries |-> 0]
<1>1. /\ delivery \in Seq(DeliveryRow)
      /\ delivery' = Append(delivery, row)
      /\ deliveryMessages' = deliveryMessages \cup {m}
      /\ UNCHANGED <<outbox, webhookEvent, endpoint, fanoutMessages, fanout, deliverer, accepted,
                     overlaps, deaths>>
  BY DEF ReplayDelivery, WebhookInv, RowTypes, outside
<1>2. /\ row \in DeliveryRow /\ row.event \in DOMAIN outbox /\ row.endpoint \in DOMAIN endpoint
      /\ m \in DeliveryMessage /\ m.delivery = Len(delivery) + 1
  <2>1. delivery[d] \in DeliveryRow
    BY DEF WebhookInv, RowTypes
  <2>2. delivery[d].attempt + 1 \in Nat \ {0} /\ (delivery[d].attempt + 1 > 1) \in BOOLEAN
    BY <2>1 DEF DeliveryRow
  <2>3. row \in DeliveryRow
    BY <2>1, <2>2 DEF DeliveryRow, NewDelivery, DeliveryStatus
  <2>4. Len(delivery) + 1 \in Nat \ {0} /\ 0 \in 0 .. MaxDeliveryRetries
    BY <1>1, WebhooksAssumption
  <2>5. QED
    BY <2>3, <2>4 DEF WebhookInv, RowTypes, NewDelivery, DeliveryMessage
<1> HIDE DEF row, m
<1>3. /\ RowTypes' /\ Grow /\ DOMAIN delivery' = 1 .. Len(delivery) + 1
  BY <1>1, <1>2, DeliveryAdded DEF WebhookInv
<1>4. FanoutTypes'
  BY <1>1, <1>3, FanoutKept DEF WebhookInv
<1>5. Len(delivery) + 1 \in DOMAIN delivery'
  BY <1>1, <1>3
<1>6. TaskTypes'
  BY <1>1, <1>2, <1>3, <1>5 DEF WebhookInv, TaskTypes, Grow, D
<1>7. QED
  BY <1>3, <1>4, <1>6 DEF WebhookInv

-----------------------------------------------------------------------------
(* The fan-out.                                                             *)

LEMMA FanoutMoved ==
    ASSUME FanoutTypes, Grow, NEW w \in FanoutWorkers, NEW to \in FanoutRecord,
           fanout' = [fanout EXCEPT ![w] = to],
           to.batch \subseteq DOMAIN outbox, to.targets \subseteq DOMAIN endpoint,
           to.step \in {"create", "send"} => to.batch # {},
           to.step = "send" => to.row \in DOMAIN delivery'
    PROVE  FanoutTypes'
BY DEF FanoutTypes, Grow

\* The event and the endpoint that a fan-out is at are among those it has read.
LEMMA NextIsIn ==
    ASSUME WebhookInv, NEW w \in FanoutWorkers
    PROVE  /\ fanout[w] \in FanoutRecord
           /\ fanout[w].batch # {} => NextEvent(w) \in fanout[w].batch
           /\ fanout[w].targets # {} => Max(fanout[w].targets) \in fanout[w].targets
<1>1. fanout[w] \in FanoutRecord
  BY DEF WebhookInv, FanoutTypes
<1>2. fanout[w].batch \subseteq Nat /\ fanout[w].targets \subseteq 1 .. MaxEndpoints
  BY <1>1, WebhooksAssumption DEF FanoutRecord, Events, EndpointIds
<1>3. fanout[w].batch # {} => NextEvent(w) \in fanout[w].batch
  BY <1>2, MinIsLeast DEF NextEvent
<1>4. fanout[w].targets # {} => Max(fanout[w].targets) \in fanout[w].targets
  BY <1>2, MaxIsIn, WebhooksAssumption
<1>5. QED
  BY <1>1, <1>3, <1>4

LEMMA NoFanoutTypes ==
    NoFanout \in FanoutRecord /\ NoFanout.batch = {} /\ NoFanout.targets = {} /\ NoFanout.step = "idle"
BY DEF NoFanout, FanoutRecord

LEMMA TakeBatchTypes ==
    ASSUME WebhookInv, NEW w \in FanoutWorkers, TakeBatch(w)
    PROVE  WebhookInv' /\ Grow
<1>1. PICK to : to = [NoFanout EXCEPT !.step = "event", !.batch = Oldest]
  OBVIOUS
<1>2. /\ fanout' = [fanout EXCEPT ![w] = to]
      /\ fanoutMessages' = fanoutMessages - 1 /\ fanoutMessages > 0
      /\ overlaps' = overlaps \/ overlaps' = overlaps + 1
      /\ UNCHANGED <<outbox, webhookEvent, endpoint, delivery, deliveryMessages, deliverer,
                     accepted, deaths>>
  BY <1>1 DEF TakeBatch, FanoutAt
<1>3. Oldest \subseteq DOMAIN outbox /\ Oldest \subseteq Events
  BY WebhooksAssumption DEF Oldest, Unprocessed, WebhookInv, RowTypes, Events
<1>4. to \in FanoutRecord /\ to.step = "event" /\ to.batch = Oldest /\ to.targets = {}
  BY <1>1, <1>3 DEF NoFanout, FanoutRecord
<1>5. Grow /\ RowTypes'
  BY <1>2, RowsKept DEF WebhookInv, RowTypes
<1>6. FanoutTypes'
  BY <1>2, <1>3, <1>4, <1>5, FanoutMoved DEF WebhookInv
<1>7. QED
  BY <1>2, <1>5, <1>6, TasksKept DEF WebhookInv

LEMMA OpenEventTypes ==
    ASSUME WebhookInv, NEW w \in FanoutWorkers, OpenEvent(w)
    PROVE  WebhookInv' /\ Grow
<1>1. PICK to : to = [fanout[w] EXCEPT !.step = "create",
                                       !.targets = Matching(outbox[NextEvent(w)].type)]
  OBVIOUS
<1>2. /\ fanout[w].batch # {}
      /\ fanout' = [fanout EXCEPT ![w] = to]
      /\ webhookEvent' = IF webhookEvent[NextEvent(w)] = "NONE"
                         THEN [webhookEvent EXCEPT ![NextEvent(w)] = "PENDING"] ELSE webhookEvent
      /\ UNCHANGED <<outbox, endpoint, delivery, fanoutMessages, deliveryMessages, deliverer,
                     accepted, overlaps, deaths>>
  BY <1>1 DEF OpenEvent, FanoutAt
<1>3. fanout[w] \in FanoutRecord /\ fanout[w].batch \subseteq DOMAIN outbox
  BY DEF WebhookInv, FanoutTypes
<1>4. Matching(outbox[NextEvent(w)].type) \subseteq DOMAIN endpoint
      /\ DOMAIN endpoint \subseteq EndpointIds
  BY WebhooksAssumption DEF Matching, Alive, WebhookInv, RowTypes, EndpointIds
<1>5. /\ to \in FanoutRecord /\ to.step = "create" /\ to.batch = fanout[w].batch
      /\ to.targets \subseteq DOMAIN endpoint
  BY <1>1, <1>3, <1>4 DEF FanoutRecord
<1>6. Grow /\ RowTypes'
  BY <1>2, RowsKept DEF WebhookInv, RowTypes, WebhookEventStatus
<1>7. FanoutTypes'
  BY <1>2, <1>3, <1>5, <1>6, FanoutMoved DEF WebhookInv
<1>8. QED
  BY <1>2, <1>6, <1>7, TasksKept DEF WebhookInv

LEMMA CreateDeliveryTypes ==
    ASSUME WebhookInv, NEW w \in FanoutWorkers, CreateDelivery(w)
    PROVE  WebhookInv' /\ Grow
<1>1. PICK n : n = Max(fanout[w].targets)
  OBVIOUS
<1>2. PICK r : r = NewDelivery(NextEvent(w), n, 1)
  OBVIOUS
<1>3. PICK to : to = [fanout[w] EXCEPT !.step = "send", !.targets = @ \ {n},
                                       !.row = Len(delivery) + 1]
  OBVIOUS
<1>4. /\ fanout[w].targets # {} /\ fanout[w].step = "create"
      /\ delivery' = Append(delivery, r)
      /\ fanout' = [fanout EXCEPT ![w] = to]
      /\ UNCHANGED <<outbox, webhookEvent, endpoint, fanoutMessages, deliveryMessages, deliverer,
                     accepted, overlaps, deaths>>
  BY <1>1, <1>2, <1>3 DEF CreateDelivery, FanoutAt
<1>5. /\ fanout[w] \in FanoutRecord /\ fanout[w].batch \subseteq DOMAIN outbox
      /\ fanout[w].batch # {} /\ fanout[w].targets \subseteq DOMAIN endpoint
  BY <1>4 DEF WebhookInv, FanoutTypes
<1>6. n \in fanout[w].targets /\ NextEvent(w) \in fanout[w].batch
  BY <1>1, <1>4, <1>5, NextIsIn
<1>7. r \in DeliveryRow /\ r.event \in DOMAIN outbox /\ r.endpoint \in DOMAIN endpoint
  BY <1>2, <1>5, <1>6 DEF NewDelivery, DeliveryRow, DeliveryStatus, FanoutRecord
<1>8. /\ RowTypes' /\ Grow
      /\ DOMAIN delivery' = 1 .. Len(delivery) + 1 /\ Len(delivery) \in Nat
  BY <1>4, <1>7, DeliveryAdded DEF WebhookInv
<1>9. /\ to \in FanoutRecord /\ to.step = "send" /\ to.batch = fanout[w].batch
      /\ to.targets \subseteq DOMAIN endpoint /\ to.row \in DOMAIN delivery'
  <2>1. Len(delivery) + 1 \in Nat /\ Len(delivery) + 1 \in DOMAIN delivery'
    BY <1>8
  <2>2. PICK i : i = Len(delivery) + 1
    OBVIOUS
  <2>3. to = [fanout[w] EXCEPT !.step = "send", !.targets = @ \ {n}, !.row = i]
    BY <1>3, <2>2
  <2>4. i \in Nat /\ i \in DOMAIN delivery'
    BY <2>1, <2>2
  <2>5. QED
    BY <1>5, <2>3, <2>4 DEF FanoutRecord
<1>10. FanoutTypes'
  BY <1>4, <1>5, <1>8, <1>9, FanoutMoved DEF WebhookInv
<1>11. QED
  BY <1>4, <1>8, <1>10, TasksKept DEF WebhookInv

LEMMA SendDeliveryTypes ==
    ASSUME WebhookInv, NEW w \in FanoutWorkers, SendDelivery(w)
    PROVE  WebhookInv' /\ Grow
<1>1. PICK to : to = [fanout[w] EXCEPT !.step = "create", !.row = 0]
  OBVIOUS
<1>2. PICK m : m = [delivery |-> fanout[w].row, retries |-> 0]
  OBVIOUS
<1>3. /\ fanout[w].step = "send"
      /\ fanout' = [fanout EXCEPT ![w] = to]
      /\ deliveryMessages' = deliveryMessages \cup {m}
      /\ UNCHANGED <<outbox, webhookEvent, endpoint, delivery, fanoutMessages, deliverer,
                     accepted, overlaps, deaths>>
  BY <1>1, <1>2 DEF SendDelivery, FanoutAt
<1>4. /\ fanout[w] \in FanoutRecord /\ fanout[w].batch \subseteq DOMAIN outbox
      /\ fanout[w].batch # {} /\ fanout[w].targets \subseteq DOMAIN endpoint
      /\ fanout[w].row \in DOMAIN delivery
  BY <1>3 DEF WebhookInv, FanoutTypes
<1>5. Grow /\ RowTypes'
  BY <1>3, RowsKept DEF WebhookInv, RowTypes
<1>6. /\ to \in FanoutRecord /\ to.step = "create"
      /\ to.batch = fanout[w].batch /\ to.targets = fanout[w].targets
  BY <1>1, <1>4 DEF FanoutRecord
<1>7. FanoutTypes'
  BY <1>3, <1>4, <1>5, <1>6, FanoutMoved DEF WebhookInv
<1>8. m \in DeliveryMessage /\ m.delivery \in DOMAIN delivery
  BY <1>2, <1>4, WebhooksAssumption DEF WebhookInv, RowTypes, DeliveryMessage
<1>9. TaskTypes'
  BY <1>3, <1>8 DEF WebhookInv, TaskTypes, D
<1>10. QED
  BY <1>5, <1>7, <1>9 DEF WebhookInv

LEMMA MarkProcessedTypes ==
    ASSUME WebhookInv, NEW w \in FanoutWorkers, MarkProcessed(w)
    PROVE  WebhookInv' /\ Grow
<1>1. PICK e : e = NextEvent(w)
  OBVIOUS
<1>2. PICK to : to = [fanout[w] EXCEPT !.step = "event", !.batch = @ \ {e}]
  OBVIOUS
<1>3. /\ fanout[w].step = "create"
      /\ outbox' = [outbox EXCEPT ![e].processed = TRUE]
      /\ fanout' = [fanout EXCEPT ![w] = to]
      /\ UNCHANGED <<webhookEvent, endpoint, delivery, fanoutMessages, deliveryMessages, deliverer,
                     accepted, overlaps, deaths>>
  BY <1>1, <1>2 DEF MarkProcessed, FanoutAt
<1>4. /\ fanout[w] \in FanoutRecord /\ fanout[w].batch \subseteq DOMAIN outbox
      /\ fanout[w].batch # {} /\ fanout[w].targets \subseteq DOMAIN endpoint
  BY <1>3 DEF WebhookInv, FanoutTypes
<1>5. e \in DOMAIN outbox /\ outbox \in Seq(OutboxRow)
  BY <1>1, <1>4, NextIsIn DEF WebhookInv, RowTypes
<1>6. PICK r : r = [outbox[e] EXCEPT !.processed = TRUE]
  OBVIOUS
<1>7. r \in OutboxRow /\ r.audience = outbox[e].audience
  <2>1. outbox[e] \in OutboxRow
    BY <1>5
  <2>2. QED
    BY <1>6, <2>1 DEF OutboxRow
<1>8. /\ outbox' \in Seq(OutboxRow) /\ Len(outbox') = Len(outbox)
      /\ DOMAIN outbox' = DOMAIN outbox
      /\ \A i \in DOMAIN outbox : outbox'[i] = IF i = e THEN r ELSE outbox[i]
  BY <1>3, <1>5, <1>6, <1>7, ExceptSeq
<1>9. Grow
  BY <1>3, <1>7, <1>8, SecretIsNat DEF Grow, WebhookInv
<1>10. RowTypes'
  BY <1>3, <1>8 DEF WebhookInv, RowTypes
<1>11. /\ to \in FanoutRecord /\ to.step = "event"
       /\ to.batch \subseteq fanout[w].batch /\ to.targets = fanout[w].targets
  BY <1>2, <1>4 DEF FanoutRecord
<1>12. FanoutTypes'
  BY <1>3, <1>4, <1>9, <1>11, FanoutMoved DEF WebhookInv
<1>13. QED
  BY <1>3, <1>9, <1>10, <1>12, TasksKept DEF WebhookInv

LEMMA FanoutStopsTypes ==
    ASSUME WebhookInv, NEW w \in FanoutWorkers, FanoutEnds(w) \/ FanoutDies(w)
    PROVE  WebhookInv' /\ Grow
<1>1. /\ fanout' = [fanout EXCEPT ![w] = NoFanout]
      /\ deaths' = deaths \/ deaths' = deaths + 1
      /\ UNCHANGED <<outbox, webhookEvent, endpoint, delivery, fanoutMessages, deliveryMessages,
                     deliverer, accepted, overlaps>>
  BY DEF FanoutEnds, FanoutDies, FanoutAt, Dies
<1>2. Grow /\ RowTypes'
  BY <1>1, RowsKept DEF WebhookInv, RowTypes
<1>3. PICK to \in FanoutRecord : to = NoFanout
  BY NoFanoutTypes
<1>4. FanoutTypes'
  BY <1>1, <1>2, <1>3, NoFanoutTypes, FanoutMoved DEF WebhookInv
<1>5. QED
  BY <1>1, <1>2, <1>4, TasksKept DEF WebhookInv

-----------------------------------------------------------------------------
(* The deliveries.                                                          *)

LEMMA DelivererMoved ==
    ASSUME TaskTypes, Grow, NEW w \in DeliveryWorkers, NEW to,
           deliverer' = [deliverer EXCEPT ![w] = to],
           to # NoDelivery =>
              /\ to \in DelivererRecord /\ to.delivery \in DOMAIN delivery
              /\ to.step = "retry" => to.retries < MaxDeliveryRetries,
           \A m \in deliveryMessages' :
              m \in deliveryMessages \/ (m \in DeliveryMessage /\ m.delivery \in DOMAIN delivery)
    PROVE  TaskTypes'
<1>1. deliverer' \in [DeliveryWorkers -> {NoDelivery} \cup DelivererRecord]
  BY DEF TaskTypes
<1>2. \A m \in deliveryMessages' : m \in DeliveryMessage /\ m.delivery \in DOMAIN delivery'
  BY DEF TaskTypes, Grow
<1>3. ASSUME NEW v \in DeliveryWorkers, deliverer'[v].step # "idle"
      PROVE  /\ deliverer'[v] \in DelivererRecord /\ D(v)' \in DOMAIN delivery'
             /\ deliverer'[v].step = "retry" => deliverer'[v].retries < MaxDeliveryRetries
  <2>1. CASE v = w
    BY <1>3, <2>1 DEF TaskTypes, Grow, D, NoDelivery
  <2>2. CASE v # w
    BY <1>3, <2>2 DEF TaskTypes, Grow, D
  <2>3. QED
    BY <2>1, <2>2
<1>4. QED
  BY <1>1, <1>2, <1>3 DEF TaskTypes

LEMMA TaskIsBusy ==
    ASSUME WebhookInv, NEW w \in DeliveryWorkers, deliverer[w].step # "idle"
    PROVE  /\ deliverer[w] \in DelivererRecord
           /\ D(w) \in DOMAIN delivery /\ delivery[D(w)] \in DeliveryRow
           /\ EventOf(w) \in Events /\ EndpointOf(w) \in DOMAIN endpoint
           /\ EndpointOf(w) \in EndpointIds
<1>1. deliverer[w] \in DelivererRecord /\ D(w) \in DOMAIN delivery
  BY DEF WebhookInv, TaskTypes
<1>2. delivery[D(w)] \in DeliveryRow /\ EndpointOf(w) \in DOMAIN endpoint
  BY <1>1 DEF WebhookInv, RowTypes, EndpointOf
<1>3. QED
  BY <1>1, <1>2 DEF EventOf, EndpointOf, DeliveryRow

LEMMA TakeDeliveryTypes ==
    ASSUME WebhookInv, NEW w \in DeliveryWorkers, TakeDelivery(w)
    PROVE  WebhookInv' /\ Grow
<1>1. PICK m \in deliveryMessages :
          /\ deliveryMessages' = deliveryMessages \ {m}
          /\ deliverer' = [deliverer EXCEPT ![w] =
                 [step |-> "post", delivery |-> m.delivery, retries |-> m.retries,
                  endpoint |-> endpoint[delivery[m.delivery].endpoint]]]
  BY DEF TakeDelivery, DelivererAt
<1>2. UNCHANGED <<outbox, webhookEvent, endpoint, delivery, fanoutMessages, fanout, accepted,
                  overlaps, deaths>>
  BY DEF TakeDelivery, DelivererAt
<1>3. PICK to : to = [step |-> "post", delivery |-> m.delivery, retries |-> m.retries,
                      endpoint |-> endpoint[delivery[m.delivery].endpoint]]
  OBVIOUS
<1>4. m \in DeliveryMessage /\ m.delivery \in DOMAIN delivery
  BY DEF WebhookInv, TaskTypes
<1>5. endpoint[delivery[m.delivery].endpoint] \in EndpointRow
  BY <1>4 DEF WebhookInv, RowTypes
<1>6. to \in DelivererRecord /\ to.delivery \in DOMAIN delivery /\ to.step = "post"
  BY <1>3, <1>4, <1>5 DEF DeliveryMessage, DelivererRecord
<1>7. Grow /\ RowTypes'
  BY <1>2, RowsKept DEF WebhookInv, RowTypes
<1>8. TaskTypes'
  BY <1>1, <1>3, <1>6, <1>7, DelivererMoved DEF WebhookInv
<1>9. QED
  BY <1>2, <1>7, <1>8, FanoutKept DEF WebhookInv

\* A step that leaves the rows as they are, the event's status aside.
LEMMA DelivererStepTypes ==
    ASSUME WebhookInv, NEW w \in DeliveryWorkers,
           \/ PostAccepted(w) \/ PostFails(w) \/ EventDelivered(w) \/ EventFailed(w)
           \/ RetryDelivery(w) \/ DelivererDies(w)
    PROVE  WebhookInv' /\ Grow
<1>1. deliverer[w].step # "idle"
  BY DEF PostAccepted, PostFails, EventDelivered, EventFailed, RetryDelivery, DelivererDies,
     DelivererAt
<1>2. /\ deliverer[w] \in DelivererRecord /\ D(w) \in DOMAIN delivery
      /\ EventOf(w) \in Events /\ EndpointOf(w) \in EndpointIds
      /\ deliverer[w].step = "retry" => deliverer[w].retries < MaxDeliveryRetries
  BY <1>1, TaskIsBusy DEF WebhookInv, TaskTypes
<1>3. /\ accepted' = accepted \/ accepted' = accepted \cup {<<EventOf(w), EndpointOf(w)>>}
      /\ deaths' = deaths \/ deaths' = deaths + 1
      /\ \/ webhookEvent' = webhookEvent
         \/ webhookEvent' = [webhookEvent EXCEPT ![EventOf(w)] = "DELIVERED"]
         \/ webhookEvent' = [webhookEvent EXCEPT ![EventOf(w)] = "FAILED"]
      /\ UNCHANGED <<outbox, endpoint, delivery, fanoutMessages, fanout, overlaps>>
  BY DEF PostAccepted, PostFails, EventDelivered, EventFailed, RetryDelivery, DelivererDies,
     DelivererAt, Dies
<1>4. Grow
  BY <1>3, RowsKept DEF WebhookInv
<1>5. RowTypes'
  <2>1. webhookEvent' \in [Events -> WebhookEventStatus \cup {"NONE"}]
    BY <1>2, <1>3 DEF WebhookInv, RowTypes, WebhookEventStatus
  <2>2. accepted' \subseteq Events \X EndpointIds /\ deaths' \in Nat
    BY <1>2, <1>3 DEF WebhookInv, RowTypes
  <2>3. QED
    BY <1>3, <2>1, <2>2 DEF WebhookInv, RowTypes
<1>6. PICK to : /\ deliverer' = [deliverer EXCEPT ![w] = to]
                /\ to # NoDelivery => /\ to.step \in {"success", "failure", "touch"}
                                      /\ to = [deliverer[w] EXCEPT !.step = to.step]
  <2>6. \A s : [deliverer[w] EXCEPT !.step = s].step = s
    BY <1>2 DEF DelivererRecord
  <2>1. CASE PostAccepted(w)
    <3>1. deliverer' = [deliverer EXCEPT ![w] = [deliverer[w] EXCEPT !.step = "success"]]
      BY <2>1 DEF PostAccepted, DelivererAt
    <3>2. PICK to : to = [deliverer[w] EXCEPT !.step = "success"]
      OBVIOUS
    <3>3. to.step = "success"
      BY <2>6, <3>2
    <3>4. to = [deliverer[w] EXCEPT !.step = to.step]
      BY <3>2, <3>3
    <3>5. QED
      BY <3>1, <3>2, <3>3, <3>4
  <2>2. CASE PostFails(w)
    <3>1. deliverer' = [deliverer EXCEPT ![w] = [deliverer[w] EXCEPT !.step = "failure"]]
      BY <2>2 DEF PostFails, DelivererAt
    <3>2. PICK to : to = [deliverer[w] EXCEPT !.step = "failure"]
      OBVIOUS
    <3>3. to.step = "failure"
      BY <2>6, <3>2
    <3>4. to = [deliverer[w] EXCEPT !.step = to.step]
      BY <3>2, <3>3
    <3>5. QED
      BY <3>1, <3>2, <3>3, <3>4
  <2>3. CASE EventDelivered(w)
    <3>1. deliverer' = [deliverer EXCEPT ![w] = [deliverer[w] EXCEPT !.step = "touch"]]
      BY <2>3 DEF EventDelivered, DelivererAt
    <3>2. PICK to : to = [deliverer[w] EXCEPT !.step = "touch"]
      OBVIOUS
    <3>3. to.step = "touch"
      BY <2>6, <3>2
    <3>4. to = [deliverer[w] EXCEPT !.step = to.step]
      BY <3>2, <3>3
    <3>5. QED
      BY <3>1, <3>2, <3>3, <3>4
  <2>4. CASE EventFailed(w) \/ RetryDelivery(w) \/ DelivererDies(w)
    BY <2>4 DEF EventFailed, RetryDelivery, DelivererDies, DelivererAt
  <2>5. QED
    BY <2>1, <2>2, <2>3, <2>4
<1>7. to # NoDelivery =>
         /\ to \in DelivererRecord /\ to.delivery \in DOMAIN delivery
         /\ to.step = "retry" => to.retries < MaxDeliveryRetries
  BY <1>2, <1>6 DEF DelivererRecord, D
<1>8. \A m \in deliveryMessages' :
         m \in deliveryMessages \/ (m \in DeliveryMessage /\ m.delivery \in DOMAIN delivery)
  <2>1. CASE deliveryMessages' = deliveryMessages
    BY <2>1
  <2>2. CASE RetryDelivery(w)
    <3>1. PICK m : m = [delivery |-> D(w), retries |-> deliverer[w].retries + 1]
      OBVIOUS
    <3>2. deliverer[w].retries + 1 \in 0 .. MaxDeliveryRetries /\ D(w) \in Nat \ {0}
      BY <1>2, <2>2, WebhooksAssumption DEF RetryDelivery, DelivererAt, DelivererRecord, D
    <3>3. m \in DeliveryMessage /\ m.delivery \in DOMAIN delivery
      BY <1>2, <3>1, <3>2 DEF DeliveryMessage
    <3>4. QED
      BY <2>2, <3>1, <3>3 DEF RetryDelivery
  <2>3. QED
    BY <2>1, <2>2 DEF PostAccepted, PostFails, EventDelivered, EventFailed, DelivererDies
<1>9. TaskTypes'
  BY <1>4, <1>6, <1>7, <1>8, DelivererMoved DEF WebhookInv
<1>10. QED
  BY <1>3, <1>4, <1>5, <1>9, FanoutKept DEF WebhookInv

LEMMA SaveTypes ==
    ASSUME WebhookInv, NEW w \in DeliveryWorkers, Succeed(w) \/ Fail(w)
    PROVE  /\ WebhookInv' /\ Grow /\ DOMAIN delivery' = DOMAIN delivery
           /\ \A d \in DOMAIN delivery : d # D(w) => delivery'[d] = delivery[d]
           /\ delivery'[D(w)].status = IF deliverer[w].step = "success" THEN "SUCCESS" ELSE "FAILED"
           /\ delivery'[D(w)].attempt = deliverer[w].retries + 1
           /\ delivery'[D(w)].attempt \in Nat \ {0}
<1> DEFINE status == IF deliverer[w].step = "success" THEN "SUCCESS" ELSE "FAILED"
           next == IF deliverer[w].step = "success" THEN "delivered"
                   ELSE IF Exhausted(w) THEN "failed" ELSE "retry"
<1>1. /\ deliverer[w].step \in {"success", "failure"}
      /\ deliverer' = [deliverer EXCEPT ![w] = [deliverer[w] EXCEPT !.step = next]]
      /\ SaveDelivery(w, status)
      /\ UNCHANGED <<outbox, webhookEvent, endpoint, fanoutMessages, fanout, deliveryMessages,
                     accepted, overlaps, deaths>>
  <2>1. CASE Succeed(w)
    BY <2>1 DEF Succeed, DelivererAt
  <2>2. CASE Fail(w)
    BY <2>2 DEF Fail, DelivererAt
  <2>3. QED
    BY <2>1, <2>2
<1>2. /\ deliverer[w] \in DelivererRecord /\ D(w) \in DOMAIN delivery
      /\ delivery[D(w)] \in DeliveryRow
  BY <1>1, TaskIsBusy
<1>3. deliverer[w].retries + 1 \in Nat \ {0} /\ deliverer[w].retries \in 0 .. MaxDeliveryRetries
  BY <1>2, WebhooksAssumption DEF DelivererRecord
<1>4. PICK a : a = deliverer[w].retries + 1
  OBVIOUS
<1>5. PICK s \in DeliveryStatus : s = status
  BY DEF DeliveryStatus
<1>6. PICK d : d = D(w)
  OBVIOUS
<1>7. PICK r : r = [delivery[d] EXCEPT !.status = s, !.attempt = a]
  OBVIOUS
<1>8. /\ r \in DeliveryRow /\ r.event = delivery[d].event /\ r.endpoint = delivery[d].endpoint
      /\ r.replay = delivery[d].replay /\ r.status = s /\ r.attempt = a
  BY <1>2, <1>3, <1>4, <1>6, <1>7 DEF DeliveryRow
<1>9. delivery \in Seq(DeliveryRow) /\ d \in 1 .. Len(delivery)
  BY <1>2, <1>6 DEF WebhookInv, RowTypes
<1>10. delivery' = [delivery EXCEPT ![d] = r]
  <2>1. delivery' = [delivery EXCEPT ![d].status = s, ![d].attempt = a]
    BY <1>1, <1>4, <1>5, <1>6 DEF SaveDelivery
  <2>2. QED
    BY <1>2, <1>6, <1>7, <1>9, <2>1
<1>11. /\ delivery' \in Seq(DeliveryRow) /\ Len(delivery') = Len(delivery)
       /\ DOMAIN delivery' = DOMAIN delivery
       /\ \A i \in DOMAIN delivery : delivery'[i] = IF i = d THEN r ELSE delivery[i]
  BY <1>8, <1>9, <1>10, ExceptSeq
<1>12. Grow
  BY <1>1, <1>8, <1>11, SecretIsNat DEF Grow, WebhookInv
<1>13. RowTypes'
  BY <1>1, <1>8, <1>11 DEF WebhookInv, RowTypes
<1>14. PICK to : to = [deliverer[w] EXCEPT !.step = next]
  OBVIOUS
<1>15. /\ to \in DelivererRecord /\ to.delivery \in DOMAIN delivery
       /\ to.step = "retry" => to.retries < MaxDeliveryRetries
  <2>1. next \in {"delivered", "failed", "retry"}
    OBVIOUS
  <2>2. next = "retry" => deliverer[w].retries < MaxDeliveryRetries
    BY <1>3, WebhooksAssumption DEF Exhausted
  <2> HIDE DEF next
  <2>3. QED
    BY <1>2, <1>14, <2>1, <2>2 DEF DelivererRecord, D
<1>16. TaskTypes'
  BY <1>1, <1>12, <1>14, <1>15, DelivererMoved DEF WebhookInv
<1>17. WebhookInv'
  BY <1>1, <1>12, <1>13, <1>16, FanoutKept DEF WebhookInv
<1>18. QED
  BY <1>2, <1>3, <1>4, <1>5, <1>6, <1>8, <1>11, <1>12, <1>17

LEMMA TouchTypes ==
    ASSUME WebhookInv, NEW w \in DeliveryWorkers, TouchEndpoint(w)
    PROVE  WebhookInv' /\ Grow
<1>1. /\ deliverer[w].step = "touch"
      /\ deliverer' = [deliverer EXCEPT ![w] = NoDelivery]
      /\ endpoint' = [endpoint EXCEPT ![EndpointOf(w)].succeeded = TRUE]
      /\ UNCHANGED <<outbox, webhookEvent, delivery, fanoutMessages, fanout, deliveryMessages,
                     accepted, overlaps, deaths>>
  BY DEF TouchEndpoint, DelivererAt
<1>2. PICK n \in DOMAIN endpoint : n = EndpointOf(w)
  BY <1>1, TaskIsBusy
<1>3. PICK r : r = [endpoint[n] EXCEPT !.succeeded = TRUE]
  OBVIOUS
<1>4. /\ endpoint[n] \in EndpointRow /\ endpoint[n].secret <= endpoint[n].secret
  BY SecretIsNat DEF WebhookInv
<1>5. /\ r \in EndpointRow /\ r.enabled = endpoint[n].enabled
      /\ endpoint[n].deleted => r.deleted
      /\ endpoint[n].secret <= r.secret
      /\ endpoint' = [endpoint EXCEPT ![n] = r]
  BY <1>1, <1>2, <1>3, <1>4 DEF EndpointRow
<1>6. RowTypes' /\ Grow
  BY <1>1, <1>5, EndpointSaved DEF WebhookInv
<1>7. TaskTypes'
  <2>1. \A m \in deliveryMessages' : m \in deliveryMessages
    BY <1>1
  <2>2. PICK to : to = NoDelivery
    OBVIOUS
  <2>3. QED
    BY <1>1, <1>6, <2>1, <2>2, DelivererMoved DEF WebhookInv
<1>8. QED
  BY <1>1, <1>6, <1>7, FanoutKept DEF WebhookInv

LEMMA RowsGrow ==
    ASSUME WebhookInv, [WebhookNext]_webhookVars
    PROVE  WebhookInv' /\ Grow
<1>1. ASSUME UNCHANGED webhookVars PROVE WebhookInv' /\ Grow
  <2>1. Grow
    BY <1>1, RowsKept DEF webhookVars, WebhookInv
  <2>2. RowTypes'
    BY <1>1 DEF webhookVars, WebhookInv, RowTypes
  <2>3. QED
    BY <1>1, <2>1, <2>2, FanoutKept, TasksKept DEF webhookVars, WebhookInv
<1>2. CASE WebhooksQuiet
  BY <1>1, <1>2 DEF WebhooksQuiet
<1>3. CASE \E events \in FilterChoices : CreateEndpoint(events)
  BY <1>3, CreateEndpointTypes
<1>4. CASE \E n \in DOMAIN endpoint : DeleteEndpoint(n) \/ RotateSecret(n) \/ SendTestEvent(n)
  BY <1>4, EndpointTypes, PublishTypes DEF SendTestEvent
<1>5. CASE \E d \in DOMAIN delivery : ReplayDelivery(d)
  BY <1>5, ReplayTypes
<1>6. CASE \E w \in FanoutWorkers : FanoutStep(w) \/ FanoutDies(w)
  BY <1>6, TakeBatchTypes, OpenEventTypes, CreateDeliveryTypes, SendDeliveryTypes,
     MarkProcessedTypes, FanoutStopsTypes DEF FanoutStep
<1>7. CASE \E w \in DeliveryWorkers : DeliveryStep(w) \/ DelivererDies(w)
  BY <1>7, TakeDeliveryTypes, DelivererStepTypes, SaveTypes, TouchTypes DEF DeliveryStep
<1>8. QED
  BY <1>1, <1>2, <1>3, <1>4, <1>5, <1>6, <1>7 DEF WebhookNext

LEMMA Types == WebhookSpec => []WebhookInv
<1>1. WebhookInv /\ [WebhookNext]_webhookVars => WebhookInv'
  BY RowsGrow
<1>2. QED
  BY <1>1, InitTypes, PTL DEF WebhookSpec

-----------------------------------------------------------------------------
(* The outbox.                                                              *)

HasDelivery(e, n) == \E d \in DOMAIN delivery : /\ delivery[d].event = e
                                                /\ delivery[d].endpoint = n

\* An endpoint goes on matching the events it matched when they were published;
\* a fan-out that has opened an event still has, or has served, all that match.
CoverInv ==
    /\ \A e \in DOMAIN outbox : \A n \in outbox[e].audience :
          n \in DOMAIN endpoint /\ endpoint[n].enabled \cap {"*", "ping"} # {}
    /\ \A w \in FanoutWorkers : fanout[w].step \in {"create", "send"} =>
          \A n \in outbox[NextEvent(w)].audience \cap Alive :
             n \in fanout[w].targets \/ HasDelivery(NextEvent(w), n)
    /\ ProcessedIsFannedOut

\* As long as no two fan-outs have overlapped and no task has died: one fan-out
\* runs at most, over rows that nobody has processed; and what has a delivery is
\* processed, or is the event at hand and among its targets no more.
OnceInv == overlaps = 0 /\ deaths = 0 =>
    /\ \A v, w \in Running : v = w
    /\ \A w \in Running : \A e \in fanout[w].batch : ~outbox[e].processed
    /\ \A d \in DOMAIN delivery : ~delivery[d].replay =>
          \/ outbox[delivery[d].event].processed
          \/ \E w \in FanoutWorkers : /\ fanout[w].step \in {"create", "send"}
                                      /\ delivery[d].event = NextEvent(w)
                                      /\ delivery[d].endpoint \notin fanout[w].targets
    /\ FannedOutOnce

OutboxInv == CoverInv /\ OnceInv

\* Rows that stay go on serving.
LEMMA StillServed ==
    ASSUME WebhookInv, Grow
    PROVE  /\ \A e \in DOMAIN outbox, n \in EndpointIds : HasDelivery(e, n) => HasDelivery(e, n)'
           /\ \A n \in DOMAIN endpoint : n \in Alive' => n \in Alive
           /\ \A e \in DOMAIN outbox : outbox[e].audience \subseteq EndpointIds
<1>1. \A e \in DOMAIN outbox, n \in EndpointIds : HasDelivery(e, n) => HasDelivery(e, n)'
  BY DEF Grow, HasDelivery
<1>2. \A n \in DOMAIN endpoint : n \in Alive' => n \in Alive
  BY DEF Grow, Alive
<1>3. \A e \in DOMAIN outbox : outbox[e] \in OutboxRow
  BY DEF WebhookInv, RowTypes
<1>4. \A e \in DOMAIN outbox : outbox[e].audience \subseteq EndpointIds
  BY <1>3 DEF OutboxRow
<1>5. QED
  BY <1>1, <1>2, <1>4

\* A step that only moves fan-outs on, and marks no row.
FanoutsGoOn ==
    /\ DOMAIN outbox' = DOMAIN outbox
    /\ \A e \in DOMAIN outbox : outbox'[e].processed = outbox[e].processed
    /\ \A w \in FanoutWorkers : fanout'[w].step \in {"create", "send"} =>
          /\ fanout[w].step \in {"create", "send"}
          /\ fanout'[w].batch = fanout[w].batch /\ fanout'[w].targets = fanout[w].targets

LEMMA CoverKept ==
    ASSUME WebhookInv, Grow, CoverInv, FanoutsGoOn
    PROVE  CoverInv'
<1>1. ASSUME NEW e \in DOMAIN outbox', NEW n \in outbox'[e].audience
      PROVE  n \in DOMAIN endpoint' /\ endpoint'[n].enabled \cap {"*", "ping"} # {}
  BY <1>1 DEF Grow, CoverInv, FanoutsGoOn
<1>2. ASSUME NEW w \in FanoutWorkers, fanout'[w].step \in {"create", "send"},
             NEW n \in outbox'[NextEvent(w)'].audience \cap Alive'
      PROVE  n \in fanout'[w].targets \/ HasDelivery(NextEvent(w), n)'
  <2>1. /\ fanout[w].step \in {"create", "send"} /\ fanout[w].batch # {}
        /\ fanout'[w].batch = fanout[w].batch /\ fanout'[w].targets = fanout[w].targets
    BY <1>2 DEF FanoutsGoOn, WebhookInv, FanoutTypes
  <2>2. PICK e : e = NextEvent(w)
    OBVIOUS
  <2>3. e \in DOMAIN outbox
    BY <2>1, <2>2, NextIsIn DEF WebhookInv, FanoutTypes
  <2>4. NextEvent(w)' = e
    BY <2>1, <2>2 DEF NextEvent
  <2>5. n \in outbox[e].audience /\ n \in DOMAIN endpoint /\ n \in Alive /\ n \in EndpointIds
    BY <1>2, <2>3, <2>4, StillServed DEF Grow, CoverInv
  <2>6. n \in fanout[w].targets \/ HasDelivery(e, n)
    BY <2>1, <2>2, <2>5 DEF CoverInv
  <2>7. n \in fanout[w].targets \/ HasDelivery(e, n)'
    BY <2>3, <2>5, <2>6, StillServed
  <2>8. QED
    BY <2>1, <2>4, <2>7 DEF HasDelivery
<1>3. ProcessedIsFannedOut'
  <2>1. SUFFICES ASSUME NEW e \in DOMAIN outbox', outbox'[e].processed,
                        NEW n \in outbox'[e].audience \cap Alive'
                 PROVE  HasDelivery(e, n)'
    BY DEF ProcessedIsFannedOut, HasDelivery
  <2>2. e \in DOMAIN outbox /\ outbox[e].processed
    BY <2>1 DEF FanoutsGoOn
  <2>3. n \in outbox[e].audience /\ n \in DOMAIN endpoint /\ n \in Alive /\ n \in EndpointIds
    BY <2>1, <2>2, StillServed DEF Grow, CoverInv
  <2>4. HasDelivery(e, n)
    BY <2>2, <2>3 DEF CoverInv, ProcessedIsFannedOut, HasDelivery
  <2>5. QED
    BY <2>2, <2>3, <2>4, StillServed
<1>4. QED
  BY <1>1, <1>2, <1>3 DEF CoverInv

LEMMA OnceKept ==
    ASSUME WebhookInv, WebhookInv', Grow, OnceInv,
           DOMAIN outbox' = DOMAIN outbox,
           \A e \in DOMAIN outbox : outbox'[e].processed = outbox[e].processed,
           \A w \in FanoutWorkers : /\ fanout'[w].batch = fanout[w].batch
                                    /\ fanout'[w].targets = fanout[w].targets
                                    /\ \/ fanout'[w].step = fanout[w].step
                                       \/ fanout[w].step = "send" /\ fanout'[w].step = "create",
           \A d \in DOMAIN delivery' : d \notin DOMAIN delivery => delivery'[d].replay,
           overlaps' = 0 /\ deaths' = 0 => overlaps = 0 /\ deaths = 0
    PROVE  OnceInv'
<1> SUFFICES ASSUME overlaps' = 0, deaths' = 0
             PROVE  /\ \A v, w \in Running' : v = w
                    /\ \A w \in Running' : \A e \in fanout'[w].batch : ~outbox'[e].processed
                    /\ \A d \in DOMAIN delivery' : ~delivery'[d].replay =>
                          \/ outbox'[delivery'[d].event].processed
                          \/ \E w \in FanoutWorkers :
                                /\ fanout'[w].step \in {"create", "send"}
                                /\ delivery'[d].event = NextEvent(w)'
                                /\ delivery'[d].endpoint \notin fanout'[w].targets
                    /\ FannedOutOnce'
  BY DEF OnceInv
<1>1. /\ \A v, w \in Running : v = w
      /\ \A w \in Running : \A e \in fanout[w].batch : ~outbox[e].processed
      /\ FannedOutOnce /\ overlaps = 0 /\ deaths = 0
  BY DEF OnceInv
<1>2. Running' = Running
  BY DEF Running
<1>3. \A w \in FanoutWorkers : NextEvent(w)' = NextEvent(w)
  BY DEF NextEvent
<1>4. \A w \in Running' : \A e \in fanout'[w].batch : ~outbox'[e].processed
  BY <1>1, <1>2 DEF Running, WebhookInv, FanoutTypes
<1>5. ASSUME NEW d \in DOMAIN delivery', ~delivery'[d].replay
      PROVE  /\ d \in DOMAIN delivery /\ ~delivery[d].replay
             /\ delivery'[d].event = delivery[d].event /\ delivery[d].event \in DOMAIN outbox
             /\ delivery'[d].endpoint = delivery[d].endpoint
  BY <1>5 DEF Grow, WebhookInv, RowTypes
<1>6. ASSUME NEW d \in DOMAIN delivery', ~delivery'[d].replay
      PROVE  \/ outbox'[delivery'[d].event].processed
             \/ \E w \in FanoutWorkers : /\ fanout'[w].step \in {"create", "send"}
                                         /\ delivery'[d].event = NextEvent(w)'
                                         /\ delivery'[d].endpoint \notin fanout'[w].targets
  BY <1>1, <1>3, <1>5, <1>6 DEF OnceInv
<1>7. FannedOutOnce'
  BY <1>1, <1>5 DEF FannedOutOnce
<1>8. QED
  BY <1>1, <1>2, <1>4, <1>6, <1>7

-----------------------------------------------------------------------------
(* What moves neither a fan-out nor the mark of a row.                      *)

LEMMA ApiKeepsOutbox ==
    ASSUME WebhookInv, WebhookInv', Grow, OutboxInv,
           \/ \E events \in FilterChoices : CreateEndpoint(events)
           \/ \E n \in DOMAIN endpoint : DeleteEndpoint(n) \/ RotateSecret(n)
           \/ \E w \in DeliveryWorkers : DeliveryStep(w) \/ DelivererDies(w)
           \/ UNCHANGED webhookVars
    PROVE  OutboxInv'
<1>1. /\ UNCHANGED <<outbox, fanout, overlaps>>
      /\ deaths' = deaths \/ deaths' = deaths + 1
  BY DEF CreateEndpoint, DeleteEndpoint, RotateSecret, DeliveryStep, TakeDelivery, PostAccepted,
     PostFails, Succeed, EventDelivered, TouchEndpoint, Fail, RetryDelivery, EventFailed,
     DelivererDies, DelivererAt, Dies, tasks, outside, webhookVars
<1>2. DOMAIN delivery' = DOMAIN delivery
  <2>1. ASSUME NEW w \in DeliveryWorkers, Succeed(w) \/ Fail(w)
        PROVE  DOMAIN delivery' = DOMAIN delivery
    BY <2>1, SaveTypes
  <2>2. \/ UNCHANGED delivery
        \/ \E w \in DeliveryWorkers : Succeed(w) \/ Fail(w)
    BY DEF CreateEndpoint, DeleteEndpoint, RotateSecret, DeliveryStep, TakeDelivery, PostAccepted,
       PostFails, EventDelivered, TouchEndpoint, RetryDelivery, EventFailed,
       DelivererDies, webhookVars
  <2>3. QED
    BY <2>1, <2>2
<1>3. overlaps' = 0 /\ deaths' = 0 => overlaps = 0 /\ deaths = 0
  BY <1>1 DEF WebhookInv, RowTypes
<1>4. CoverInv'
  BY <1>1, CoverKept DEF FanoutsGoOn, OutboxInv
<1>5. OnceInv'
  BY <1>1, <1>2, <1>3, OnceKept DEF OutboxInv
<1>6. QED
  BY <1>4, <1>5 DEF OutboxInv

LEMMA ReplayKeepsOutbox ==
    ASSUME WebhookInv, WebhookInv', Grow, OutboxInv, NEW d \in DOMAIN delivery, ReplayDelivery(d)
    PROVE  OutboxInv'
<1>1. UNCHANGED <<outbox, fanout, overlaps, deaths>>
  BY DEF ReplayDelivery, outside
<1>2. PICK r : r = NewDelivery(delivery[d].event, delivery[d].endpoint, delivery[d].attempt + 1)
  OBVIOUS
<1>3. delivery' = Append(delivery, r) /\ delivery \in Seq(DeliveryRow)
  BY <1>2 DEF ReplayDelivery, WebhookInv, RowTypes
<1>4. r.replay
  <2>0. delivery[d] \in DeliveryRow
    BY DEF WebhookInv, RowTypes
  <2>1. delivery[d].attempt \in Nat \ {0}
    BY <2>0 DEF DeliveryRow
  <2>2. delivery[d].attempt + 1 > 1
    BY <2>1
  <2>3. QED
    BY <1>2, <2>2 DEF NewDelivery
<1>5. \A i \in DOMAIN delivery' : i \notin DOMAIN delivery => delivery'[i].replay
  BY <1>3, <1>4
<1>6. CoverInv'
  BY <1>1, CoverKept DEF FanoutsGoOn, OutboxInv
<1>7. OnceInv'
  BY <1>1, <1>5, OnceKept DEF OutboxInv
<1>8. QED
  BY <1>6, <1>7 DEF OutboxInv

LEMMA SendKeepsOutbox ==
    ASSUME WebhookInv, WebhookInv', Grow, OutboxInv, NEW w \in FanoutWorkers, SendDelivery(w)
    PROVE  OutboxInv'
<1>1. PICK to : to = [fanout[w] EXCEPT !.step = "create", !.row = 0]
  OBVIOUS
<1>2. /\ fanout[w].step = "send" /\ fanout' = [fanout EXCEPT ![w] = to]
      /\ UNCHANGED <<outbox, delivery, overlaps, deaths>>
  BY <1>1 DEF SendDelivery, FanoutAt
<1>3. to.step = "create" /\ to.batch = fanout[w].batch /\ to.targets = fanout[w].targets
  BY <1>1 DEF WebhookInv, FanoutTypes, FanoutRecord
<1>4. \A v \in FanoutWorkers : /\ fanout'[v].batch = fanout[v].batch
                               /\ fanout'[v].targets = fanout[v].targets
                               /\ \/ fanout'[v].step = fanout[v].step
                                  \/ fanout[v].step = "send" /\ fanout'[v].step = "create"
  BY <1>2, <1>3 DEF WebhookInv, FanoutTypes
<1>5. CoverInv'
  BY <1>2, <1>4, CoverKept DEF FanoutsGoOn, OutboxInv
<1>6. OnceInv'
  BY <1>2, <1>4, OnceKept DEF OutboxInv
<1>7. QED
  BY <1>5, <1>6 DEF OutboxInv

-----------------------------------------------------------------------------
(* An event is published, and fanned out.                                   *)

LEMMA PublishKeepsOutbox ==
    ASSUME WebhookInv, WebhookInv', Grow, OutboxInv, PublishEvent("ping")
    PROVE  OutboxInv'
<1>1. PICK row : row = [type |-> "ping", processed |-> FALSE, audience |-> Matching("ping")]
  OBVIOUS
<1>2. /\ outbox' = Append(outbox, row) /\ outbox \in Seq(OutboxRow)
      /\ UNCHANGED <<endpoint, delivery, fanout, overlaps>>
      /\ deaths' = deaths \/ deaths' = deaths + 1
  BY <1>1 DEF PublishEvent, Dies, WebhookInv, RowTypes
<1>3. /\ ~row.processed /\ row.audience = Matching("ping")
  BY <1>1
<1>4. \A e \in DOMAIN outbox' : \/ e \in DOMAIN outbox /\ outbox'[e] = outbox[e]
                                \/ e \notin DOMAIN outbox /\ outbox'[e] = row
  BY <1>2
<1>5. \A w \in FanoutWorkers : /\ NextEvent(w)' = NextEvent(w)
                               /\ fanout[w].batch \subseteq DOMAIN outbox
                               /\ fanout[w].step \in {"create", "send"} =>
                                     NextEvent(w) \in DOMAIN outbox
  BY <1>2, NextIsIn DEF NextEvent, WebhookInv, FanoutTypes
<1>6. \A e \in DOMAIN outbox : e \in DOMAIN outbox' /\ outbox'[e] = outbox[e]
  BY <1>2
<1>7. CoverInv'
  <2>1. ASSUME NEW e \in DOMAIN outbox', NEW n \in outbox'[e].audience
        PROVE  n \in DOMAIN endpoint' /\ endpoint'[n].enabled \cap {"*", "ping"} # {}
    BY <1>2, <1>3, <1>4, <2>1 DEF OutboxInv, CoverInv, Matching, Alive
  <2>2. ASSUME NEW w \in FanoutWorkers, fanout'[w].step \in {"create", "send"},
               NEW n \in outbox'[NextEvent(w)'].audience \cap Alive'
        PROVE  n \in fanout'[w].targets \/ HasDelivery(NextEvent(w), n)'
    <3>1. PICK e : e = NextEvent(w)
      OBVIOUS
    <3>2. e \in DOMAIN outbox /\ NextEvent(w)' = e /\ fanout[w].step \in {"create", "send"}
      BY <1>2, <1>5, <2>2, <3>1
    <3>3. n \in outbox[e].audience \cap Alive
      BY <1>2, <1>6, <2>2, <3>2 DEF Alive
    <3>4. n \in fanout[w].targets \/ HasDelivery(e, n)
      BY <3>1, <3>2, <3>3 DEF OutboxInv, CoverInv
    <3>5. QED
      BY <1>2, <3>2, <3>4 DEF HasDelivery
  <2>3. ProcessedIsFannedOut'
    BY <1>2, <1>3, <1>4 DEF OutboxInv, CoverInv, ProcessedIsFannedOut, Alive
  <2>4. QED
    BY <2>1, <2>2, <2>3 DEF CoverInv
<1>8. OnceInv'
  <2>1. overlaps' = 0 /\ deaths' = 0 => overlaps = 0 /\ deaths = 0
    BY <1>2 DEF WebhookInv, RowTypes
  <2>2. \A d \in DOMAIN delivery : delivery[d].event \in DOMAIN outbox
    BY DEF WebhookInv, RowTypes
  <2>3. \A w \in FanoutWorkers : \A e \in fanout[w].batch : outbox'[e] = outbox[e]
    BY <1>5, <1>6
  <2>4. Running' = Running
    BY <1>2 DEF Running
  <2>5. QED
    BY <1>2, <1>5, <1>6, <2>1, <2>2, <2>3, <2>4 DEF OutboxInv, OnceInv, FannedOutOnce, Running
<1>9. QED
  BY <1>7, <1>8 DEF OutboxInv

LEMMA TakeBatchKeepsOutbox ==
    ASSUME WebhookInv, WebhookInv', Grow, OutboxInv, NEW w \in FanoutWorkers, TakeBatch(w)
    PROVE  OutboxInv'
<1>1. PICK to : to = [NoFanout EXCEPT !.step = "event", !.batch = Oldest]
  OBVIOUS
<1>2. /\ fanout' = [fanout EXCEPT ![w] = to]
      /\ IF Running = {} THEN overlaps' = overlaps ELSE overlaps' = overlaps + 1
      /\ UNCHANGED <<outbox, endpoint, delivery, deaths>>
  BY <1>1 DEF TakeBatch, FanoutAt
<1>3. to.step = "event" /\ to.batch = Oldest
  BY <1>1 DEF NoFanout
<1>4. \A v \in FanoutWorkers : fanout'[v] = IF v = w THEN to ELSE fanout[v]
  BY <1>2 DEF WebhookInv, FanoutTypes
<1>5. CoverInv'
  BY <1>2, <1>3, <1>4, CoverKept DEF FanoutsGoOn, OutboxInv
<1>6. ASSUME overlaps' = 0, deaths' = 0
      PROVE  /\ \A u, v \in Running' : u = v
             /\ \A v \in Running' : \A e \in fanout'[v].batch : ~outbox'[e].processed
             /\ \A d \in DOMAIN delivery' : ~delivery'[d].replay =>
                   outbox'[delivery'[d].event].processed
             /\ FannedOutOnce'
  <2>1. overlaps = 0 /\ deaths = 0 /\ Running = {}
    BY <1>2, <1>6 DEF WebhookInv, RowTypes
  <2>2. \A v \in FanoutWorkers : fanout[v].step = "idle"
    BY <2>1 DEF Running
  <2>3. Running' \subseteq {w}
    BY <1>4, <2>2 DEF Running
  <2>4. \A e \in Oldest : ~outbox[e].processed
    BY DEF Oldest, Unprocessed
  <2>5. \A v \in Running' : \A e \in fanout'[v].batch : ~outbox'[e].processed
    BY <1>2, <1>3, <1>4, <2>3, <2>4
  <2>6. \A d \in DOMAIN delivery : ~delivery[d].replay => outbox[delivery[d].event].processed
    BY <2>1, <2>2 DEF OutboxInv, OnceInv
  <2>7. FannedOutOnce'
    BY <1>2, <2>1 DEF OutboxInv, OnceInv, FannedOutOnce
  <2>8. QED
    BY <1>2, <2>3, <2>5, <2>6, <2>7
<1>7. OnceInv'
  BY <1>6 DEF OnceInv
<1>8. QED
  BY <1>5, <1>7 DEF OutboxInv

LEMMA OpenEventKeepsOutbox ==
    ASSUME WebhookInv, WebhookInv', Grow, OutboxInv, NEW w \in FanoutWorkers, OpenEvent(w)
    PROVE  OutboxInv'
<1>1. PICK to : to = [fanout[w] EXCEPT !.step = "create",
                                       !.targets = Matching(outbox[NextEvent(w)].type)]
  OBVIOUS
<1>2. /\ fanout[w].batch # {} /\ fanout[w].step = "event"
      /\ fanout' = [fanout EXCEPT ![w] = to]
      /\ UNCHANGED <<outbox, endpoint, delivery, overlaps, deaths>>
  BY <1>1 DEF OpenEvent, FanoutAt
<1>3. PICK e : e = NextEvent(w)
  OBVIOUS
<1>4. e \in fanout[w].batch /\ e \in DOMAIN outbox
  BY <1>2, <1>3, NextIsIn DEF WebhookInv, FanoutTypes
<1>5. outbox[e].type = "ping"
  <2>1. outbox[e] \in OutboxRow
    BY <1>4 DEF WebhookInv, RowTypes
  <2>2. QED
    BY <2>1 DEF OutboxRow
<1>6. to.step = "create" /\ to.batch = fanout[w].batch /\ to.targets = Matching("ping")
  BY <1>1, <1>3, <1>5 DEF WebhookInv, FanoutTypes, FanoutRecord
<1>7. \A v \in FanoutWorkers : fanout'[v] = IF v = w THEN to ELSE fanout[v]
  BY <1>2 DEF WebhookInv, FanoutTypes
<1>8. \A v \in FanoutWorkers : NextEvent(v)' = NextEvent(v)
  BY <1>6, <1>7 DEF NextEvent
<1>9. CoverInv'
  <2>1. ASSUME NEW i \in DOMAIN outbox', NEW n \in outbox'[i].audience
        PROVE  n \in DOMAIN endpoint' /\ endpoint'[n].enabled \cap {"*", "ping"} # {}
    BY <1>2, <2>1 DEF OutboxInv, CoverInv
  <2>2. ASSUME NEW v \in FanoutWorkers, fanout'[v].step \in {"create", "send"},
               NEW n \in outbox'[NextEvent(v)'].audience \cap Alive'
        PROVE  n \in fanout'[v].targets \/ HasDelivery(NextEvent(v), n)'
    <3>1. n \in outbox[NextEvent(v)].audience /\ n \in Alive
      BY <1>2, <1>8, <2>2 DEF Alive
    <3>2. CASE v = w
      <4>1. n \in Matching("ping")
        BY <1>3, <1>4, <3>1, <3>2 DEF OutboxInv, CoverInv, Matching
      <4>2. QED
        BY <1>6, <1>7, <3>2, <4>1
    <3>3. CASE v # w
      <4>1. n \in fanout[v].targets \/ HasDelivery(NextEvent(v), n)
        BY <1>7, <2>2, <3>1, <3>3 DEF OutboxInv, CoverInv
      <4>2. QED
        BY <1>2, <1>7, <1>8, <3>3, <4>1 DEF HasDelivery
    <3>4. QED
      BY <3>2, <3>3
  <2>3. ProcessedIsFannedOut'
    BY <1>2 DEF OutboxInv, CoverInv, ProcessedIsFannedOut, Alive
  <2>4. QED
    BY <2>1, <2>2, <2>3 DEF CoverInv
<1>10. ASSUME overlaps' = 0, deaths' = 0
       PROVE  /\ \A u, v \in Running' : u = v
              /\ \A v \in Running' : \A i \in fanout'[v].batch : ~outbox'[i].processed
              /\ \A d \in DOMAIN delivery' : ~delivery'[d].replay =>
                    outbox'[delivery'[d].event].processed
              /\ FannedOutOnce'
  <2>1. overlaps = 0 /\ deaths = 0 /\ w \in Running
    BY <1>2, <1>10 DEF Running
  <2>2. Running' = Running
    BY <1>2, <1>6, <1>7 DEF Running
  <2>3. \A v \in Running : v = w
    BY <2>1 DEF OutboxInv, OnceInv
  <2>4. \A v \in FanoutWorkers : fanout[v].step \notin {"create", "send"}
    BY <1>2, <2>3 DEF Running
  <2>5. \A d \in DOMAIN delivery : ~delivery[d].replay => outbox[delivery[d].event].processed
    BY <2>1, <2>4 DEF OutboxInv, OnceInv
  <2>6. \A v \in Running : \A i \in fanout'[v].batch : ~outbox[i].processed
    BY <1>6, <1>7, <2>1, <2>3 DEF OutboxInv, OnceInv
  <2>7. FannedOutOnce'
    BY <1>2, <2>1 DEF OutboxInv, OnceInv, FannedOutOnce
  <2>8. QED
    BY <1>2, <2>2, <2>3, <2>5, <2>6, <2>7
<1>11. OnceInv'
  BY <1>10 DEF OnceInv
<1>12. QED
  BY <1>9, <1>11 DEF OutboxInv

LEMMA FanoutStopsKeepOutbox ==
    ASSUME WebhookInv, WebhookInv', Grow, OutboxInv, NEW w \in FanoutWorkers,
           FanoutEnds(w) \/ FanoutDies(w)
    PROVE  OutboxInv'
<1>1. /\ fanout' = [fanout EXCEPT ![w] = NoFanout]
      /\ deaths' = deaths + 1 \/ (deaths' = deaths /\ fanout[w].step = "event")
      /\ UNCHANGED <<outbox, endpoint, delivery, overlaps>>
  BY DEF FanoutEnds, FanoutDies, FanoutAt, Dies
<1>2. PICK to \in FanoutRecord : to = NoFanout /\ to.step = "idle" /\ to.batch = {}
  BY NoFanoutTypes
<1>3. \A v \in FanoutWorkers : fanout'[v] = IF v = w THEN to ELSE fanout[v]
  BY <1>1, <1>2 DEF WebhookInv, FanoutTypes
<1>4. CoverInv'
  BY <1>1, <1>2, <1>3, CoverKept DEF FanoutsGoOn, OutboxInv
<1>5. ASSUME overlaps' = 0, deaths' = 0
      PROVE  /\ \A u, v \in Running' : u = v
             /\ \A v \in Running' : \A i \in fanout'[v].batch : ~outbox'[i].processed
             /\ \A d \in DOMAIN delivery' : ~delivery'[d].replay =>
                   outbox'[delivery'[d].event].processed
             /\ FannedOutOnce'
  <2>1. overlaps = 0 /\ deaths = 0 /\ fanout[w].step = "event"
    BY <1>1, <1>5 DEF WebhookInv, RowTypes
  <2>2. \A v \in Running : v = w
    BY <2>1 DEF OutboxInv, OnceInv, Running
  <2>3. Running' = {}
    BY <1>2, <1>3, <2>2 DEF Running
  <2>4. \A v \in FanoutWorkers : fanout[v].step \notin {"create", "send"}
    BY <2>1, <2>2 DEF Running
  <2>5. \A d \in DOMAIN delivery : ~delivery[d].replay => outbox[delivery[d].event].processed
    BY <2>1, <2>4 DEF OutboxInv, OnceInv
  <2>6. FannedOutOnce'
    BY <1>1, <2>1 DEF OutboxInv, OnceInv, FannedOutOnce
  <2>7. QED
    BY <1>1, <2>3, <2>5, <2>6
<1>6. OnceInv'
  BY <1>5 DEF OnceInv
<1>7. QED
  BY <1>4, <1>6 DEF OutboxInv

LEMMA CreateDeliveryKeepsOutbox ==
    ASSUME WebhookInv, WebhookInv', Grow, OutboxInv, NEW w \in FanoutWorkers, CreateDelivery(w)
    PROVE  OutboxInv'
<1>1. PICK n : n = Max(fanout[w].targets)
  OBVIOUS
<1>2. PICK e : e = NextEvent(w)
  OBVIOUS
<1>3. PICK r : r = NewDelivery(e, n, 1)
  OBVIOUS
<1>4. PICK to : to = [fanout[w] EXCEPT !.step = "send", !.targets = @ \ {n},
                                       !.row = Len(delivery) + 1]
  OBVIOUS
<1>5. /\ fanout[w].targets # {} /\ fanout[w].step = "create"
      /\ delivery' = Append(delivery, r)
      /\ fanout' = [fanout EXCEPT ![w] = to]
      /\ UNCHANGED <<outbox, endpoint, overlaps, deaths>>
  BY <1>1, <1>2, <1>3, <1>4 DEF CreateDelivery, FanoutAt
<1>6. fanout[w].batch # {} /\ n \in fanout[w].targets /\ e \in fanout[w].batch /\ e \in DOMAIN outbox
  BY <1>1, <1>2, <1>5, NextIsIn DEF WebhookInv, FanoutTypes
<1>7. r.event = e /\ r.endpoint = n /\ ~r.replay
  <2>1. ~(1 > 1)
    OBVIOUS
  <2>2. r.event = e /\ r.endpoint = n /\ (r.replay <=> 1 > 1)
    BY <1>3 DEF NewDelivery
  <2>3. QED
    BY <2>1, <2>2, Zenon
<1>8. /\ DOMAIN delivery' = 1 .. Len(delivery) + 1
      /\ Len(delivery) \in Nat /\ DOMAIN delivery = 1 .. Len(delivery)
      /\ delivery'[Len(delivery) + 1] = r
      /\ \A d \in DOMAIN delivery : delivery'[d] = delivery[d]
  <2>1. delivery \in Seq(DeliveryRow)
    BY DEF WebhookInv, RowTypes
  <2>2. QED
    BY <1>5, <2>1
<1>9. PICK new : new = Len(delivery) + 1
  OBVIOUS
<1>10. /\ new \in DOMAIN delivery' /\ delivery'[new] = r
       /\ \A d \in DOMAIN delivery' :
             \/ d = new
             \/ d \in DOMAIN delivery /\ delivery'[d] = delivery[d]
       /\ \A d \in DOMAIN delivery : d \in DOMAIN delivery' /\ delivery'[d] = delivery[d]
  BY <1>8, <1>9
<1>11. to.step = "send" /\ to.batch = fanout[w].batch /\ to.targets = fanout[w].targets \ {n}
  BY <1>4 DEF WebhookInv, FanoutTypes, FanoutRecord
<1>12. \A v \in FanoutWorkers : fanout'[v] = IF v = w THEN to ELSE fanout[v]
  BY <1>5 DEF WebhookInv, FanoutTypes
<1>13. \A v \in FanoutWorkers : NextEvent(v)' = NextEvent(v)
  BY <1>11, <1>12 DEF NextEvent
<1>14. /\ \A i \in DOMAIN outbox, j \in EndpointIds : HasDelivery(i, j) => HasDelivery(i, j)'
       /\ \A i \in DOMAIN outbox : outbox[i].audience \subseteq EndpointIds
  BY StillServed
<1>15. CoverInv'
  <2>1. ASSUME NEW i \in DOMAIN outbox', NEW k \in outbox'[i].audience
        PROVE  k \in DOMAIN endpoint' /\ endpoint'[k].enabled \cap {"*", "ping"} # {}
    BY <1>5, <2>1 DEF OutboxInv, CoverInv
  <2>2. ASSUME NEW v \in FanoutWorkers, fanout'[v].step \in {"create", "send"},
               NEW k \in outbox'[NextEvent(v)'].audience \cap Alive'
        PROVE  k \in fanout'[v].targets \/ HasDelivery(NextEvent(v), k)'
    <3>1. fanout[v].step \in {"create", "send"} /\ k \in outbox[NextEvent(v)].audience \cap Alive
      BY <1>5, <1>12, <1>13, <2>2 DEF Alive
    <3>2. k \in fanout[v].targets \/ HasDelivery(NextEvent(v), k)
      BY <3>1 DEF OutboxInv, CoverInv
    <3>3. k \in fanout[v].targets \/ HasDelivery(NextEvent(v), k)'
      <4>1. NextEvent(v) \in DOMAIN outbox
        BY <3>1, NextIsIn DEF WebhookInv, FanoutTypes
      <4>2. PICK i \in DOMAIN outbox : i = NextEvent(v)
        BY <4>1
      <4>3. k \in EndpointIds
        BY <1>14, <3>1, <4>1
      <4>4. HasDelivery(i, k) => HasDelivery(i, k)'
        BY <1>14, <4>3
      <4>5. QED
        BY <1>13, <3>2, <4>2, <4>4 DEF HasDelivery
    <3>4. CASE v = w /\ k = n
      BY <1>2, <1>7, <1>10, <1>13, <3>4 DEF HasDelivery
    <3>5. CASE ~(v = w /\ k = n)
      BY <1>11, <1>12, <3>3, <3>5 DEF HasDelivery
    <3>6. QED
      BY <3>4, <3>5
  <2>3. ProcessedIsFannedOut'
    <3>1. SUFFICES ASSUME NEW i \in DOMAIN outbox', outbox'[i].processed,
                          NEW k \in outbox'[i].audience \cap Alive'
                   PROVE  HasDelivery(i, k)'
      BY DEF ProcessedIsFannedOut, HasDelivery
    <3>2. HasDelivery(i, k)
      BY <1>5, <3>1 DEF OutboxInv, CoverInv, ProcessedIsFannedOut, HasDelivery, Alive
    <3>3. i \in DOMAIN outbox /\ k \in EndpointIds
      BY <1>5, <1>14, <3>1
    <3>4. QED
      BY <1>14, <3>2, <3>3
  <2>4. QED
    BY <2>1, <2>2, <2>3 DEF CoverInv
<1>16. ASSUME overlaps' = 0, deaths' = 0
       PROVE  /\ \A u, v \in Running' : u = v
              /\ \A v \in Running' : \A i \in fanout'[v].batch : ~outbox'[i].processed
              /\ \A d \in DOMAIN delivery' : ~delivery'[d].replay =>
                    \/ outbox'[delivery'[d].event].processed
                    \/ \E v \in FanoutWorkers :
                          /\ fanout'[v].step \in {"create", "send"}
                          /\ delivery'[d].event = NextEvent(v)'
                          /\ delivery'[d].endpoint \notin fanout'[v].targets
              /\ FannedOutOnce'
  <2>1. overlaps = 0 /\ deaths = 0 /\ w \in Running
    BY <1>5, <1>16 DEF Running
  <2>2. Running' = Running
    BY <1>5, <1>11, <1>12 DEF Running
  <2>3. \A v \in Running : v = w
    BY <2>1 DEF OutboxInv, OnceInv
  <2>4. \A i \in fanout[w].batch : ~outbox[i].processed
    BY <2>1 DEF OutboxInv, OnceInv
  <2>5. \A d \in DOMAIN delivery : ~delivery[d].replay =>
           outbox[delivery[d].event].processed
           \/ (delivery[d].event = e /\ delivery[d].endpoint \notin fanout[w].targets)
    <3>1. \A v \in FanoutWorkers : fanout[v].step \in {"create", "send"} => v = w
      BY <2>3 DEF Running
    <3>2. QED
      BY <1>2, <2>1, <3>1 DEF OutboxInv, OnceInv
  <2>6. \A v \in Running' : \A i \in fanout'[v].batch : ~outbox'[i].processed
    BY <1>5, <1>11, <1>12, <2>2, <2>3, <2>4
  <2>7. ASSUME NEW d \in DOMAIN delivery', ~delivery'[d].replay
        PROVE  outbox'[delivery'[d].event].processed
               \/ (delivery'[d].event = e /\ delivery'[d].endpoint \notin fanout'[w].targets)
    <3>1. CASE d = new
      BY <1>7, <1>10, <1>11, <1>12, <3>1
    <3>2. CASE d \in DOMAIN delivery /\ delivery'[d] = delivery[d]
      BY <1>5, <1>11, <1>12, <2>5, <2>7, <3>2
    <3>3. QED
      BY <1>10, <3>1, <3>2
  <2>8. fanout'[w].step \in {"create", "send"} /\ e = NextEvent(w)'
    BY <1>2, <1>11, <1>12, <1>13
  <2>9. FannedOutOnce'
    <3>1. ASSUME NEW d \in DOMAIN delivery, ~delivery[d].replay,
                 delivery[d].event = e, delivery[d].endpoint = n
          PROVE  FALSE
      BY <1>6, <2>4, <2>5, <3>1
    <3>2. FannedOutOnce
      BY DEF OutboxInv, OnceInv, FannedOutOnce
    <3>3. SUFFICES ASSUME NEW c \in DOMAIN delivery', NEW d \in DOMAIN delivery',
                          delivery'[c].event = delivery'[d].event,
                          delivery'[c].endpoint = delivery'[d].endpoint,
                          ~delivery'[c].replay, ~delivery'[d].replay
                   PROVE  c = d
      BY DEF FannedOutOnce
    <3>4. CASE c = new
      BY <1>7, <1>10, <3>1, <3>3, <3>4
    <3>5. CASE d = new
      BY <1>7, <1>10, <3>1, <3>3, <3>5
    <3>6. CASE c # new /\ d # new
      BY <1>10, <2>1, <3>2, <3>3, <3>6 DEF FannedOutOnce
    <3>7. QED
      BY <3>4, <3>5, <3>6
  <2>10. QED
    BY <2>2, <2>3, <2>6, <2>7, <2>8, <2>9
<1>17. OnceInv'
  BY <1>16 DEF OnceInv
<1>18. QED
  BY <1>15, <1>17 DEF OutboxInv

LEMMA MarkProcessedKeepsOutbox ==
    ASSUME WebhookInv, WebhookInv', Grow, OutboxInv, NEW w \in FanoutWorkers, MarkProcessed(w)
    PROVE  OutboxInv'
<1>1. PICK e : e = NextEvent(w)
  OBVIOUS
<1>2. PICK to : to = [fanout[w] EXCEPT !.step = "event", !.batch = @ \ {e}]
  OBVIOUS
<1>3. /\ fanout[w].step = "create" /\ fanout[w].targets = {}
      /\ outbox' = [outbox EXCEPT ![e].processed = TRUE]
      /\ fanout' = [fanout EXCEPT ![w] = to]
      /\ UNCHANGED <<endpoint, delivery, overlaps, deaths>>
  BY <1>1, <1>2 DEF MarkProcessed, FanoutAt
<1>4. fanout[w].batch # {} /\ e \in fanout[w].batch /\ e \in DOMAIN outbox
  BY <1>1, <1>3, NextIsIn DEF WebhookInv, FanoutTypes
<1>5. /\ DOMAIN outbox' = DOMAIN outbox
      /\ \A i \in DOMAIN outbox : i # e => outbox'[i] = outbox[i]
      /\ outbox'[e].processed
  <2>1. outbox[e] \in OutboxRow
    BY <1>4 DEF WebhookInv, RowTypes
  <2>2. [outbox[e] EXCEPT !.processed = TRUE].processed
    BY <2>1 DEF OutboxRow
  <2>3. QED
    BY <1>3, <1>4, <2>2 DEF WebhookInv, RowTypes
<1>6. to.step = "event" /\ to.batch = fanout[w].batch \ {e}
  BY <1>2 DEF WebhookInv, FanoutTypes, FanoutRecord
<1>7. \A v \in FanoutWorkers : fanout'[v] = IF v = w THEN to ELSE fanout[v]
  BY <1>3 DEF WebhookInv, FanoutTypes
<1>8. \A i \in DOMAIN outbox : outbox'[i].audience = outbox[i].audience
  BY DEF Grow
<1>9. CoverInv'
  <2>1. ASSUME NEW i \in DOMAIN outbox', NEW n \in outbox'[i].audience
        PROVE  n \in DOMAIN endpoint' /\ endpoint'[n].enabled \cap {"*", "ping"} # {}
    BY <1>3, <1>5, <1>8, <2>1 DEF OutboxInv, CoverInv
  <2>2. ASSUME NEW v \in FanoutWorkers, fanout'[v].step \in {"create", "send"},
               NEW n \in outbox'[NextEvent(v)'].audience \cap Alive'
        PROVE  n \in fanout'[v].targets \/ HasDelivery(NextEvent(v), n)'
    <3>1. v # w /\ fanout'[v] = fanout[v]
      BY <1>6, <1>7, <2>2
    <3>2. PICK i : i = NextEvent(v)
      OBVIOUS
    <3>3. i = NextEvent(v)'
      BY <3>1, <3>2 DEF NextEvent
    <3>4. i \in DOMAIN outbox
      BY <2>2, <3>1, <3>2, NextIsIn DEF WebhookInv, FanoutTypes
    <3>5. n \in outbox[i].audience \cap Alive
      BY <1>3, <1>8, <2>2, <3>3, <3>4 DEF Alive
    <3>6. n \in fanout[v].targets \/ HasDelivery(i, n)
      BY <2>2, <3>1, <3>2, <3>5 DEF OutboxInv, CoverInv
    <3>7. QED
      BY <1>3, <3>1, <3>3, <3>6 DEF HasDelivery
  <2>3. ProcessedIsFannedOut'
    <3>1. SUFFICES ASSUME NEW i \in DOMAIN outbox', outbox'[i].processed,
                          NEW n \in outbox'[i].audience \cap Alive'
                   PROVE  HasDelivery(i, n)
      BY <1>3 DEF ProcessedIsFannedOut, HasDelivery
    <3>2. i \in DOMAIN outbox /\ n \in outbox[i].audience \cap Alive
      BY <1>3, <1>5, <1>8, <3>1 DEF Alive
    <3>3. CASE i = e
      BY <1>1, <1>3, <3>2, <3>3 DEF OutboxInv, CoverInv
    <3>4. CASE i # e
      BY <1>5, <3>1, <3>2, <3>4 DEF OutboxInv, CoverInv, ProcessedIsFannedOut, HasDelivery
    <3>5. QED
      BY <3>3, <3>4
  <2>4. QED
    BY <2>1, <2>2, <2>3 DEF CoverInv
<1>10. ASSUME overlaps' = 0, deaths' = 0
       PROVE  /\ \A u, v \in Running' : u = v
              /\ \A v \in Running' : \A i \in fanout'[v].batch : ~outbox'[i].processed
              /\ \A d \in DOMAIN delivery' : ~delivery'[d].replay =>
                    outbox'[delivery'[d].event].processed
              /\ FannedOutOnce'
  <2>1. overlaps = 0 /\ deaths = 0 /\ w \in Running
    BY <1>3, <1>10 DEF Running
  <2>2. Running' = Running
    BY <1>3, <1>6, <1>7 DEF Running
  <2>3. \A v \in Running : v = w
    BY <2>1 DEF OutboxInv, OnceInv
  <2>4. \A i \in fanout[w].batch : i \in DOMAIN outbox /\ ~outbox[i].processed
    BY <2>1 DEF OutboxInv, OnceInv, WebhookInv, FanoutTypes
  <2>5. \A v \in Running' : \A i \in fanout'[v].batch : ~outbox'[i].processed
    BY <1>5, <1>6, <1>7, <2>2, <2>3, <2>4
  <2>6. ASSUME NEW d \in DOMAIN delivery, ~delivery[d].replay
        PROVE  outbox'[delivery[d].event].processed
    <3>1. outbox[delivery[d].event].processed \/ delivery[d].event = e
      <4>1. \A v \in FanoutWorkers : fanout[v].step \in {"create", "send"} => v = w
        BY <2>3 DEF Running
      <4>2. QED
        BY <1>1, <2>1, <2>6, <4>1 DEF OutboxInv, OnceInv
    <3>2. delivery[d].event \in DOMAIN outbox
      BY DEF WebhookInv, RowTypes
    <3>3. QED
      BY <1>5, <3>1, <3>2
  <2>7. FannedOutOnce'
    BY <1>3, <2>1 DEF OutboxInv, OnceInv, FannedOutOnce
  <2>8. QED
    BY <1>3, <2>2, <2>3, <2>5, <2>6, <2>7
<1>11. OnceInv'
  BY <1>10 DEF OnceInv
<1>12. QED
  BY <1>9, <1>11 DEF OutboxInv

-----------------------------------------------------------------------------
(* The theorems.                                                            *)

LEMMA InitOutbox == WebhookInit => OutboxInv
BY DEF WebhookInit, OutboxInv, CoverInv, OnceInv, ProcessedIsFannedOut, FannedOutOnce, Running,
   NoFanout, Alive

LEMMA OutboxStep ==
    ASSUME WebhookInv, OutboxInv, [WebhookNext]_webhookVars
    PROVE  OutboxInv'
<1>1. WebhookInv' /\ Grow
  BY RowsGrow
<1>2. CASE \/ WebhooksQuiet \/ UNCHANGED webhookVars
           \/ \E events \in FilterChoices : CreateEndpoint(events)
           \/ \E w \in DeliveryWorkers : DeliveryStep(w) \/ DelivererDies(w)
  BY <1>1, <1>2, ApiKeepsOutbox DEF WebhooksQuiet
<1>3. CASE \E n \in DOMAIN endpoint : DeleteEndpoint(n) \/ RotateSecret(n) \/ SendTestEvent(n)
  BY <1>1, <1>3, ApiKeepsOutbox, PublishKeepsOutbox DEF SendTestEvent
<1>4. CASE \E d \in DOMAIN delivery : ReplayDelivery(d)
  BY <1>1, <1>4, ReplayKeepsOutbox
<1>5. CASE \E w \in FanoutWorkers : FanoutStep(w) \/ FanoutDies(w)
  BY <1>1, <1>5, TakeBatchKeepsOutbox, OpenEventKeepsOutbox, CreateDeliveryKeepsOutbox,
     SendKeepsOutbox, MarkProcessedKeepsOutbox, FanoutStopsKeepOutbox DEF FanoutStep
<1>6. QED
  BY <1>2, <1>3, <1>4, <1>5 DEF WebhookNext

\* The outbox loses nothing: whatever task dies, and however fan-outs overlap,
\* process_outbox_events_task marks a row processed only when every endpoint
\* that matched it when it was published, and is not deleted, has a delivery of
\* it; and exactly one while no task has died and no two fan-outs overlapped.
THEOREM OutboxLosesNothing == WebhookSpec => []OutboxIsFannedOut
<1>1. OutboxInv => OutboxIsFannedOut
  BY DEF OutboxInv, CoverInv, OnceInv, OutboxIsFannedOut, FannedOutOnce
<1>2. WebhookInv /\ OutboxInv /\ [WebhookNext]_webhookVars => OutboxInv'
  BY OutboxStep
<1>3. QED
  BY <1>1, <1>2, InitOutbox, Types, PTL DEF WebhookSpec

\* No task that ends late, with an endpoint in hand that it read before its
\* POST, undoes the deletion of the endpoint or the rotation of its secret:
\* deliver_webhook_task writes only the two columns it has set.
THEOREM EndpointsStay == WebhookSpec => [][EndpointNeverReverts]_webhookVars
<1>1. WebhookInv /\ [WebhookNext]_webhookVars => [EndpointNeverReverts]_webhookVars
  BY RowsGrow DEF Grow, EndpointNeverReverts
<1>2. QED
  BY <1>1, Types, PTL DEF WebhookSpec

\* Every variable has its type, and the row numbers that tasks and rows hold
\* are those of rows that exist: no operation deletes a row.
THEOREM WebhookTypes == WebhookSpec => []WebhookTypeOK
<1>1. WebhookInv => WebhookTypeOK
  BY DEF WebhookInv, RowTypes, FanoutTypes, TaskTypes, FanoutRecord, DelivererRecord, WebhookTypeOK
<1>2. QED
  BY <1>1, Types, PTL

-----------------------------------------------------------------------------
(* The statuses of deliveries and events.                                   *)

\* A delivery that has ended for good.
Final(d) == \/ delivery[d].status = "SUCCESS"
            \/ delivery[d].status = "FAILED" /\ delivery[d].attempt = MaxDeliveryRetries + 1

AtWork == {v \in DeliveryWorkers : deliverer[v].step # "idle"}
Sending == {u \in FanoutWorkers : fanout[u].step = "send"}

\* A delivery is in one place: a fan-out that will send it, a message or a task.
OneHolder ==
    /\ \A m, k \in deliveryMessages : m.delivery = k.delivery => m = k
    /\ \A v, w \in AtWork : D(v) = D(w) => v = w
    /\ \A t, u \in Sending : fanout[t].row = fanout[u].row => t = u
    /\ \A m \in deliveryMessages : \A v \in AtWork : m.delivery # D(v)
    /\ \A m \in deliveryMessages : \A u \in Sending : m.delivery # fanout[u].row
    /\ \A v \in AtWork : \A u \in Sending : D(v) # fanout[u].row

\* What the step of a task says of its delivery.
TaskTells(v) ==
    /\ deliverer[v].step \in {"post", "success", "failure", "retry"} => ~Final(D(v))
    /\ deliverer[v].step = "success" => <<EventOf(v), EndpointOf(v)>> \in accepted
    /\ deliverer[v].step = "delivered" => delivery[D(v)].status = "SUCCESS"
    /\ deliverer[v].step = "failed" => /\ delivery[D(v)].status = "FAILED"
                                       /\ delivery[D(v)].attempt = MaxDeliveryRetries + 1

StatusInv ==
    /\ OneHolder
    /\ \A m \in deliveryMessages : ~Final(m.delivery)
    /\ \A u \in Sending : ~Final(fanout[u].row)
    /\ \A v \in AtWork : TaskTells(v)
    /\ StatusIsEarned

LEMMA InitStatus == WebhookInit => StatusInv
BY DEF WebhookInit, StatusInv, OneHolder, StatusIsEarned, AtWork, Sending, NoFanout, NoDelivery

\* No delivery is touched: tasks may end, and a message be lost with them.
LEMMA StatusRests ==
    ASSUME StatusInv, delivery' = delivery, accepted' = accepted,
           deliveryMessages' \subseteq deliveryMessages,
           \A e \in Events : webhookEvent'[e] = webhookEvent[e] \/ webhookEvent'[e] = "PENDING",
           \A v \in DeliveryWorkers : deliverer'[v] = deliverer[v] \/ deliverer'[v].step = "idle",
           \A u \in FanoutWorkers : fanout'[u] = fanout[u] \/ fanout'[u].step # "send"
    PROVE  StatusInv'
<1>1. \A v \in AtWork' : v \in AtWork /\ deliverer'[v] = deliverer[v]
  BY DEF AtWork
<1>2. \A u \in Sending' : u \in Sending /\ fanout'[u] = fanout[u]
  BY DEF Sending
<1>3. \A v \in AtWork' : D(v)' = D(v)
  BY <1>1 DEF D
<1>4. OneHolder'
  BY <1>1, <1>2, <1>3 DEF StatusInv, OneHolder
<1>5. \A m \in deliveryMessages' : ~Final(m.delivery)'
  BY DEF StatusInv, Final
<1>6. \A u \in Sending' : ~Final(fanout[u].row)'
  BY <1>2 DEF StatusInv, Final
<1>7. ASSUME NEW v \in AtWork' PROVE TaskTells(v)'
  <2>1. TaskTells(v) /\ D(v)' = D(v) /\ deliverer'[v] = deliverer[v]
    BY <1>1, <1>3, <1>7 DEF StatusInv
  <2>2. (Final(D(v)))' <=> Final(D(v))
    BY <2>1 DEF Final
  <2>3. EventOf(v)' = EventOf(v) /\ EndpointOf(v)' = EndpointOf(v)
    BY <2>1 DEF EventOf, EndpointOf
  <2>4. QED
    BY <2>1, <2>2, <2>3 DEF TaskTells
<1>8. StatusIsEarned'
  BY DEF StatusInv, StatusIsEarned
<1>9. QED
  BY <1>4, <1>5, <1>6, <1>7, <1>8 DEF StatusInv

\* A fan-out hands its delivery to the broker.
LEMMA SendKeepsStatus ==
    ASSUME WebhookInv, StatusInv, NEW w \in FanoutWorkers, SendDelivery(w)
    PROVE  StatusInv'
<1>1. PICK m : m = [delivery |-> fanout[w].row, retries |-> 0]
  OBVIOUS
<1>2. PICK to : to = [fanout[w] EXCEPT !.step = "create", !.row = 0]
  OBVIOUS
<1>3. /\ fanout[w].step = "send" /\ m.delivery = fanout[w].row
      /\ fanout' = [fanout EXCEPT ![w] = to]
      /\ deliveryMessages' = deliveryMessages \cup {m}
      /\ UNCHANGED <<delivery, webhookEvent, deliverer, accepted>>
  BY <1>1, <1>2 DEF SendDelivery, FanoutAt
<1>4. to.step = "create"
  BY <1>2 DEF WebhookInv, FanoutTypes, FanoutRecord
<1>5. /\ w \in Sending /\ w \notin Sending'
      /\ \A u \in Sending' : u \in Sending /\ u # w /\ fanout'[u] = fanout[u]
  BY <1>3, <1>4 DEF Sending, WebhookInv, FanoutTypes
<1>6. AtWork' = AtWork /\ \A v : D(v)' = D(v)
  BY <1>3 DEF AtWork, D
<1>7. OneHolder'
  BY <1>3, <1>5, <1>6 DEF StatusInv, OneHolder
<1>8. \A k \in deliveryMessages' : ~Final(k.delivery)'
  BY <1>3, <1>5 DEF StatusInv, Final
<1>9. \A u \in Sending' : ~Final(fanout[u].row)'
  BY <1>3, <1>5 DEF StatusInv, Final
<1>10. \A v \in AtWork' : TaskTells(v)'
  BY <1>3, <1>6 DEF StatusInv, TaskTells, Final, EventOf, EndpointOf
<1>11. StatusIsEarned'
  BY <1>3 DEF StatusInv, StatusIsEarned
<1>12. QED
  BY <1>7, <1>8, <1>9, <1>10, <1>11 DEF StatusInv

\* A new row is not anybody's, and as PENDING it backs no status.
LEMMA NewRow ==
    ASSUME WebhookInv, StatusInv, NEW r, r.status = "PENDING", delivery' = Append(delivery, r),
           NEW new, new = Len(delivery) + 1,
           webhookEvent' = webhookEvent, accepted' = accepted, deliverer' = deliverer
    PROVE  /\ new \notin DOMAIN delivery /\ (~Final(new))'
           /\ \A d \in DOMAIN delivery : (Final(d))' <=> Final(d)
           /\ AtWork' = AtWork /\ \A v \in AtWork : D(v)' = D(v)
           /\ \A m \in deliveryMessages : m.delivery \in DOMAIN delivery
           /\ \A v \in AtWork : D(v) \in DOMAIN delivery
           /\ \A u \in Sending : fanout[u].row \in DOMAIN delivery
           /\ \A v \in AtWork' : TaskTells(v)'
           /\ StatusIsEarned'
<1>2. /\ new \notin DOMAIN delivery /\ delivery'[new] = r
      /\ \A d \in DOMAIN delivery : d \in DOMAIN delivery' /\ delivery'[d] = delivery[d]
      /\ \A d \in DOMAIN delivery' : d \in DOMAIN delivery \/ d = new
  <2>1. delivery \in Seq(DeliveryRow)
    BY DEF WebhookInv, RowTypes
  <2>2. /\ DOMAIN delivery' = 1 .. Len(delivery) + 1 /\ DOMAIN delivery = 1 .. Len(delivery)
        /\ Len(delivery) \in Nat /\ delivery'[Len(delivery) + 1] = r
        /\ \A d \in 1 .. Len(delivery) : delivery'[d] = delivery[d]
    BY <2>1
  <2>3. QED
    BY <2>2
<1>3. (~Final(new))'
  BY <1>2 DEF Final
<1>4. \A d \in DOMAIN delivery : (Final(d))' <=> Final(d)
  BY <1>2 DEF Final
<1>5. AtWork' = AtWork /\ \A v \in AtWork : D(v)' = D(v)
  BY DEF AtWork, D
<1>6. /\ \A m \in deliveryMessages : m.delivery \in DOMAIN delivery
      /\ \A v \in AtWork : D(v) \in DOMAIN delivery
      /\ \A u \in Sending : fanout[u].row \in DOMAIN delivery
  <2>1. TaskTypes /\ FanoutTypes
    BY DEF WebhookInv
  <2>2. \A m \in deliveryMessages : m.delivery \in DOMAIN delivery
    BY <2>1 DEF TaskTypes
  <2>3. \A v \in AtWork : D(v) \in DOMAIN delivery
    BY <2>1 DEF TaskTypes, AtWork
  <2>4. \A u \in Sending : fanout[u].row \in DOMAIN delivery
    BY <2>1 DEF FanoutTypes, Sending
  <2>5. QED
    BY <2>2, <2>3, <2>4
<1>7. ASSUME NEW v \in AtWork PROVE TaskTells(v)'
  <2>1. TaskTells(v) /\ D(v)' = D(v) /\ D(v) \in DOMAIN delivery
    BY <1>5, <1>6 DEF StatusInv
  <2>2. PICK d \in DOMAIN delivery : d = D(v) /\ d = D(v)'
    BY <2>1
  <2>3. delivery'[d] = delivery[d] /\ ((Final(d))' <=> Final(d))
    BY <1>2, <1>4
  <2>4. EventOf(v)' = EventOf(v) /\ EndpointOf(v)' = EndpointOf(v)
    BY <2>2, <2>3 DEF EventOf, EndpointOf
  <2>5. (Final(D(v)))' <=> Final(D(v))
    BY <2>2, <2>3 DEF Final
  <2>6. delivery'[D(v)'] = delivery[D(v)]
    BY <2>2, <2>3
  <2>7. QED
    BY <2>1, <2>4, <2>5, <2>6 DEF TaskTells
<1>8. StatusIsEarned'
  BY <1>2 DEF StatusInv, StatusIsEarned
<1>9. QED
  BY <1>2, <1>3, <1>4, <1>5, <1>6, <1>7, <1>8

LEMMA CreateKeepsStatus ==
    ASSUME WebhookInv, StatusInv, NEW w \in FanoutWorkers, CreateDelivery(w)
    PROVE  StatusInv'
<1>1. PICK r : r = NewDelivery(NextEvent(w), Max(fanout[w].targets), 1)
  OBVIOUS
<1>2. PICK new : new = Len(delivery) + 1
  OBVIOUS
<1>3. PICK to : to = [fanout[w] EXCEPT !.step = "send",
                                       !.targets = @ \ {Max(fanout[w].targets)}, !.row = new]
  OBVIOUS
<1>4. /\ delivery' = Append(delivery, r) /\ r.status = "PENDING"
      /\ fanout' = [fanout EXCEPT ![w] = to]
      /\ webhookEvent' = webhookEvent /\ accepted' = accepted
      /\ deliverer' = deliverer /\ deliveryMessages' = deliveryMessages
  BY <1>1, <1>2, <1>3 DEF CreateDelivery, FanoutAt, NewDelivery
<1>5. to.row = new /\ fanout'[w] = to /\ \A u \in FanoutWorkers : u # w => fanout'[u] = fanout[u]
  BY <1>3, <1>4 DEF WebhookInv, FanoutTypes, FanoutRecord
<1>6. /\ new \notin DOMAIN delivery /\ (~Final(new))'
      /\ \A d \in DOMAIN delivery : (Final(d))' <=> Final(d)
      /\ AtWork' = AtWork /\ \A v \in AtWork : D(v)' = D(v)
      /\ \A m \in deliveryMessages : m.delivery \in DOMAIN delivery
      /\ \A v \in AtWork : D(v) \in DOMAIN delivery
      /\ \A u \in Sending : fanout[u].row \in DOMAIN delivery
      /\ \A v \in AtWork' : TaskTells(v)'
      /\ StatusIsEarned'
  BY <1>2, <1>4, NewRow DEF Final
<1>7. \A u \in Sending' : u = w \/ (u \in Sending /\ fanout'[u] = fanout[u])
  BY <1>5 DEF Sending
<1>8. \A u \in Sending' :
         fanout'[u].row = new \/ (u \in Sending /\ fanout'[u].row = fanout[u].row)
  BY <1>5, <1>7
<1>9. \A t, u \in Sending' : fanout'[t].row = fanout'[u].row => t = u
  BY <1>5, <1>6, <1>7 DEF StatusInv, OneHolder
<1>10. OneHolder'
  BY <1>4, <1>6, <1>8, <1>9 DEF StatusInv, OneHolder
<1>11. \A u \in Sending' : (~Final(fanout[u].row))'
  <2>1. SUFFICES ASSUME NEW u \in Sending' PROVE (~Final(fanout[u].row))'
    OBVIOUS
  <2>2. PICK d : d = fanout'[u].row
    OBVIOUS
  <2>3. (~Final(d))'
    BY <1>6, <1>8, <2>1, <2>2 DEF StatusInv
  <2>4. QED
    BY <2>2, <2>3 DEF Final
<1>12. \A m \in deliveryMessages' : ~Final(m.delivery)'
  BY <1>4, <1>6 DEF StatusInv
<1>13. QED
  BY <1>6, <1>10, <1>11, <1>12 DEF StatusInv

LEMMA ReplayKeepsStatus ==
    ASSUME WebhookInv, StatusInv, NEW c \in DOMAIN delivery, ReplayDelivery(c)
    PROVE  StatusInv'
<1>1. PICK r : r = NewDelivery(delivery[c].event, delivery[c].endpoint, delivery[c].attempt + 1)
  OBVIOUS
<1>2. PICK new : new = Len(delivery) + 1
  OBVIOUS
<1>3. PICK k : k = [delivery |-> new, retries |-> 0]
  OBVIOUS
<1>4. /\ delivery' = Append(delivery, r) /\ r.status = "PENDING"
      /\ deliveryMessages' = deliveryMessages \cup {k} /\ k.delivery = new
      /\ webhookEvent' = webhookEvent /\ accepted' = accepted
      /\ deliverer' = deliverer /\ fanout' = fanout
  BY <1>1, <1>2, <1>3 DEF ReplayDelivery, NewDelivery, outside
<1>5. /\ new \notin DOMAIN delivery /\ (~Final(new))'
      /\ \A d \in DOMAIN delivery : (Final(d))' <=> Final(d)
      /\ AtWork' = AtWork /\ \A v \in AtWork : D(v)' = D(v)
      /\ \A m \in deliveryMessages : m.delivery \in DOMAIN delivery
      /\ \A v \in AtWork : D(v) \in DOMAIN delivery
      /\ \A u \in Sending : fanout[u].row \in DOMAIN delivery
      /\ \A v \in AtWork' : TaskTells(v)'
      /\ StatusIsEarned'
  BY <1>2, <1>4, NewRow DEF Final
<1>6. Sending' = Sending
  BY <1>4 DEF Sending
<1>7. OneHolder'
  BY <1>4, <1>5, <1>6 DEF StatusInv, OneHolder
<1>8. \A u \in Sending' : (~Final(fanout[u].row))'
  <2>1. SUFFICES ASSUME NEW u \in Sending' PROVE (~Final(fanout[u].row))'
    OBVIOUS
  <2>2. PICK d : d = fanout'[u].row
    OBVIOUS
  <2>3. (~Final(d))'
    BY <1>4, <1>5, <1>6, <2>1, <2>2 DEF StatusInv
  <2>4. QED
    BY <2>2, <2>3 DEF Final
<1>9. \A m \in deliveryMessages' : ~Final(m.delivery)'
  BY <1>4, <1>5 DEF StatusInv
<1>10. QED
  BY <1>5, <1>7, <1>8, <1>9 DEF StatusInv

LEMMA TakeKeepsStatus ==
    ASSUME WebhookInv, StatusInv, NEW w \in DeliveryWorkers, TakeDelivery(w)
    PROVE  StatusInv'
<1>1. PICK m \in deliveryMessages :
          /\ deliveryMessages' = deliveryMessages \ {m}
          /\ deliverer' = [deliverer EXCEPT ![w] =
                 [step |-> "post", delivery |-> m.delivery, retries |-> m.retries,
                  endpoint |-> endpoint[delivery[m.delivery].endpoint]]]
          /\ deliverer[w].step = "idle"
  BY DEF TakeDelivery, DelivererAt
<1>2. /\ delivery' = delivery /\ webhookEvent' = webhookEvent /\ fanout' = fanout
      /\ accepted' = accepted
  BY DEF TakeDelivery, DelivererAt
<1>3. /\ deliverer'[w].step = "post" /\ deliverer'[w].delivery = m.delivery
      /\ \A v \in DeliveryWorkers : v # w => deliverer'[v] = deliverer[v]
  BY <1>1 DEF WebhookInv, TaskTypes
<1>4. /\ w \notin AtWork /\ D(w)' = m.delivery
      /\ \A v \in AtWork' : v = w \/ (v \in AtWork /\ deliverer'[v] = deliverer[v]
                                      /\ D(v)' = D(v))
      /\ Sending' = Sending
  BY <1>1, <1>2, <1>3 DEF AtWork, D, Sending
<1>5. OneHolder'
  <2>1. \A v, u \in AtWork' : D(v)' = D(u)' => v = u
    BY <1>1, <1>4 DEF StatusInv, OneHolder
  <2>2. \A k \in deliveryMessages' : \A v \in AtWork' : k.delivery # D(v)'
    BY <1>1, <1>4 DEF StatusInv, OneHolder
  <2>3. \A v \in AtWork' : \A u \in Sending' : D(v)' # fanout'[u].row
    BY <1>1, <1>2, <1>4 DEF StatusInv, OneHolder
  <2>4. QED
    BY <1>1, <1>2, <1>4, <2>1, <2>2, <2>3 DEF StatusInv, OneHolder
<1>6. \A k \in deliveryMessages' : ~Final(k.delivery)'
  BY <1>1, <1>2 DEF StatusInv, Final
<1>7. \A u \in Sending' : (~Final(fanout[u].row))'
  BY <1>2, <1>4 DEF StatusInv, Final
<1>8. ASSUME NEW v \in AtWork' PROVE TaskTells(v)'
  <2>1. CASE v = w
    <3>1. (~Final(D(v)))'
      BY <1>1, <1>2, <1>4, <2>1 DEF StatusInv, Final
    <3>2. QED
      BY <1>3, <2>1, <3>1 DEF TaskTells
  <2>2. CASE v \in AtWork /\ deliverer'[v] = deliverer[v] /\ D(v)' = D(v)
    BY <1>2, <2>2 DEF StatusInv, TaskTells, Final, EventOf, EndpointOf
  <2>3. QED
    BY <1>4, <1>8, <2>1, <2>2
<1>9. StatusIsEarned'
  BY <1>2 DEF StatusInv, StatusIsEarned
<1>10. QED
  BY <1>5, <1>6, <1>7, <1>8, <1>9 DEF StatusInv

\* A task goes on or ends, and leaves every delivery as it is.
LEMMA MoveKeepsStatus ==
    ASSUME WebhookInv, StatusInv, NEW w \in AtWork, NEW to,
           deliverer' = [deliverer EXCEPT ![w] = to],
           to.step # "idle" => to.delivery = D(w) /\ TaskTells(w)',
           delivery' = delivery, fanout' = fanout, deliveryMessages' = deliveryMessages,
           accepted \subseteq accepted', StatusIsEarned'
    PROVE  StatusInv'
<1>1. deliverer'[w] = to /\ \A v \in DeliveryWorkers : v # w => deliverer'[v] = deliverer[v]
  BY DEF WebhookInv, TaskTypes, AtWork
<1>2. \A v \in AtWork' : v \in AtWork /\ D(v)' = D(v) /\ (v # w => deliverer'[v] = deliverer[v])
  <2>1. SUFFICES ASSUME NEW v \in AtWork'
                 PROVE  v \in AtWork /\ D(v)' = D(v) /\ (v # w => deliverer'[v] = deliverer[v])
    OBVIOUS
  <2>2. v \in DeliveryWorkers /\ deliverer'[v].step # "idle"
    BY DEF AtWork
  <2>3. CASE v = w
    BY <1>1, <2>2, <2>3 DEF D
  <2>4. CASE v # w
    BY <1>1, <2>2, <2>4 DEF D, AtWork
  <2>5. QED
    BY <2>3, <2>4
<1>3. Sending' = Sending
  BY DEF Sending
<1>4. OneHolder'
  BY <1>2, <1>3 DEF StatusInv, OneHolder
<1>5. \A m \in deliveryMessages' : ~Final(m.delivery)'
  BY DEF StatusInv, Final
<1>6. \A u \in Sending' : (~Final(fanout[u].row))'
  BY <1>3 DEF StatusInv, Final
<1>7. ASSUME NEW v \in AtWork' PROVE TaskTells(v)'
  <2>1. CASE v = w
    BY <1>1, <1>7, <2>1 DEF AtWork
  <2>2. CASE v # w
    <3>1. TaskTells(v) /\ D(v)' = D(v) /\ deliverer'[v] = deliverer[v]
      BY <1>2, <1>7, <2>2 DEF StatusInv
    <3>2. QED
      BY <3>1 DEF TaskTells, Final, EventOf, EndpointOf
  <2>3. QED
    BY <2>1, <2>2
<1>8. QED
  BY <1>4, <1>5, <1>6, <1>7 DEF StatusInv

\* The POST is answered.
LEMMA PostKeepsStatus ==
    ASSUME WebhookInv, StatusInv, NEW w \in DeliveryWorkers, PostAccepted(w) \/ PostFails(w)
    PROVE  StatusInv'
<1>1. PICK st \in {"success", "failure"} :
         /\ deliverer' = [deliverer EXCEPT ![w] = [deliverer[w] EXCEPT !.step = st]]
         /\ accepted \subseteq accepted'
         /\ st = "success" => <<EventOf(w), EndpointOf(w)>> \in accepted'
         /\ deliverer[w].step = "post" /\ delivery' = delivery /\ fanout' = fanout
         /\ deliveryMessages' = deliveryMessages /\ webhookEvent' = webhookEvent
  <2>1. CASE PostAccepted(w)
    BY <2>1 DEF PostAccepted, DelivererAt
  <2>2. CASE PostFails(w)
    BY <2>2 DEF PostFails, DelivererAt
  <2>3. QED
    BY <2>1, <2>2
<1>2. PICK to : to = [deliverer[w] EXCEPT !.step = st]
  OBVIOUS
<1>3. w \in AtWork /\ deliverer[w] \in DelivererRecord
  BY <1>1, TaskIsBusy DEF AtWork
<1>4. to.step = st /\ to.delivery = D(w) /\ deliverer'[w] = to
  BY <1>1, <1>2, <1>3 DEF DelivererRecord, D, WebhookInv, TaskTypes
<1>5. D(w)' = D(w)
  BY <1>4 DEF D
<1>6. TaskTells(w)'
  <2>1. ~Final(D(w))
    BY <1>1, <1>3 DEF StatusInv, TaskTells
  <2>2. (~Final(D(w)))'
    BY <1>1, <1>5, <2>1 DEF Final
  <2>3. <<EventOf(w), EndpointOf(w)>>' = <<EventOf(w), EndpointOf(w)>>
    BY <1>1, <1>5 DEF EventOf, EndpointOf
  <2>4. QED
    BY <1>1, <1>4, <2>2, <2>3 DEF TaskTells
<1>7. StatusIsEarned'
  BY <1>1 DEF StatusInv, StatusIsEarned
<1>8. deliverer' = [deliverer EXCEPT ![w] = to]
  BY <1>1, <1>2
<1>9. QED
  BY <1>1, <1>3, <1>4, <1>6, <1>7, <1>8, MoveKeepsStatus

\* The event is marked: its delivery has just ended.
LEMMA EventKeepsStatus ==
    ASSUME WebhookInv, StatusInv, NEW w \in DeliveryWorkers, EventDelivered(w) \/ EventFailed(w)
    PROVE  StatusInv'
<1>1. PICK touch : touch = [deliverer[w] EXCEPT !.step = "touch"]
  OBVIOUS
<1>2. PICK s \in {"DELIVERED", "FAILED"} :
         /\ deliverer' = [deliverer EXCEPT ![w] = IF s = "DELIVERED" THEN touch ELSE NoDelivery]
         /\ deliverer[w].step = (IF s = "DELIVERED" THEN "delivered" ELSE "failed")
         /\ webhookEvent' = [webhookEvent EXCEPT ![EventOf(w)] = s]
         /\ delivery' = delivery /\ fanout' = fanout
         /\ deliveryMessages' = deliveryMessages /\ accepted' = accepted
  <2>1. CASE EventDelivered(w)
    BY <1>1, <2>1 DEF EventDelivered, DelivererAt
  <2>2. CASE EventFailed(w)
    BY <1>1, <2>2 DEF EventFailed, DelivererAt
  <2>3. QED
    BY <2>1, <2>2
<1>3. /\ w \in AtWork /\ deliverer[w] \in DelivererRecord
      /\ D(w) \in DOMAIN delivery /\ EventOf(w) \in Events
  BY <1>2, TaskIsBusy DEF AtWork
<1>4. PICK to : to = IF s = "DELIVERED" THEN touch ELSE NoDelivery
  OBVIOUS
<1>5. deliverer' = [deliverer EXCEPT ![w] = to]
  BY <1>2, <1>4
<1>6. to.step # "idle" => to.step = "touch" /\ to.delivery = D(w) /\ deliverer'[w] = to
  BY <1>1, <1>3, <1>4, <1>5 DEF DelivererRecord, D, NoDelivery, WebhookInv, TaskTypes
<1>7. to.step # "idle" => to.delivery = D(w) /\ TaskTells(w)'
  BY <1>6 DEF TaskTells
<1>8. StatusIsEarned'
  <2>1. PICK d \in DOMAIN delivery : d = D(w)
    BY <1>3
  <2>2. /\ delivery[d].event = EventOf(w)
        /\ s = "DELIVERED" => delivery[d].status = "SUCCESS"
        /\ s = "FAILED" => /\ delivery[d].status = "FAILED"
                           /\ delivery[d].attempt = MaxDeliveryRetries + 1
    BY <1>2, <1>3, <2>1 DEF StatusInv, TaskTells, EventOf
  <2>3. \A e \in Events : webhookEvent'[e] = IF e = EventOf(w) THEN s ELSE webhookEvent[e]
    BY <1>2 DEF WebhookInv, RowTypes
  <2>4. StatusIsEarned
    BY DEF StatusInv
  <2>5. QED
    BY <1>2, <2>2, <2>3, <2>4 DEF StatusIsEarned
<1>9. QED
  BY <1>2, <1>3, <1>7, <1>8, <1>5, MoveKeepsStatus

\* What delivery.save() writes.
LEMMA SavedRow ==
    ASSUME WebhookInv, NEW w \in AtWork, NEW s, SaveDelivery(w, s)
    PROVE  /\ D(w) \in DOMAIN delivery /\ DOMAIN delivery' = DOMAIN delivery
           /\ delivery'[D(w)].status = s
           /\ delivery'[D(w)].attempt = deliverer[w].retries + 1
           /\ delivery'[D(w)].event = delivery[D(w)].event
           /\ delivery'[D(w)].endpoint = delivery[D(w)].endpoint
           /\ \A d \in DOMAIN delivery : d # D(w) => delivery'[d] = delivery[d]
<1>1. PICK d \in DOMAIN delivery : d = D(w)
  BY TaskIsBusy DEF AtWork
<1>2. PICK a : a = deliverer[w].retries + 1
  OBVIOUS
<1>3. PICK r : r = [[delivery[d] EXCEPT !.status = s] EXCEPT !.attempt = a]
  OBVIOUS
<1>4. delivery \in Seq(DeliveryRow) /\ delivery[d] \in DeliveryRow
  BY DEF WebhookInv, RowTypes
<1>5. delivery' = [delivery EXCEPT ![d].status = s, ![d].attempt = a]
  BY <1>1, <1>2 DEF SaveDelivery
<1>6. DOMAIN delivery' = DOMAIN delivery /\ \A i \in DOMAIN delivery : i # d => delivery'[i] = delivery[i]
  BY <1>5
<1>7. delivery'[d] = r
  BY <1>3, <1>4, <1>5
<1>8. r.status = s /\ r.attempt = a /\ r.event = delivery[d].event
      /\ r.endpoint = delivery[d].endpoint
  BY <1>3, <1>4 DEF DeliveryRow
<1>9. QED
  BY <1>1, <1>2, <1>6, <1>7, <1>8

\* A task saves its delivery, which nobody else holds and which backs nothing.
LEMMA SaveKeepsStatus ==
    ASSUME WebhookInv, StatusInv, NEW w \in AtWork, NEW to, NEW s \in {"SUCCESS", "FAILED"},
           ~Final(D(w)), SaveDelivery(w, s),
           s = "SUCCESS" => <<EventOf(w), EndpointOf(w)>> \in accepted,
           deliverer' = [deliverer EXCEPT ![w] = to],
           to.delivery = D(w), to.step \in {"delivered", "failed", "retry"},
           to.step = "delivered" => s = "SUCCESS",
           to.step = "failed" => s = "FAILED" /\ deliverer[w].retries = MaxDeliveryRetries,
           to.step = "retry" => s = "FAILED" /\ deliverer[w].retries < MaxDeliveryRetries,
           webhookEvent' = webhookEvent, accepted' = accepted,
           fanout' = fanout, deliveryMessages' = deliveryMessages
    PROVE  StatusInv'
<1>1. /\ D(w) \in DOMAIN delivery /\ DOMAIN delivery' = DOMAIN delivery
      /\ delivery'[D(w)].status = s
      /\ delivery'[D(w)].attempt = deliverer[w].retries + 1
      /\ delivery'[D(w)].event = delivery[D(w)].event
      /\ delivery'[D(w)].endpoint = delivery[D(w)].endpoint
      /\ \A d \in DOMAIN delivery : d # D(w) => delivery'[d] = delivery[d]
  BY SavedRow
<1>2. PICK c \in DOMAIN delivery : c = D(w)
  BY <1>1
<1>3. \A d \in DOMAIN delivery : d # c => ((Final(d))' <=> Final(d))
  BY <1>1, <1>2 DEF Final
<1>4. /\ deliverer'[w] = to /\ w \in AtWork'
      /\ \A v \in DeliveryWorkers : v # w => deliverer'[v] = deliverer[v]
  BY DEF WebhookInv, TaskTypes, AtWork
<1>5. D(w)' = c /\ \A v \in AtWork' : v \in AtWork /\ D(v)' = D(v)
  BY <1>2, <1>4 DEF AtWork, D
<1>6. Sending' = Sending
  BY DEF Sending
<1>7. OneHolder'
  BY <1>5, <1>6 DEF StatusInv, OneHolder
<1>8. ASSUME NEW m \in deliveryMessages' PROVE ~Final(m.delivery)'
  <2>1. m.delivery # c /\ m.delivery \in DOMAIN delivery /\ ~Final(m.delivery)
    BY <1>2, <1>8 DEF StatusInv, OneHolder, WebhookInv, TaskTypes
  <2>2. QED
    BY <1>3, <2>1
<1>9. ASSUME NEW u \in Sending' PROVE (~Final(fanout[u].row))'
  <2>1. PICK d : d = fanout[u].row
    OBVIOUS
  <2>2. d # c /\ ~Final(d)
    BY <1>2, <1>6, <2>1 DEF StatusInv, OneHolder
  <2>3. d \in DOMAIN delivery
    BY <1>6, <2>1 DEF WebhookInv, FanoutTypes, Sending
  <2>4. (~Final(d))'
    BY <1>3, <2>2, <2>3
  <2>5. QED
    BY <2>1, <2>4 DEF Final
<1>10. ASSUME NEW v \in AtWork' PROVE TaskTells(v)'
  <2>1. CASE v = w
    <3>1. to.step = "delivered" => delivery'[c].status = "SUCCESS"
      BY <1>1, <1>2
    <3>2. to.step = "failed" => /\ delivery'[c].status = "FAILED"
                                /\ delivery'[c].attempt = MaxDeliveryRetries + 1
      BY <1>1, <1>2
    <3>3. to.step = "retry" => (~Final(c))'
      <4>1. SUFFICES ASSUME to.step = "retry" PROVE (~Final(c))'
        OBVIOUS
      <4>2. deliverer[w].retries \in Nat
        BY WebhooksAssumption, TaskIsBusy DEF AtWork, DelivererRecord
      <4>3. deliverer[w].retries + 1 # MaxDeliveryRetries + 1
        BY <4>1, <4>2, WebhooksAssumption
      <4>4. delivery'[c].status = "FAILED" /\ delivery'[c].attempt # MaxDeliveryRetries + 1
        BY <1>1, <1>2, <4>1, <4>3
      <4>5. QED
        BY <4>4 DEF Final
    <3>4. to.step = "retry" => (~Final(D(w)))'
      BY <1>5, <3>3 DEF Final
    <3>5. QED
      BY <1>4, <1>5, <2>1, <3>1, <3>2, <3>4 DEF TaskTells
  <2>2. CASE v # w
    <3>1. v \in AtWork /\ D(v)' = D(v) /\ D(v) # c /\ deliverer'[v] = deliverer[v]
      BY <1>2, <1>4, <1>5, <1>10, <2>2 DEF StatusInv, OneHolder, AtWork
    <3>2. PICK d \in DOMAIN delivery : d = D(v)
      BY <3>1, TaskIsBusy DEF AtWork
    <3>3. delivery'[D(v)'] = delivery[D(v)]
      BY <1>1, <1>2, <3>1, <3>2
    <3>4. TaskTells(v)
      BY <3>1 DEF StatusInv
    <3>5. EventOf(v)' = EventOf(v) /\ EndpointOf(v)' = EndpointOf(v)
          /\ ((Final(D(v)))' <=> Final(D(v)))
      BY <3>3 DEF EventOf, EndpointOf, Final
    <3>6. QED
      BY <3>1, <3>3, <3>4, <3>5 DEF TaskTells
  <2>3. QED
    BY <2>1, <2>2
<1>11. StatusIsEarned'
  <2>1. StatusIsEarned
    BY DEF StatusInv
  <2>2. ASSUME NEW d \in DOMAIN delivery', delivery'[d].status = "SUCCESS"
        PROVE  <<delivery'[d].event, delivery'[d].endpoint>> \in accepted'
    <3>1. CASE d = c
      BY <1>1, <1>2, <2>2, <3>1 DEF EventOf, EndpointOf
    <3>2. CASE d # c
      BY <1>1, <1>2, <2>1, <2>2, <3>2 DEF StatusIsEarned
    <3>3. QED
      BY <3>1, <3>2
  <2>3. \A e \in Events : webhookEvent'[e] = "DELIVERED" =>
           \E d \in DOMAIN delivery' : delivery'[d].event = e /\ delivery'[d].status = "SUCCESS"
    BY <1>1, <1>2, <2>1 DEF StatusIsEarned, Final
  <2>4. \A e \in Events : webhookEvent'[e] = "FAILED" =>
           \E d \in DOMAIN delivery' : /\ delivery'[d].event = e
                                       /\ delivery'[d].status = "FAILED"
                                       /\ delivery'[d].attempt = MaxDeliveryRetries + 1
    BY <1>1, <1>2, <2>1 DEF StatusIsEarned, Final
  <2>5. QED
    BY <2>2, <2>3, <2>4 DEF StatusIsEarned
<1>12. QED
  BY <1>7, <1>8, <1>9, <1>10, <1>11 DEF StatusInv

LEMMA EndKeepsStatus ==
    ASSUME WebhookInv, StatusInv, NEW w \in DeliveryWorkers, Succeed(w) \/ Fail(w)
    PROVE  StatusInv'
<1>1. PICK st \in {"delivered", "failed", "retry"}, s \in {"SUCCESS", "FAILED"} :
         /\ deliverer' = [deliverer EXCEPT ![w] = [deliverer[w] EXCEPT !.step = st]]
         /\ SaveDelivery(w, s)
         /\ s = "SUCCESS" => deliverer[w].step = "success" /\ st = "delivered"
         /\ s = "FAILED" => /\ deliverer[w].step = "failure"
                            /\ st = IF Exhausted(w) THEN "failed" ELSE "retry"
         /\ webhookEvent' = webhookEvent /\ accepted' = accepted
         /\ fanout' = fanout /\ deliveryMessages' = deliveryMessages
  <2>1. CASE Succeed(w)
    BY <2>1 DEF Succeed, DelivererAt
  <2>2. CASE Fail(w)
    <3>1. PICK st \in {"failed", "retry"} : st = IF Exhausted(w) THEN "failed" ELSE "retry"
      OBVIOUS
    <3>2. QED
      BY <2>2, <3>1 DEF Fail, DelivererAt
  <2>3. QED
    BY <2>1, <2>2
<1>2. PICK to : to = [deliverer[w] EXCEPT !.step = st]
  OBVIOUS
<1>3. w \in AtWork /\ deliverer[w] \in DelivererRecord
  BY <1>1, TaskIsBusy DEF AtWork
<1>4. to.step = st /\ to.delivery = D(w) /\ deliverer' = [deliverer EXCEPT ![w] = to]
  BY <1>1, <1>2, <1>3 DEF DelivererRecord, D
<1>5. ~Final(D(w)) /\ (s = "SUCCESS" => <<EventOf(w), EndpointOf(w)>> \in accepted)
  BY <1>1, <1>3 DEF StatusInv, TaskTells
<1>6. /\ st = "delivered" => s = "SUCCESS"
      /\ st = "failed" => s = "FAILED" /\ deliverer[w].retries = MaxDeliveryRetries
      /\ st = "retry" => s = "FAILED" /\ deliverer[w].retries < MaxDeliveryRetries
  <2>1. deliverer[w].retries \in 0 .. MaxDeliveryRetries
    BY <1>3 DEF DelivererRecord
  <2>2. /\ Exhausted(w) => deliverer[w].retries = MaxDeliveryRetries
        /\ ~Exhausted(w) => deliverer[w].retries < MaxDeliveryRetries
    BY <2>1, WebhooksAssumption DEF Exhausted
  <2>3. QED
    BY <1>1, <2>2
<1>7. QED
  BY <1>1, <1>3, <1>4, <1>5, <1>6, SaveKeepsStatus

\* A task that will retry gives its delivery back to the broker.
LEMMA RetryKeepsStatus ==
    ASSUME WebhookInv, StatusInv, NEW w \in DeliveryWorkers, RetryDelivery(w)
    PROVE  StatusInv'
<1>1. PICK m : m = [delivery |-> D(w), retries |-> deliverer[w].retries + 1]
  OBVIOUS
<1>2. /\ deliverer[w].step = "retry" /\ deliverer' = [deliverer EXCEPT ![w] = NoDelivery]
      /\ deliveryMessages' = deliveryMessages \cup {m} /\ m.delivery = D(w)
      /\ delivery' = delivery /\ webhookEvent' = webhookEvent /\ fanout' = fanout
      /\ accepted' = accepted
  BY <1>1 DEF RetryDelivery, DelivererAt
<1>3. w \in AtWork /\ ~Final(D(w))
  BY <1>2 DEF AtWork, StatusInv, TaskTells
<1>4. \A v \in AtWork' : v \in AtWork /\ v # w /\ deliverer'[v] = deliverer[v] /\ D(v)' = D(v)
  BY <1>2 DEF WebhookInv, TaskTypes, AtWork, D, NoDelivery
<1>5. Sending' = Sending
  BY <1>2 DEF Sending
<1>6. OneHolder'
  <2>1. OneHolder
    BY DEF StatusInv
  <2>2. \A k \in deliveryMessages' : k \in deliveryMessages \/ k = m
    BY <1>2
  <2>3. \A k \in deliveryMessages : k.delivery # m.delivery
    BY <1>2, <1>3, <2>1 DEF OneHolder
  <2>4. \A k, j \in deliveryMessages' : k.delivery = j.delivery => k = j
    BY <2>1, <2>2, <2>3 DEF OneHolder
  <2>5. \A k \in deliveryMessages' : \A v \in AtWork' : k.delivery # D(v)'
    BY <1>2, <1>3, <1>4, <2>1, <2>2 DEF OneHolder
  <2>6. \A k \in deliveryMessages' : \A u \in Sending' : k.delivery # fanout'[u].row
    BY <1>2, <1>3, <1>5, <2>1, <2>2 DEF OneHolder
  <2>7. QED
    BY <1>2, <1>4, <1>5, <2>1, <2>4, <2>5, <2>6 DEF OneHolder
<1>7. \A k \in deliveryMessages' : ~Final(k.delivery)'
  BY <1>2, <1>3 DEF StatusInv, Final
<1>8. \A u \in Sending' : (~Final(fanout[u].row))'
  BY <1>2, <1>5 DEF StatusInv, Final
<1>9. ASSUME NEW v \in AtWork' PROVE TaskTells(v)'
  <2>1. TaskTells(v) /\ D(v)' = D(v) /\ deliverer'[v] = deliverer[v]
    BY <1>4, <1>9 DEF StatusInv
  <2>2. QED
    BY <1>2, <2>1 DEF TaskTells, Final, EventOf, EndpointOf
<1>10. StatusIsEarned'
  BY <1>2 DEF StatusInv, StatusIsEarned
<1>11. QED
  BY <1>6, <1>7, <1>8, <1>9, <1>10 DEF StatusInv

\* The steps that touch no delivery.
LEMMA OthersKeepStatus ==
    ASSUME WebhookInv, StatusInv,
           \/ WebhooksQuiet \/ UNCHANGED webhookVars
           \/ \E events \in FilterChoices : CreateEndpoint(events)
           \/ \E n \in DOMAIN endpoint : DeleteEndpoint(n) \/ RotateSecret(n) \/ SendTestEvent(n)
           \/ \E w \in FanoutWorkers : TakeBatch(w) \/ OpenEvent(w) \/ MarkProcessed(w)
                                       \/ FanoutEnds(w) \/ FanoutDies(w)
           \/ \E w \in DeliveryWorkers : TouchEndpoint(w) \/ DelivererDies(w)
    PROVE  StatusInv'
<1>1. CASE \/ WebhooksQuiet \/ UNCHANGED webhookVars
           \/ \E events \in FilterChoices : CreateEndpoint(events)
           \/ \E n \in DOMAIN endpoint : DeleteEndpoint(n) \/ RotateSecret(n) \/ SendTestEvent(n)
  <2>1. /\ delivery' = delivery /\ accepted' = accepted /\ deliveryMessages' = deliveryMessages
        /\ webhookEvent' = webhookEvent /\ deliverer' = deliverer /\ fanout' = fanout
    BY <1>1 DEF WebhooksQuiet, webhookVars, CreateEndpoint, DeleteEndpoint, RotateSecret,
       SendTestEvent, PublishEvent, tasks, outside
  <2>2. QED
    BY <2>1, StatusRests
<1>2. CASE \E w \in FanoutWorkers : TakeBatch(w) \/ OpenEvent(w) \/ MarkProcessed(w)
                                    \/ FanoutEnds(w) \/ FanoutDies(w)
  <2>1. PICK w \in FanoutWorkers : \/ TakeBatch(w) \/ OpenEvent(w) \/ MarkProcessed(w)
                                   \/ FanoutEnds(w) \/ FanoutDies(w)
    BY <1>2
  <2>2. PICK to : /\ fanout' = [fanout EXCEPT ![w] = to] /\ to.step # "send"
                  /\ delivery' = delivery /\ accepted' = accepted
                  /\ deliveryMessages' = deliveryMessages /\ deliverer' = deliverer
                  /\ \/ webhookEvent' = webhookEvent
                     \/ webhookEvent' = [webhookEvent EXCEPT ![NextEvent(w)] = "PENDING"]
    <3>1. fanout[w] \in FanoutRecord
      BY DEF WebhookInv, FanoutTypes
    <3>2. CASE TakeBatch(w)
      <4>1. [NoFanout EXCEPT !.step = "event", !.batch = Oldest].step = "event"
        BY DEF NoFanout
      <4>2. QED
        BY <3>2, <4>1 DEF TakeBatch, FanoutAt
    <3>3. CASE OpenEvent(w)
      <4>1. [fanout[w] EXCEPT !.step = "create",
                              !.targets = Matching(outbox[NextEvent(w)].type)].step = "create"
        BY <3>1 DEF FanoutRecord
      <4>2. QED
        BY <3>3, <4>1 DEF OpenEvent, FanoutAt
    <3>4. CASE MarkProcessed(w)
      <4>1. [fanout[w] EXCEPT !.step = "event", !.batch = @ \ {NextEvent(w)}].step = "event"
        BY <3>1 DEF FanoutRecord
      <4>2. QED
        BY <3>4, <4>1 DEF MarkProcessed, FanoutAt
    <3>5. CASE FanoutEnds(w) \/ FanoutDies(w)
      BY <3>5, NoFanoutTypes DEF FanoutEnds, FanoutDies, FanoutAt
    <3>6. QED
      BY <2>1, <3>2, <3>3, <3>4, <3>5
  <2>3. \A u \in FanoutWorkers : fanout'[u] = fanout[u] \/ fanout'[u].step # "send"
    BY <2>2 DEF WebhookInv, FanoutTypes
  <2>4. \A e \in Events : webhookEvent'[e] = webhookEvent[e] \/ webhookEvent'[e] = "PENDING"
    BY <2>2 DEF WebhookInv, RowTypes
  <2>5. QED
    BY <2>2, <2>3, <2>4, StatusRests
<1>3. CASE \E w \in DeliveryWorkers : TouchEndpoint(w) \/ DelivererDies(w)
  <2>1. PICK w \in DeliveryWorkers :
           /\ deliverer' = [deliverer EXCEPT ![w] = NoDelivery]
           /\ delivery' = delivery /\ accepted' = accepted /\ webhookEvent' = webhookEvent
           /\ deliveryMessages' = deliveryMessages /\ fanout' = fanout
    BY <1>3 DEF TouchEndpoint, DelivererDies, DelivererAt
  <2>2. \A v \in DeliveryWorkers : deliverer'[v] = deliverer[v] \/ deliverer'[v].step = "idle"
    BY <2>1 DEF WebhookInv, TaskTypes, NoDelivery
  <2>3. QED
    BY <2>1, <2>2, StatusRests
<1>4. QED
  BY <1>1, <1>2, <1>3

LEMMA StatusStep ==
    ASSUME WebhookInv, StatusInv, [WebhookNext]_webhookVars
    PROVE  StatusInv'
<1>1. CASE \/ WebhooksQuiet \/ UNCHANGED webhookVars
           \/ \E events \in FilterChoices : CreateEndpoint(events)
           \/ \E n \in DOMAIN endpoint : DeleteEndpoint(n) \/ RotateSecret(n) \/ SendTestEvent(n)
  BY <1>1, OthersKeepStatus
<1>2. CASE \E d \in DOMAIN delivery : ReplayDelivery(d)
  BY <1>2, ReplayKeepsStatus
<1>3. CASE \E w \in FanoutWorkers : FanoutStep(w) \/ FanoutDies(w)
  BY <1>3, OthersKeepStatus, CreateKeepsStatus, SendKeepsStatus DEF FanoutStep
<1>4. CASE \E w \in DeliveryWorkers : DeliveryStep(w) \/ DelivererDies(w)
  BY <1>4, OthersKeepStatus, TakeKeepsStatus, PostKeepsStatus, EndKeepsStatus, RetryKeepsStatus,
     EventKeepsStatus DEF DeliveryStep
<1>5. QED
  BY <1>1, <1>2, <1>3, <1>4 DEF WebhookNext

\* A delivery is SUCCESS only if its endpoint has accepted the event, an event
\* is DELIVERED only if one of its deliveries is SUCCESS, and FAILED only if
\* one has used up its retries: deliver_webhook_task saves the whole row, but
\* no row is ever in the hands of two tasks.
THEOREM StatusStaysEarned == WebhookSpec => []StatusIsEarned
<1>1. StatusInv => StatusIsEarned
  BY DEF StatusInv
<1>2. WebhookInv /\ StatusInv /\ [WebhookNext]_webhookVars => StatusInv'
  BY StatusStep
<1>3. QED
  BY <1>1, <1>2, InitStatus, Types, PTL DEF WebhookSpec

-----------------------------------------------------------------------------
(* The notifications: what their records tell.                             *)

TaskRecord == [mail : Notices, retries : 0 .. MaxMailRetries, copy : 0 .. MaxResends,
               step : {"send", "sent", "raised", "retry"}]

MailTypes ==
    /\ notice \in [Notices -> NotificationRow]
    /\ publishing \subseteq Notices
    /\ mailQueue \subseteq MailMessage
    /\ mailer \in [Mailers -> TaskRecord \cup {FreeMailer}]
    /\ mails \in [Notices \cup Letters -> Nat]
    /\ resends \in 0 .. MaxResends /\ troubles \in 0 .. MaxTroubles

\* The messages that ask for mail m, and the workers that are about it.
Waiting(m) == {k \in mailQueue : k.mail = m}
Hands(m) == {w \in Mailers : mailer[w].mail = m}
HasTask(n) == n \in publishing \/ Waiting(n) # {} \/ Hands(n) # {}

\* What a status always says: a task that has sent its mail has sent it.
SentTells(n) ==
    /\ notice[n].status = "SENT" => mails[n] > 0
    /\ notice[n].status = "FAILED" => notice[n].retry_count > 0
    /\ \A w \in Hands(n) : mailer[w].step = "sent" => mails[n] > 0

\* Without troubles and resends a notification has at most one task, in one
\* place, and none before its row or after its end.
OneTask(n) ==
    /\ HasTask(n) => notice[n].status = "PENDING"
    /\ notice[n].status \in {"NONE", "FAILED"} => mails[n] = 0
    /\ notice[n].status = "SENT" => mails[n] = 1
    /\ notice[n].status = "FAILED" => notice[n].retry_count = MaxMailRetries + 1
    /\ n \in publishing => Waiting(n) = {} /\ Hands(n) = {} /\ mails[n] = 0
    /\ Waiting(n) # {} => Hands(n) = {} /\ mails[n] = 0
    /\ \A j, k \in Waiting(n) : j = k
    /\ \A v, w \in Hands(n) : v = w
    /\ \A w \in Hands(n) : mails[n] = (IF mailer[w].step = "sent" THEN 1 ELSE 0)

NoticeInv(n) ==
    /\ SentTells(n)
    /\ notice[n].status = "PENDING" /\ troubles = 0 => HasTask(n)
    /\ troubles = 0 /\ resends = 0 => OneTask(n)

MailInv == MailTypes /\ \A n \in Notices : NoticeInv(n)

-----------------------------------------------------------------------------
\* A notification is as it was if nothing that is about it has changed.
LEMMA NoticeRests ==
    ASSUME NEW n \in Notices, NoticeInv(n), MailTypes,
           notice'[n] = notice[n], mails'[n] = mails[n],
           n \in publishing' <=> n \in publishing,
           Waiting(n)' = Waiting(n), Hands(n)' = Hands(n),
           \A w \in Hands(n) : mailer'[w] = mailer[w],
           troubles' \in Nat /\ troubles' >= troubles, resends' \in Nat /\ resends' >= resends
    PROVE  NoticeInv(n)'
<1>1. HasTask(n)' <=> HasTask(n)
  BY DEF HasTask
<1>2. SentTells(n)' <=> SentTells(n)
  BY DEF SentTells
<1>3. OneTask(n)' <=> OneTask(n)
  BY <1>1 DEF OneTask
<1>4. (troubles' = 0 => troubles = 0) /\ (resends' = 0 => resends = 0)
  BY DEF MailTypes
<1>5. QED
  BY <1>1, <1>2, <1>3, <1>4 DEF NoticeInv

\* What the messages and the workers of n become.
LEMMA HandsChange ==
    ASSUME MailTypes, NEW w \in Mailers, NEW to, mailer' = [mailer EXCEPT ![w] = to], NEW n
    PROVE  /\ mailer'[w] = to /\ \A v \in Mailers : v # w => mailer'[v] = mailer[v]
           /\ Hands(n)' = IF to.mail = n THEN Hands(n) \cup {w} ELSE Hands(n) \ {w}
<1>1. mailer'[w] = to /\ \A v \in Mailers : v # w => mailer'[v] = mailer[v]
  BY DEF MailTypes
<1>2. QED
  BY <1>1 DEF Hands

\* Publishing, and the queue.
LEMMA NextHandle ==
    ASSUME MailInv, NEW k \in Notices, HandleEvent(k)
    PROVE  MailInv'
<1>1. PICK row : row = [notice[k] EXCEPT !.status = "PENDING"]
  OBVIOUS
<1>2. row \in NotificationRow /\ row.status = "PENDING"
  BY <1>1 DEF MailInv, MailTypes, NotificationRow, NotificationStatus
<1>3. /\ notice[k].status = "NONE" /\ notice' = [notice EXCEPT ![k] = row]
      /\ publishing' = publishing \cup {k}
      /\ UNCHANGED <<mailQueue, mailer, mails, resends, troubles>>
  BY <1>1 DEF HandleEvent
<1>4. notice'[k] = row /\ \A n \in Notices : n # k => notice'[n] = notice[n]
  BY <1>3 DEF MailInv, MailTypes
<1>5. MailTypes'
  BY <1>2, <1>3 DEF MailInv, MailTypes
<1>6. \A n : Waiting(n)' = Waiting(n) /\ Hands(n)' = Hands(n)
  BY <1>3 DEF Waiting, Hands
<1>7. ASSUME NEW n \in Notices PROVE NoticeInv(n)'
  <2>1. CASE n = k
    <3>1. SentTells(k)'
      BY <1>2, <1>3, <1>4, <1>6 DEF MailInv, NoticeInv, SentTells
    <3>2. HasTask(k)'
      BY <1>3 DEF HasTask
    <3>3. ASSUME troubles = 0, resends = 0 PROVE OneTask(k)'
      <4>1. OneTask(k) /\ ~HasTask(k)
        BY <1>3, <3>3 DEF MailInv, NoticeInv, OneTask
      <4>2. QED
        BY <1>2, <1>3, <1>4, <1>6, <4>1 DEF OneTask, HasTask
    <3>4. QED
      BY <1>3, <2>1, <3>1, <3>2, <3>3 DEF NoticeInv
  <2>2. CASE n # k
    BY <1>3, <1>4, <1>6, <2>2, NoticeRests DEF MailInv, MailTypes
  <2>3. QED
    BY <2>1, <2>2
<1>8. QED
  BY <1>5, <1>7 DEF MailInv

LEMMA NextDispatch ==
    ASSUME MailInv, NEW k \in Notices, DispatchNotice(k)
    PROVE  MailInv'
<1>1. PICK m : m = [mail |-> k, retries |-> 0, copy |-> 0]
  OBVIOUS
<1>2. m \in MailMessage /\ m.mail = k
  BY <1>1, NotificationsAssumption DEF MailMessage
<1>3. /\ k \in publishing /\ publishing' = publishing \ {k}
      /\ mailQueue' = mailQueue \cup {m}
      /\ UNCHANGED <<notice, mailer, mails, resends, troubles>>
  BY <1>1 DEF DispatchNotice
<1>4. MailTypes'
  BY <1>2, <1>3 DEF MailInv, MailTypes
<1>5. /\ \A n : Hands(n)' = Hands(n)
      /\ \A n : n # k => Waiting(n)' = Waiting(n)
      /\ Waiting(k)' = Waiting(k) \cup {m}
  BY <1>2, <1>3 DEF Waiting, Hands
<1>6. ASSUME NEW n \in Notices PROVE NoticeInv(n)'
  <2>1. CASE n = k
    <3>1. SentTells(k)'
      BY <1>3, <1>5 DEF MailInv, NoticeInv, SentTells
    <3>2. HasTask(k)'
      BY <1>5 DEF HasTask
    <3>3. ASSUME troubles = 0, resends = 0 PROVE OneTask(k)'
      <4>1. OneTask(k) /\ HasTask(k)
        BY <1>3, <3>3 DEF MailInv, NoticeInv, HasTask
      <4>2. Waiting(k)' = {m} /\ Hands(k)' = {} /\ k \notin publishing'
        BY <1>3, <1>5, <4>1 DEF OneTask
      <4>3. QED
        BY <1>3, <4>1, <4>2 DEF OneTask
    <3>4. QED
      BY <1>3, <2>1, <3>1, <3>2, <3>3 DEF NoticeInv
  <2>2. CASE n # k
    BY <1>3, <1>5, <2>2, NoticeRests DEF MailInv, MailTypes
  <2>3. QED
    BY <2>1, <2>2
<1>7. QED
  BY <1>4, <1>6 DEF MailInv

\* Once there has been a trouble, only SentTells is left to show.
LEMMA NextDispatchFails ==
    ASSUME MailInv, NEW k \in Notices, DispatchNoticeFails(k)
    PROVE  MailInv'
<1>1. /\ publishing' = publishing \ {k} /\ troubles < MaxTroubles /\ troubles' = troubles + 1
      /\ UNCHANGED <<notice, mailQueue, mailer, mails, resends>>
  BY DEF DispatchNoticeFails, Trouble
<1>2. troubles' \in 0 .. MaxTroubles /\ troubles' # 0
  BY <1>1, NotificationsAssumption DEF MailInv, MailTypes
<1>3. MailTypes'
  BY <1>1, <1>2 DEF MailInv, MailTypes
<1>4. \A n : Hands(n)' = Hands(n)
  BY <1>1 DEF Hands
<1>5. \A n \in Notices : SentTells(n)'
  BY <1>1, <1>4 DEF MailInv, NoticeInv, SentTells
<1>6. QED
  BY <1>2, <1>3, <1>5 DEF MailInv, NoticeInv

LEMMA NextResend ==
    ASSUME MailInv, NEW k \in Notices, RetryNotice(k)
    PROVE  MailInv'
<1>1. PICK m : m = [mail |-> k, retries |-> 0, copy |-> resends']
  OBVIOUS
<1>2. /\ notice[k].status # "NONE" /\ resends < MaxResends /\ resends' = resends + 1
      /\ mailQueue' = mailQueue \cup {m}
      /\ UNCHANGED <<notice, publishing, mailer, mails, troubles>>
  BY <1>1 DEF RetryNotice
<1>3. resends' \in 0 .. MaxResends /\ resends' # 0
  BY <1>2, NotificationsAssumption DEF MailInv, MailTypes
<1>4. m \in MailMessage /\ m.mail = k
  BY <1>1, <1>3, NotificationsAssumption DEF MailMessage
<1>5. MailTypes'
  BY <1>2, <1>3, <1>4 DEF MailInv, MailTypes
<1>6. \A n : Hands(n)' = Hands(n) /\ Waiting(n) \subseteq Waiting(n)'
  BY <1>2 DEF Hands, Waiting
<1>7. \A n \in Notices : SentTells(n)' /\ (HasTask(n) => HasTask(n)')
  BY <1>2, <1>6 DEF MailInv, NoticeInv, SentTells, HasTask
<1>8. QED
  BY <1>2, <1>3, <1>5, <1>7 DEF MailInv, NoticeInv

-----------------------------------------------------------------------------
(* The workers.                                                             *)

\* What the worker is not about rests.
LEMMA OthersRest ==
    ASSUME MailInv, NEW n \in Notices, NEW w \in Mailers, mailer[w].mail # n,
           NEW to, to.mail # n, mailer' = [mailer EXCEPT ![w] = to],
           publishing' = publishing, resends' = resends,
           notice'[n] = notice[n], mails'[n] = mails[n], Waiting(n)' = Waiting(n),
           troubles' = troubles \/ troubles' = troubles + 1
    PROVE  NoticeInv(n)'
<1>1. MailTypes /\ NoticeInv(n)
  BY DEF MailInv
<1>2. mailer'[w] = to /\ \A v \in Mailers : v # w => mailer'[v] = mailer[v]
  BY <1>1 DEF MailTypes
<1>3. Hands(n)' = Hands(n) /\ \A v \in Hands(n) : v \in Mailers /\ v # w
  BY <1>2 DEF Hands
<1>4. \A v \in Hands(n) : mailer'[v] = mailer[v]
  BY <1>2, <1>3
<1>5. resends' \in Nat /\ resends' >= resends /\ troubles' \in Nat /\ troubles' >= troubles
  BY <1>1 DEF MailTypes
<1>6. QED
  BY <1>1, <1>3, <1>4, <1>5, NoticeRests

\* A worker at work has a task.
LEMMA TaskOf ==
    ASSUME MailInv, NEW w \in Mailers, mailer[w].step # "idle"
    PROVE  /\ mailer[w] \in TaskRecord /\ mailer[w].mail \in Notices
           /\ mailer[w].retries \in 0 .. MaxMailRetries /\ w \in Hands(mailer[w].mail)
<1>1. mailer[w] \in TaskRecord
  BY DEF MailInv, MailTypes, FreeMailer
<1>2. QED
  BY <1>1 DEF TaskRecord, Hands

LEMMA FreeFacts == FreeMailer.mail = Nothing /\ FreeMailer.step = "idle"
BY DEF FreeMailer

\* An idle worker has none.
LEMMA IdleIsFree ==
    ASSUME MailInv, NEW w \in Mailers, mailer[w].step = "idle"
    PROVE  mailer[w] = FreeMailer /\ \A n \in Notices : w \notin Hands(n)
<1>1. mailer[w] = FreeMailer
  BY DEF MailInv, MailTypes, TaskRecord
<1>2. QED
  BY <1>1, FreeFacts, NotificationsAssumption DEF Hands

LEMMA NextTake ==
    ASSUME MailInv, NEW w \in Mailers, TakeNotice(w)
    PROVE  MailInv'
<1>1. PICK m \in mailQueue :
         /\ m.mail \in Notices
         /\ mailQueue' = mailQueue \ {m}
         /\ mailer[w].step = "idle"
         /\ mailer' = [mailer EXCEPT ![w] =
                IF notice[m.mail].status = "SENT" THEN FreeMailer ELSE Working(w, m, "send")]
         /\ UNCHANGED <<notice, mails, troubles, publishing, resends>>
  BY DEF TakeNotice, MailerAt
<1>2. PICK k : k = m.mail
  OBVIOUS
<1>3. PICK to : to = IF notice[k].status = "SENT" THEN FreeMailer ELSE Working(w, m, "send")
  OBVIOUS
<1>4. mailer' = [mailer EXCEPT ![w] = to] /\ k \in Notices
  BY <1>1, <1>2, <1>3
<1>5. mailer[w] = FreeMailer /\ \A n \in Notices : w \notin Hands(n)
  BY <1>1, IdleIsFree
<1>6. /\ notice[k].status = "SENT" => to = FreeMailer
      /\ notice[k].status # "SENT" => to \in TaskRecord /\ to.mail = k /\ to.step = "send"
  <2>1. m \in MailMessage
    BY DEF MailInv, MailTypes
  <2>2. QED
    BY <1>2, <1>3, <1>4, <2>1 DEF Working, MailMessage, TaskRecord
<1>7. MailTypes'
  BY <1>1, <1>4, <1>6 DEF MailInv, MailTypes
<1>8. /\ \A n : n # k => Waiting(n)' = Waiting(n)
      /\ Waiting(k)' = Waiting(k) \ {m} /\ m \in Waiting(k)
  BY <1>1, <1>2 DEF Waiting
<1>9. ASSUME NEW n \in Notices, n # k PROVE NoticeInv(n)'
  <2>1. mailer[w].mail # n /\ to.mail # n
    BY <1>5, <1>6, <1>9, FreeFacts, NotificationsAssumption
  <2>2. /\ notice'[n] = notice[n] /\ mails'[n] = mails[n] /\ Waiting(n)' = Waiting(n)
        /\ publishing' = publishing /\ resends' = resends /\ troubles' = troubles
    BY <1>1, <1>8, <1>9
  <2>3. QED
    BY <1>4, <2>1, <2>2, OthersRest
<1>10. NoticeInv(k)
  BY <1>4 DEF MailInv
<1>11. NoticeInv(k)'
  <2>1. CASE notice[k].status = "SENT"
    <3>1. mailer' = mailer
      BY <1>4, <1>5, <1>6, <2>1 DEF MailInv, MailTypes
    <3>2. Hands(k)' = Hands(k)
      BY <3>1 DEF Hands
    <3>3. SentTells(k)'
      BY <1>1, <1>10, <3>1, <3>2 DEF NoticeInv, SentTells
    <3>4. HasTask(k)
      BY <1>8 DEF HasTask
    <3>5. ~(troubles = 0 /\ resends = 0)
      BY <1>10, <2>1, <3>4 DEF NoticeInv, OneTask
    <3>6. QED
      BY <1>1, <2>1, <3>3, <3>5 DEF NoticeInv
  <2>2. CASE notice[k].status # "SENT"
    <3>1. /\ Hands(k)' = Hands(k) \cup {w} /\ mailer'[w] = to
          /\ \A v \in Hands(k) : mailer'[v] = mailer[v]
      <4>1. MailTypes
        BY DEF MailInv
      <4>2. \A v \in Hands(k) : v \in Mailers /\ v # w
        BY <1>4, <1>5 DEF Hands
      <4>3. to.mail = k
        BY <1>6, <2>2
      <4>4. QED
        BY <1>4, <4>1, <4>2, <4>3, HandsChange
    <3>2. SentTells(k)'
      BY <1>1, <1>6, <1>10, <2>2, <3>1 DEF NoticeInv, SentTells
    <3>3. HasTask(k)'
      BY <3>1 DEF HasTask
    <3>4. ASSUME troubles = 0, resends = 0 PROVE OneTask(k)'
      <4>1. OneTask(k) /\ HasTask(k)
        BY <1>8, <1>10, <3>4 DEF NoticeInv, HasTask
      <4>2. Waiting(k)' = {} /\ Hands(k)' = {w} /\ k \notin publishing'
        BY <1>1, <1>8, <3>1, <4>1 DEF OneTask
      <4>3. mails'[k] = 0
        BY <1>1, <1>8, <4>1 DEF OneTask
      <4>4. QED
        BY <1>1, <1>6, <2>2, <3>1, <4>1, <4>2, <4>3 DEF OneTask
    <3>5. QED
      BY <1>1, <3>2, <3>3, <3>4 DEF NoticeInv
  <2>3. QED
    BY <2>1, <2>2
<1>12. QED
  BY <1>7, <1>9, <1>11 DEF MailInv

\* The only task of a notification is where its worker is.
LEMMA OnlyTask ==
    ASSUME NEW k \in Notices, OneTask(k), NEW w \in Hands(k)
    PROVE  /\ Hands(k) = {w} /\ Waiting(k) = {} /\ k \notin publishing
           /\ notice[k].status = "PENDING"
           /\ mails[k] = (IF mailer[w].step = "sent" THEN 1 ELSE 0)
BY DEF OneTask, HasTask

\* A worker goes on with its task: nothing but its mail's row and count changes.
MailerGoesOn(w, k, to) ==
    /\ mailer[w].step # "idle" /\ k = mailer[w].mail
    /\ to \in TaskRecord /\ to.mail = k /\ mailer' = [mailer EXCEPT ![w] = to]
    /\ publishing' = publishing /\ mailQueue' = mailQueue /\ resends' = resends
    /\ troubles' \in 0 .. MaxTroubles /\ (troubles' = troubles \/ troubles' = troubles + 1)
    /\ notice' \in [Notices -> NotificationRow] /\ mails' \in [Notices \cup Letters -> Nat]
    /\ \A n \in Notices : n # k => notice'[n] = notice[n] /\ mails'[n] = mails[n]
    /\ notice'[k].status = notice[k].status
    /\ notice'[k].status = "FAILED" => notice'[k].retry_count > 0
    /\ mails'[k] >= mails[k] /\ (to.step = "sent" => mails'[k] > 0)
    /\ troubles' = 0 /\ mails[k] = (IF mailer[w].step = "sent" THEN 1 ELSE 0) =>
           mails'[k] = (IF to.step = "sent" THEN 1 ELSE 0)

LEMMA TaskGoesOn ==
    ASSUME MailInv, NEW w \in Mailers, NEW k, NEW to, MailerGoesOn(w, k, to)
    PROVE  MailInv'
<1> USE DEF MailerGoesOn
<1>1. /\ k \in Notices /\ w \in Hands(k) /\ NoticeInv(k) /\ MailTypes
      /\ mails[k] \in Nat /\ mails'[k] \in Nat
  BY TaskOf DEF MailInv, MailTypes
<1>2. MailTypes'
  BY <1>1 DEF MailTypes
<1>3. /\ mailer'[w] = to /\ \A v \in Mailers : v # w => mailer'[v] = mailer[v]
      /\ \A n : Waiting(n)' = Waiting(n)
  BY <1>1 DEF MailTypes, Waiting
<1>4. Hands(k)' = Hands(k)
  BY <1>1, <1>3 DEF Hands
<1>5. ASSUME NEW n \in Notices, n # k PROVE NoticeInv(n)'
  <2>1. mailer[w].mail # n /\ to.mail # n
    BY <1>5
  <2>2. /\ notice'[n] = notice[n] /\ mails'[n] = mails[n] /\ Waiting(n)' = Waiting(n)
        /\ publishing' = publishing /\ resends' = resends
    BY <1>3, <1>5
  <2>3. QED
    BY <2>1, <2>2, OthersRest
<1>6. SentTells(k)'
  <2>1. notice'[k].status = "SENT" => mails'[k] > 0
    BY <1>1 DEF NoticeInv, SentTells
  <2>2. ASSUME NEW v \in Hands(k), mailer'[v].step = "sent" PROVE mails'[k] > 0
    <3>1. CASE v = w
      BY <1>3, <2>2, <3>1
    <3>2. CASE v # w
      <4>1. mailer[v].step = "sent"
        BY <1>3, <2>2, <3>2 DEF Hands
      <4>2. QED
        BY <1>1, <4>1 DEF NoticeInv, SentTells
    <3>3. QED
      BY <3>1, <3>2
  <2>3. QED
    BY <1>4, <2>1, <2>2 DEF SentTells
<1>7. HasTask(k)'
  BY <1>1, <1>4 DEF HasTask
<1>8. ASSUME troubles' = 0, resends' = 0 PROVE OneTask(k)'
  <2>1. OneTask(k)
    <3>1. troubles = 0 /\ resends = 0
      BY <1>1, <1>8 DEF MailTypes
    <3>2. QED
      BY <1>1, <3>1 DEF NoticeInv
  <2>2. /\ Hands(k) = {w} /\ Waiting(k) = {} /\ k \notin publishing
        /\ notice[k].status = "PENDING"
        /\ mails[k] = (IF mailer[w].step = "sent" THEN 1 ELSE 0)
    BY <1>1, <2>1, OnlyTask
  <2>3. mails'[k] = (IF to.step = "sent" THEN 1 ELSE 0)
    BY <1>8, <2>2
  <2>4. QED
    BY <1>3, <1>4, <2>2, <2>3 DEF OneTask
<1>9. NoticeInv(k)'
  BY <1>6, <1>7, <1>8 DEF NoticeInv
<1>10. QED
  BY <1>2, <1>5, <1>9 DEF MailInv

\* What a task's record becomes with a new step.
LEMMA NextSend ==
    ASSUME MailInv, NEW w \in Mailers, SendNotice(w) \/ SendNoticeFails(w) \/ MarkSentFails(w)
    PROVE  MailInv'
<1>1. PICK k : k = mailer[w].mail
  OBVIOUS
<1>2. PICK st \in {"sent", "raised"} :
         /\ mailer[w].step \in {"send", "sent"}
         /\ mailer' = [mailer EXCEPT ![w] = [mailer[w] EXCEPT !.step = st]]
         /\ UNCHANGED <<notice, publishing, mailQueue, resends>>
         /\ \/ /\ st = "sent" /\ mailer[w].step = "send"
               /\ mails' = [mails EXCEPT ![k] = @ + 1] /\ troubles' = troubles
            \/ /\ st = "raised" /\ mailer[w].step = "send"
               /\ mails' = mails /\ troubles' = troubles
            \/ /\ st = "raised" /\ mails' = mails
               /\ troubles < MaxTroubles /\ troubles' = troubles + 1
  BY <1>1 DEF SendNotice, SendNoticeFails, MarkSentFails, MailerAt, Trouble, N
<1>3. mailer[w].step # "idle"
  BY <1>2
<1>4. /\ mailer[w] \in TaskRecord /\ k \in Notices /\ mails[k] \in Nat /\ troubles \in Nat
      /\ mails \in [Notices \cup Letters -> Nat] /\ notice \in [Notices -> NotificationRow]
      /\ notice[k].status = "FAILED" => notice[k].retry_count > 0
  BY <1>1, <1>3, TaskOf DEF MailInv, MailTypes, NoticeInv, SentTells
<1>5. PICK to : to = [mailer[w] EXCEPT !.step = st]
  OBVIOUS
<1>6. to \in TaskRecord /\ to.mail = k /\ to.step = st
  BY <1>1, <1>4, <1>5 DEF TaskRecord
<1>7. mailer' = [mailer EXCEPT ![w] = to]
  BY <1>2, <1>5
<1>8. /\ troubles' \in 0 .. MaxTroubles
      /\ troubles' = troubles \/ troubles' = troubles + 1
      /\ troubles' = 0 => mailer[w].step = "send"
  BY <1>2, NotificationsAssumption DEF MailInv, MailTypes
<1>9. /\ mails' \in [Notices \cup Letters -> Nat]
      /\ \A n \in Notices : n # k => mails'[n] = mails[n]
      /\ mails'[k] >= mails[k]
      /\ st = "sent" => mails'[k] = mails[k] + 1
      /\ st = "raised" => mails'[k] = mails[k]
  <2>1. CASE mails' = mails /\ st = "raised"
    BY <1>4, <2>1
  <2>2. CASE mails' = [mails EXCEPT ![k] = @ + 1] /\ st = "sent"
    BY <1>4, <2>2
  <2>3. QED
    BY <1>2, <2>1, <2>2
<1>10. to.step = "sent" => mails'[k] > 0
  BY <1>4, <1>6, <1>9
<1>11. troubles' = 0 /\ mails[k] = (IF mailer[w].step = "sent" THEN 1 ELSE 0) =>
           mails'[k] = (IF to.step = "sent" THEN 1 ELSE 0)
  BY <1>4, <1>6, <1>8, <1>9
<1>12. /\ publishing' = publishing /\ mailQueue' = mailQueue /\ resends' = resends
       /\ notice' \in [Notices -> NotificationRow] /\ notice'[k].status = notice[k].status
       /\ notice'[k].status = "FAILED" => notice'[k].retry_count > 0
       /\ \A n \in Notices : n # k => notice'[n] = notice[n] /\ mails'[n] = mails[n]
  BY <1>2, <1>4, <1>9
<1>13. MailerGoesOn(w, k, to)
  BY <1>1, <1>3, <1>6, <1>7, <1>8, <1>9, <1>10, <1>11, <1>12, SMT DEF MailerGoesOn
<1>14. QED
  BY <1>13, TaskGoesOn

\* A worker ends its task: the others rest.
Ends(w, k) ==
    /\ mailer[w].step # "idle" /\ k = mailer[w].mail
    /\ mailer' = [mailer EXCEPT ![w] = FreeMailer]
    /\ publishing' = publishing /\ resends' = resends /\ mails' = mails
    /\ troubles' = troubles \/ troubles' = troubles + 1
    /\ \A n \in Notices : n # k => notice'[n] = notice[n] /\ Waiting(n)' = Waiting(n)

LEMMA TaskEnds ==
    ASSUME MailInv, NEW w \in Mailers, NEW k, Ends(w, k)
    PROVE  /\ \A n \in Notices : n # k => NoticeInv(n)'
           /\ Hands(k)' = Hands(k) \ {w} /\ w \in Hands(k) /\ k \in Notices
           /\ \A v \in Hands(k) : v # w => mailer'[v] = mailer[v]
           /\ mailer' \in [Mailers -> TaskRecord \cup {FreeMailer}]
<1> USE DEF Ends
<1>1. k \in Notices /\ w \in Hands(k) /\ MailTypes /\ FreeMailer.mail # k
  BY TaskOf, FreeFacts, NotificationsAssumption DEF MailInv
<1>2. mailer'[w] = FreeMailer /\ \A v \in Mailers : v # w => mailer'[v] = mailer[v]
  BY <1>1 DEF MailTypes
<1>3. Hands(k)' = Hands(k) \ {w} /\ \A v \in Hands(k) : v \in Mailers
  BY <1>1, <1>2 DEF Hands
<1>4. ASSUME NEW n \in Notices, n # k PROVE NoticeInv(n)'
  <2>1. mailer[w].mail # n /\ FreeMailer.mail # n
    BY <1>4, FreeFacts, NotificationsAssumption
  <2>2. notice'[n] = notice[n] /\ mails'[n] = mails[n] /\ Waiting(n)' = Waiting(n)
    BY <1>4
  <2>3. QED
    BY <2>1, <2>2, OthersRest
<1>5. mailer' \in [Mailers -> TaskRecord \cup {FreeMailer}]
  BY <1>1 DEF MailTypes
<1>6. QED
  BY <1>1, <1>2, <1>3, <1>4, <1>5

\* What is said of the other workers of a notification stays true.
LEMMA OthersTell ==
    ASSUME NEW k, NEW w, SentTells(k), Hands(k)' = Hands(k) \ {w}, mails' = mails,
           \A v \in Hands(k) : v # w => mailer'[v] = mailer[v]
    PROVE  \A v \in Hands(k)' : mailer'[v].step = "sent" => mails'[k] > 0
BY DEF SentTells

LEMMA NextMarkSent ==
    ASSUME MailInv, NEW w \in Mailers, MarkSent(w)
    PROVE  MailInv'
<1>1. PICK k, row : k = mailer[w].mail /\ row = [notice[k] EXCEPT !.status = "SENT"]
  OBVIOUS
<1>2. /\ mailer[w].step = "sent" /\ mailer' = [mailer EXCEPT ![w] = FreeMailer]
      /\ notice' = [notice EXCEPT ![k] = row]
      /\ publishing' = publishing /\ mailQueue' = mailQueue /\ mails' = mails
      /\ resends' = resends /\ troubles' = troubles
  BY <1>1 DEF MarkSent, MailerAt, N
<1>3. k \in Notices /\ w \in Hands(k) /\ NoticeInv(k) /\ MailTypes
  BY <1>1, <1>2, TaskOf DEF MailInv
<1>4. row \in NotificationRow /\ row.status = "SENT"
  BY <1>1, <1>3 DEF MailTypes, NotificationRow, NotificationStatus
<1>5. /\ notice' \in [Notices -> NotificationRow] /\ notice'[k] = row
      /\ \A n \in Notices : n # k => notice'[n] = notice[n]
  BY <1>2, <1>3, <1>4 DEF MailTypes
<1>6. \A n : Waiting(n)' = Waiting(n)
  BY <1>2 DEF Waiting
<1>7. /\ \A n \in Notices : n # k => NoticeInv(n)'
      /\ Hands(k)' = Hands(k) \ {w}
      /\ \A v \in Hands(k) : v # w => mailer'[v] = mailer[v]
      /\ mailer' \in [Mailers -> TaskRecord \cup {FreeMailer}]
  <2>1. Ends(w, k)
    BY <1>1, <1>2, <1>5, <1>6 DEF Ends
  <2>2. QED
    BY <2>1, TaskEnds
<1>8. MailTypes'
  BY <1>2, <1>3, <1>5, <1>7 DEF MailTypes
<1>9. mails[k] > 0 /\ SentTells(k)
  BY <1>2, <1>3 DEF NoticeInv, SentTells
<1>10. SentTells(k)'
  BY <1>2, <1>4, <1>5, <1>7, <1>9, OthersTell DEF SentTells
<1>11. ASSUME troubles' = 0, resends' = 0 PROVE OneTask(k)'
  <2>1. OneTask(k)
    BY <1>2, <1>3, <1>11 DEF NoticeInv
  <2>2. Hands(k) = {w} /\ Waiting(k) = {} /\ k \notin publishing /\ mails[k] = 1
    BY <1>2, <1>3, <2>1, OnlyTask
  <2>3. QED
    BY <1>2, <1>4, <1>5, <1>6, <1>7, <2>2 DEF OneTask, HasTask
<1>12. NoticeInv(k)'
  BY <1>4, <1>5, <1>10, <1>11 DEF NoticeInv
<1>13. QED
  BY <1>7, <1>8, <1>12 DEF MailInv

\* The exception handler with a retry left, and without one.
LEMMA NextFailure ==
    ASSUME MailInv, NEW w \in Mailers, RecordFailure(w)
    PROVE  MailInv'
<1>1. PICK k, st, row : /\ k = mailer[w].mail
                        /\ st = (IF NoRetryLeft(w) THEN "FAILED" ELSE notice[k].status)
                        /\ row = [notice[k] EXCEPT !.retry_count = mailer[w].retries + 1,
                                                   !.status = st]
  OBVIOUS
<1>2. /\ mailer[w].step = "raised"
      /\ mailer' = [mailer EXCEPT ![w] = IF NoRetryLeft(w) THEN FreeMailer
                                         ELSE [mailer[w] EXCEPT !.step = "retry"]]
      /\ publishing' = publishing /\ mailQueue' = mailQueue /\ mails' = mails
      /\ resends' = resends /\ troubles' = troubles
  BY DEF RecordFailure, MailerAt
<1>3. k \in Notices /\ w \in Hands(k) /\ NoticeInv(k) /\ MailTypes
      /\ mailer[w] \in TaskRecord /\ mailer[w].retries \in 0 .. MaxMailRetries
  BY <1>1, <1>2, TaskOf DEF MailInv
<1>4. notice' = [notice EXCEPT ![k] = row]
  <2>1. notice' = [notice EXCEPT ![k].retry_count = mailer[w].retries + 1,
                                 ![k].status = IF NoRetryLeft(w) THEN "FAILED" ELSE @]
    BY <1>1 DEF RecordFailure, N
  <2>2. notice[k] \in NotificationRow /\ notice \in [Notices -> NotificationRow]
    BY <1>3 DEF MailTypes
  <2>3. QED
    BY <1>1, <1>3, <2>1, <2>2 DEF NotificationRow
<1>5. /\ row \in NotificationRow /\ row.status = st /\ row.retry_count = mailer[w].retries + 1
      /\ row.retry_count > 0
  <2>1. /\ mailer[w].retries + 1 \in 0 .. MaxMailRetries + 1
        /\ mailer[w].retries + 1 > 0
    BY <1>3, NotificationsAssumption
  <2>2. notice[k] \in NotificationRow /\ st \in NotificationStatus \cup {"NONE"}
    BY <1>1, <1>3 DEF MailTypes, NotificationRow, NotificationStatus
  <2>3. QED
    BY <1>1, <2>1, <2>2 DEF NotificationRow
<1>6. /\ notice' \in [Notices -> NotificationRow] /\ notice'[k] = row
      /\ \A n \in Notices : n # k => notice'[n] = notice[n]
  BY <1>3, <1>4, <1>5 DEF MailTypes
<1>7. CASE ~NoRetryLeft(w)
  <2>1. PICK to : to = [mailer[w] EXCEPT !.step = "retry"]
    OBVIOUS
  <2>2. to \in TaskRecord /\ to.mail = k /\ to.step = "retry"
    BY <1>1, <1>3, <2>1 DEF TaskRecord
  <2>3. mailer' = [mailer EXCEPT ![w] = to]
    BY <1>2, <1>7, <2>1
  <2>4. /\ troubles' \in 0 .. MaxTroubles /\ mails' \in [Notices \cup Letters -> Nat]
        /\ mails[k] \in Nat
    BY <1>2, <1>3 DEF MailTypes
  <2>5. MailerGoesOn(w, k, to)
    <3>1. st = notice[k].status /\ notice'[k].status = notice[k].status
      BY <1>1, <1>5, <1>6, <1>7
    <3>2. notice'[k].status = "FAILED" => notice'[k].retry_count > 0
      BY <1>5, <1>6
    <3>3. \A n \in Notices : n # k => notice'[n] = notice[n] /\ mails'[n] = mails[n]
      BY <1>2, <1>6
    <3>4. mails'[k] = mails[k] /\ mails'[k] >= mails[k] /\ mailer[w].step = "raised"
      BY <1>2, <2>4
    <3>5. QED
      BY <1>1, <1>2, <1>6, <2>2, <2>3, <2>4, <3>1, <3>2, <3>3, <3>4 DEF MailerGoesOn
  <2>6. QED
    BY <2>5, TaskGoesOn
<1>8. CASE NoRetryLeft(w)
  <2>1. mailer' = [mailer EXCEPT ![w] = FreeMailer] /\ mailer[w].step # "idle"
    BY <1>2, <1>8
  <2>2. \A n : Waiting(n)' = Waiting(n)
    BY <1>2 DEF Waiting
  <2>3. /\ \A n \in Notices : n # k => NoticeInv(n)'
        /\ Hands(k)' = Hands(k) \ {w}
        /\ \A v \in Hands(k) : v # w => mailer'[v] = mailer[v]
        /\ mailer' \in [Mailers -> TaskRecord \cup {FreeMailer}]
    <3>1. Ends(w, k)
      BY <1>1, <1>2, <1>6, <2>1, <2>2 DEF Ends
    <3>2. QED
      BY <3>1, TaskEnds
  <2>4. MailTypes'
    BY <1>2, <1>3, <1>6, <2>3 DEF MailTypes
  <2>5. row.status = "FAILED" /\ row.retry_count = MaxMailRetries + 1
    BY <1>1, <1>3, <1>5, <1>8, NotificationsAssumption DEF NoRetryLeft
  <2>6. SentTells(k)'
    BY <1>2, <1>3, <1>5, <1>6, <2>3, <2>5, OthersTell DEF NoticeInv, SentTells
  <2>7. ASSUME troubles' = 0, resends' = 0 PROVE OneTask(k)'
    <3>1. OneTask(k)
      BY <1>2, <1>3, <2>7 DEF NoticeInv
    <3>2. Hands(k) = {w} /\ Waiting(k) = {} /\ k \notin publishing /\ mails[k] = 0
      BY <1>2, <1>3, <3>1, OnlyTask
    <3>3. QED
      BY <1>2, <1>6, <2>2, <2>3, <2>5, <3>2 DEF OneTask, HasTask
  <2>8. NoticeInv(k)'
    BY <1>6, <2>5, <2>6, <2>7 DEF NoticeInv
  <2>9. QED
    BY <2>3, <2>4, <2>8 DEF MailInv
<1>9. QED
  BY <1>7, <1>8

\* The retry is a message again.
LEMMA NextRetryMail ==
    ASSUME MailInv, NEW w \in Mailers, RetryMail(w), ~NoRetryLeft(w)
    PROVE  MailInv'
<1>1. PICK k, m : k = mailer[w].mail /\ m = [MailTask(w) EXCEPT !.retries = @ + 1]
  OBVIOUS
<1>2. /\ mailer[w].step = "retry" /\ mailer' = [mailer EXCEPT ![w] = FreeMailer]
      /\ mailQueue' = mailQueue \cup {m}
      /\ publishing' = publishing /\ notice' = notice /\ mails' = mails
      /\ resends' = resends /\ troubles' = troubles
  BY <1>1 DEF RetryMail, MailerAt
<1>3. /\ k \in Notices /\ w \in Hands(k) /\ NoticeInv(k) /\ MailTypes
      /\ mailer[w] \in TaskRecord /\ mailer[w].retries \in 0 .. MaxMailRetries
  BY <1>1, <1>2, TaskOf DEF MailInv
<1>4. m \in MailMessage /\ m.mail = k
  <2>1. mailer[w].retries + 1 \in 0 .. MaxMailRetries
    BY <1>3, NotificationsAssumption DEF NoRetryLeft
  <2>2. m = [mail |-> k, retries |-> mailer[w].retries + 1, copy |-> mailer[w].copy]
    BY <1>1 DEF MailTask, N
  <2>3. mailer[w].copy \in 0 .. MaxResends
    BY <1>3 DEF TaskRecord
  <2>4. QED
    BY <1>3, <2>1, <2>2, <2>3 DEF MailMessage
<1>5. (\A n : n # k => Waiting(n)' = Waiting(n)) /\ Waiting(k)' = Waiting(k) \cup {m}
  BY <1>2, <1>4 DEF Waiting
<1>6. /\ \A n \in Notices : n # k => NoticeInv(n)'
      /\ Hands(k)' = Hands(k) \ {w}
      /\ \A v \in Hands(k) : v # w => mailer'[v] = mailer[v]
      /\ mailer' \in [Mailers -> TaskRecord \cup {FreeMailer}]
  <2>1. Ends(w, k)
    BY <1>1, <1>2, <1>5 DEF Ends
  <2>2. QED
    BY <2>1, TaskEnds
<1>7. MailTypes'
  BY <1>2, <1>3, <1>4, <1>6 DEF MailTypes
<1>8. SentTells(k)'
  BY <1>2, <1>3, <1>6, OthersTell DEF NoticeInv, SentTells
<1>9. HasTask(k)'
  BY <1>5 DEF HasTask
<1>10. ASSUME troubles' = 0, resends' = 0 PROVE OneTask(k)'
  <2>1. OneTask(k)
    BY <1>2, <1>3, <1>10 DEF NoticeInv
  <2>2. /\ Hands(k) = {w} /\ Waiting(k) = {} /\ k \notin publishing /\ mails[k] = 0
        /\ notice[k].status = "PENDING"
    BY <1>2, <1>3, <2>1, OnlyTask
  <2>3. Hands(k)' = {} /\ Waiting(k)' = {m}
    BY <1>5, <1>6, <2>2
  <2>4. QED
    BY <1>2, <2>2, <2>3 DEF OneTask
<1>11. NoticeInv(k)'
  BY <1>8, <1>9, <1>10 DEF NoticeInv
<1>12. QED
  BY <1>6, <1>7, <1>11 DEF MailInv

\* A worker that dies is a trouble.
LEMMA NextDies ==
    ASSUME MailInv, NEW w \in Mailers, MailerDies(w)
    PROVE  MailInv'
<1>1. PICK k : k = mailer[w].mail
  OBVIOUS
<1>2. /\ mailer[w].step # "idle" /\ mailer' = [mailer EXCEPT ![w] = FreeMailer]
      /\ publishing' = publishing /\ mailQueue' = mailQueue /\ notice' = notice
      /\ mails' = mails /\ resends' = resends
      /\ troubles < MaxTroubles /\ troubles' = troubles + 1
  BY DEF MailerDies, MailerAt, Trouble
<1>3. \A n : Waiting(n)' = Waiting(n)
  BY <1>2 DEF Waiting
<1>4. /\ \A n \in Notices : n # k => NoticeInv(n)'
      /\ Hands(k)' = Hands(k) \ {w} /\ k \in Notices
      /\ \A v \in Hands(k) : v # w => mailer'[v] = mailer[v]
      /\ mailer' \in [Mailers -> TaskRecord \cup {FreeMailer}]
  <2>1. Ends(w, k)
    BY <1>1, <1>2, <1>3 DEF Ends
  <2>2. QED
    BY <2>1, TaskEnds
<1>5. troubles' \in 0 .. MaxTroubles /\ troubles' # 0
  BY <1>2, NotificationsAssumption DEF MailInv, MailTypes
<1>6. MailTypes'
  BY <1>2, <1>4, <1>5 DEF MailInv, MailTypes
<1>7. SentTells(k)
  BY <1>4 DEF MailInv, NoticeInv
<1>8. SentTells(k)'
  BY <1>2, <1>4, <1>7, OthersTell DEF SentTells
<1>9. NoticeInv(k)'
  BY <1>5, <1>8 DEF NoticeInv
<1>10. QED
  BY <1>4, <1>6, <1>9 DEF MailInv

\* Letters have no notification.
LEMMA NextLetter ==
    ASSUME MailInv, NEW w \in Mailers, SendLetter(w) \/ SendLetterFails(w)
    PROVE  MailInv'
<1>1. PICK m \in mailQueue, new \in {FALSE, TRUE} :
         /\ m.mail \in Letters /\ mailer[w].step = "idle"
         /\ mailQueue' = (mailQueue \ {m}) \cup
                         (IF new THEN {[m EXCEPT !.retries = @ + 1]} ELSE {})
         /\ new => m.retries < MaxMailRetries
         /\ mailer' = [mailer EXCEPT ![w] = FreeMailer]
         /\ mails' = mails \/ mails' = [mails EXCEPT ![m.mail] = @ + 1]
         /\ publishing' = publishing /\ notice' = notice
         /\ resends' = resends /\ troubles' = troubles
  <2>1. CASE SendLetter(w)
    <3>1. PICK m \in mailQueue :
             /\ m.mail \in Letters /\ mailer[w].step = "idle"
             /\ mailQueue' = mailQueue \ {m}
             /\ mailer' = [mailer EXCEPT ![w] = FreeMailer]
             /\ mails' = [mails EXCEPT ![m.mail] = @ + 1]
             /\ publishing' = publishing /\ notice' = notice
             /\ resends' = resends /\ troubles' = troubles
      BY <2>1 DEF SendLetter, MailerAt
    <3>2. mailQueue' = (mailQueue \ {m}) \cup {}
      BY <3>1
    <3>3. WITNESS m \in mailQueue, FALSE \in {FALSE, TRUE}
    <3>4. QED
      BY <3>1, <3>2
  <2>2. CASE SendLetterFails(w)
    <3>1. PICK m \in mailQueue :
             /\ m.mail \in Letters /\ mailer[w].step = "idle"
             /\ mailQueue' = (mailQueue \ {m}) \cup
                    (IF m.retries < MaxMailRetries THEN {[m EXCEPT !.retries = @ + 1]} ELSE {})
             /\ mailer' = [mailer EXCEPT ![w] = FreeMailer]
             /\ mails' = mails
             /\ publishing' = publishing /\ notice' = notice
             /\ resends' = resends /\ troubles' = troubles
      BY <2>2 DEF SendLetterFails, MailerAt
    <3>2. PICK new \in {FALSE, TRUE} : new <=> m.retries < MaxMailRetries
      OBVIOUS
    <3>3. QED
      BY <3>1, <3>2
  <2>3. QED
    BY <2>1, <2>2
<1>2. /\ m \in MailMessage /\ MailTypes /\ m.mail \notin Notices
  BY <1>1, NotificationsAssumption DEF MailInv, MailTypes
<1>3. PICK k : k = [m EXCEPT !.retries = @ + 1]
  OBVIOUS
<1>4. k.mail = m.mail /\ (new => k \in MailMessage)
  <2>1. new => m.retries + 1 \in 0 .. MaxMailRetries
    BY <1>1, <1>2, NotificationsAssumption DEF MailMessage
  <2>2. QED
    BY <1>2, <1>3, <2>1 DEF MailMessage
<1>5. mailQueue' = (mailQueue \ {m}) \cup (IF new THEN {k} ELSE {})
  BY <1>1, <1>3
<1>6. mailer[w] = FreeMailer
  BY <1>1, IdleIsFree
<1>7. mailer' = mailer
  BY <1>1, <1>2, <1>6 DEF MailTypes
<1>8. /\ mails' \in [Notices \cup Letters -> Nat]
      /\ \A n \in Notices : mails'[n] = mails[n]
  <2>1. CASE mails' = mails
    BY <1>2, <2>1 DEF MailTypes
  <2>2. CASE mails' = [mails EXCEPT ![m.mail] = @ + 1]
    <3>1. m.mail \in Notices \cup Letters /\ mails[m.mail] + 1 \in Nat
      BY <1>1, <1>2 DEF MailTypes
    <3>2. QED
      BY <1>2, <2>2, <3>1 DEF MailTypes
  <2>3. QED
    BY <1>1, <2>1, <2>2
<1>9. MailTypes'
  BY <1>1, <1>2, <1>4, <1>5, <1>7, <1>8 DEF MailTypes
<1>10. \A n \in Notices : Waiting(n)' = Waiting(n)
  BY <1>2, <1>4, <1>5 DEF Waiting
<1>11. \A n : Hands(n)' = Hands(n)
  BY <1>7 DEF Hands
<1>12. ASSUME NEW n \in Notices PROVE NoticeInv(n)'
  <2>1. resends' \in Nat /\ resends' >= resends /\ troubles' \in Nat /\ troubles' >= troubles
    BY <1>1, <1>2 DEF MailTypes
  <2>2. /\ NoticeInv(n) /\ notice'[n] = notice[n] /\ mails'[n] = mails[n]
        /\ Waiting(n)' = Waiting(n) /\ Hands(n)' = Hands(n)
        /\ n \in publishing' <=> n \in publishing
        /\ \A v \in Hands(n) : mailer'[v] = mailer[v]
    BY <1>1, <1>7, <1>8, <1>10, <1>11 DEF MailInv
  <2>3. QED
    BY <1>2, <2>1, <2>2, NoticeRests
<1>13. QED
  BY <1>9, <1>12 DEF MailInv

\* A task is retried only while it has a retry left.
RetryInv == \A w \in Mailers : mailer[w].step = "retry" => ~NoRetryLeft(w)

LEMMA RetryKeeps ==
    ASSUME MailTypes, RetryInv, NEW w \in Mailers, NEW to,
           mailer' = [mailer EXCEPT ![w] = to],
           to.step = "retry" => ~(to.retries >= MaxMailRetries)
    PROVE  RetryInv'
<1>1. mailer'[w] = to /\ \A v \in Mailers : v # w => mailer'[v] = mailer[v]
  BY DEF MailTypes
<1>2. QED
  BY <1>1 DEF RetryInv, NoRetryLeft

LEMMA NextRetry ==
    ASSUME MailInv, RetryInv, [NotificationNext]_notificationVars
    PROVE  RetryInv'
<1>0. MailTypes
  BY DEF MailInv
<1>1. ASSUME mailer' = mailer PROVE RetryInv'
  BY <1>1 DEF RetryInv, NoRetryLeft
<1>2. ASSUME NEW w \in Mailers, MailStep(w) \/ MarkSentFails(w) \/ MailerDies(w) PROVE RetryInv'
  <2>1. ASSUME mailer' = [mailer EXCEPT ![w] = FreeMailer] PROVE RetryInv'
    <3>1. FreeMailer.step # "retry"
      BY FreeFacts
    <3>2. QED
      BY <1>0, <2>1, <3>1, RetryKeeps
  <2>2. CASE TakeNotice(w)
    <3>1. PICK m \in mailQueue :
             mailer' = [mailer EXCEPT ![w] = IF notice[m.mail].status = "SENT" THEN FreeMailer
                                             ELSE Working(w, m, "send")]
      BY <2>2 DEF TakeNotice, MailerAt
    <3>2. PICK to : to = Working(w, m, "send")
      OBVIOUS
    <3>3. to.step # "retry"
      BY <3>2 DEF Working
    <3>4. mailer' = [mailer EXCEPT ![w] = FreeMailer] \/ mailer' = [mailer EXCEPT ![w] = to]
      BY <3>1, <3>2
    <3>5. ASSUME mailer' = [mailer EXCEPT ![w] = to] PROVE RetryInv'
      BY <1>0, <3>3, <3>5, RetryKeeps
    <3>6. QED
      BY <2>1, <3>4, <3>5
  <2>3. CASE SendNotice(w) \/ SendNoticeFails(w) \/ MarkSentFails(w)
    <3>1. PICK st \in {"sent", "raised"} :
             /\ mailer[w].step # "idle"
             /\ mailer' = [mailer EXCEPT ![w] = [mailer[w] EXCEPT !.step = st]]
      BY <2>3 DEF SendNotice, SendNoticeFails, MarkSentFails, MailerAt
    <3>2. PICK to : to = [mailer[w] EXCEPT !.step = st]
      OBVIOUS
    <3>3. to.step # "retry"
      BY <3>1, <3>2, TaskOf DEF TaskRecord
    <3>4. QED
      BY <1>0, <3>1, <3>2, <3>3, RetryKeeps
  <2>4. CASE RecordFailure(w)
    <3>1. /\ mailer[w].step = "raised"
          /\ mailer' = [mailer EXCEPT ![w] = IF NoRetryLeft(w) THEN FreeMailer
                                             ELSE [mailer[w] EXCEPT !.step = "retry"]]
      BY <2>4 DEF RecordFailure, MailerAt
    <3>2. PICK to : to = [mailer[w] EXCEPT !.step = "retry"]
      OBVIOUS
    <3>3. to.retries = mailer[w].retries
      BY <3>1, <3>2, TaskOf DEF TaskRecord
    <3>4. ASSUME ~NoRetryLeft(w) PROVE RetryInv'
      <4>1. mailer' = [mailer EXCEPT ![w] = to]
        BY <3>1, <3>2, <3>4
      <4>2. ~(to.retries >= MaxMailRetries)
        BY <3>3, <3>4 DEF NoRetryLeft
      <4>3. QED
        BY <1>0, <4>1, <4>2, RetryKeeps
    <3>5. QED
      BY <2>1, <3>1, <3>4
  <2>5. CASE MarkSent(w) \/ RetryMail(w) \/ MailerDies(w) \/ SendLetter(w) \/ SendLetterFails(w)
    <3>1. mailer' = [mailer EXCEPT ![w] = FreeMailer]
      BY <2>5 DEF MarkSent, RetryMail, MailerDies, SendLetter, SendLetterFails, MailerAt
    <3>2. QED
      BY <2>1, <3>1
  <2>6. QED
    BY <1>2, <2>2, <2>3, <2>4, <2>5 DEF MailStep
<1>3. ASSUME NEW n \in Notices,
             \/ HandleEvent(n) \/ DispatchNotice(n) \/ DispatchNoticeFails(n) \/ RetryNotice(n)
      PROVE  mailer' = mailer
  BY <1>3 DEF HandleEvent, DispatchNotice, DispatchNoticeFails, RetryNotice
<1>4. AllMailed \/ UNCHANGED notificationVars => mailer' = mailer
  BY DEF AllMailed, notificationVars
<1>5. QED
  BY <1>1, <1>2, <1>3, <1>4 DEF NotificationNext

LEMMA NextMail ==
    ASSUME MailInv, RetryInv, [NotificationNext]_notificationVars
    PROVE  MailInv'
<1>1. ASSUME UNCHANGED notificationVars PROVE MailInv'
  <2>1. /\ notice' = notice /\ publishing' = publishing /\ mailQueue' = mailQueue
        /\ mailer' = mailer /\ mails' = mails /\ resends' = resends /\ troubles' = troubles
    BY <1>1 DEF notificationVars
  <2>2. \A n : Waiting(n)' = Waiting(n) /\ Hands(n)' = Hands(n)
    BY <2>1 DEF Waiting, Hands
  <2>3. MailTypes'
    BY <2>1 DEF MailInv, MailTypes
  <2>4. QED
    BY <2>1, <2>2, <2>3 DEF MailInv, NoticeInv, SentTells, OneTask, HasTask
<1>2. ASSUME NEW n \in Notices,
             \/ HandleEvent(n) \/ DispatchNotice(n) \/ DispatchNoticeFails(n) \/ RetryNotice(n)
      PROVE  MailInv'
  BY <1>2, NextHandle, NextDispatch, NextDispatchFails, NextResend
<1>3. ASSUME NEW w \in Mailers, MailStep(w) \/ MarkSentFails(w) \/ MailerDies(w) PROVE MailInv'
  <2>1. RetryMail(w) => ~NoRetryLeft(w)
    BY DEF RetryMail, MailerAt, RetryInv
  <2>2. QED
    BY <1>3, <2>1, NextTake, NextSend, NextMarkSent, NextFailure, NextRetryMail, NextDies,
       NextLetter DEF MailStep
<1>4. AllMailed => UNCHANGED notificationVars
  BY DEF AllMailed
<1>5. QED
  BY <1>1, <1>2, <1>3, <1>4 DEF NotificationNext

LEMMA MailBegins == NotificationInit => MailInv /\ RetryInv
<1> SUFFICES ASSUME NotificationInit PROVE MailInv /\ RetryInv
  OBVIOUS
<1>1. /\ \A n \in Notices : notice[n] = [status |-> "NONE", retry_count |-> 0]
      /\ \A w \in Mailers : mailer[w] = FreeMailer
      /\ \A m \in mailQueue : m.mail \in Letters
      /\ publishing = {} /\ resends = 0 /\ troubles = 0
      /\ \A n \in Notices : mails[n] = 0
  BY DEF NotificationInit
<1>2. MailTypes
  <2>1. notice \in [Notices -> NotificationRow]
    BY NotificationsAssumption DEF NotificationInit, NotificationRow, NotificationStatus
  <2>2. mailQueue \subseteq MailMessage
    BY NotificationsAssumption DEF NotificationInit, MailMessage
  <2>3. mailer \in [Mailers -> TaskRecord \cup {FreeMailer}]
    BY DEF NotificationInit
  <2>4. mails \in [Notices \cup Letters -> Nat]
    BY DEF NotificationInit
  <2>5. QED
    BY <1>1, <2>1, <2>2, <2>3, <2>4, NotificationsAssumption DEF MailTypes
<1>3. ASSUME NEW n \in Notices PROVE NoticeInv(n)
  <2>1. Waiting(n) = {}
    BY <1>1, NotificationsAssumption DEF Waiting
  <2>2. Hands(n) = {}
    BY <1>1, FreeFacts, NotificationsAssumption DEF Hands
  <2>3. notice[n].status = "NONE" /\ mails[n] = 0
    BY <1>1
  <2>4. QED
    BY <1>1, <2>1, <2>2, <2>3 DEF NoticeInv, SentTells, OneTask, HasTask
<1>4. RetryInv
  BY <1>1, FreeFacts DEF RetryInv
<1>5. QED
  BY <1>2, <1>3, <1>4 DEF MailInv

LEMMA MailInvariant == NotificationSpec => [](MailInv /\ RetryInv)
<1>1. MailInv /\ RetryInv /\ [NotificationNext]_notificationVars => MailInv' /\ RetryInv'
  BY NextMail, NextRetry
<1>2. QED
  BY MailBegins, <1>1, PTL DEF NotificationSpec

LEMMA MailTells ==
    ASSUME MailInv
    PROVE  NotificationTypeOK /\ StatusTellsMail /\ NoticeNotDropped
<1>1. NotificationTypeOK
  <2>1. ASSUME NEW w \in Mailers, mailer[w] # FreeMailer
        PROVE  /\ mailer[w].step \in {"send", "sent", "raised", "retry"}
               /\ N(w) \in Notices /\ MailTask(w) \in MailMessage
    <3>1. mailer[w] \in TaskRecord
      BY <2>1 DEF MailInv, MailTypes
    <3>2. QED
      BY <3>1 DEF TaskRecord, N, MailTask, MailMessage
  <2>2. QED
    BY <2>1 DEF MailInv, MailTypes, NotificationTypeOK
<1>2. StatusTellsMail
  <2> SUFFICES ASSUME NEW n \in Notices
               PROVE  /\ notice[n].status = "SENT" => mails[n] > 0
                      /\ notice[n].status = "FAILED" => notice[n].retry_count > 0
                      /\ troubles = 0 /\ resends = 0 =>
                            /\ mails[n] <= 1
                            /\ notice[n].status = "FAILED" =>
                                  mails[n] = 0 /\ notice[n].retry_count = MaxMailRetries + 1
    BY DEF StatusTellsMail
  <2>1. NoticeInv(n) /\ notice[n] \in NotificationRow /\ mails[n] \in Nat
    BY DEF MailInv, MailTypes
  <2>2. notice[n].status \in {"NONE", "PENDING", "SENT", "FAILED"}
    BY <2>1 DEF NotificationRow, NotificationStatus
  <2>3. ASSUME troubles = 0, resends = 0 PROVE mails[n] <= 1
    <3>1. OneTask(n) /\ (notice[n].status = "PENDING" => HasTask(n))
      BY <2>1, <2>3 DEF NoticeInv
    <3>2. notice[n].status # "PENDING" => mails[n] <= 1
      BY <2>2, <3>1 DEF OneTask
    <3>3. HasTask(n) => mails[n] <= 1
      BY <3>1 DEF OneTask, HasTask
    <3>4. QED
      BY <3>1, <3>2, <3>3
  <2>4. QED
    BY <2>1, <2>3 DEF NoticeInv, SentTells, OneTask
<1>3. NoticeNotDropped
  BY DEF MailInv, NoticeInv, HasTask, Waiting, Hands, N, NoticeNotDropped
<1>4. QED
  BY <1>1, <1>2, <1>3

\* The status of a notification says what has happened to it: however the tasks
\* are retried, resent, interrupted and handed from worker to worker.
THEOREM MailStatusIsEarned == NotificationSpec => [](StatusTellsMail /\ NoticeNotDropped)
<1>1. MailInv => StatusTellsMail /\ NoticeNotDropped
  BY MailTells
<1>2. QED
  BY <1>1, MailInvariant, PTL

\* And rows, messages and workers keep their types.
THEOREM MailTypesStay == NotificationSpec => []NotificationTypeOK
<1>1. MailInv => NotificationTypeOK
  BY MailTells
<1>2. QED
  BY <1>1, MailInvariant, PTL
=============================================================================

--------------------------- MODULE Notifications ----------------------------
(***************************************************************************)
(* Notification routing and delivery state (crate openfiat-notifications   *)
(* and the node's dispatcher).  Every node that sees a protocol event      *)
(* plans the same deliveries from its replica of the recipient's           *)
(* subscription and of the service registry, hands each to a gateway, and  *)
(* later accepts the gateway's report only for what it dispatched itself.  *)
(* A notification store is a record with three column families.            *)
(***************************************************************************)
EXTENDS Wire, Integers, Sequences, SequencesExt

NotificationCategory ==
    {"Trading", "Marketplace", "Disputes", "Governance", "Infrastructure"}

\* NotificationTrigger::category, for the triggers the dispatcher raises.
Category(trigger) ==
    CASE trigger \in {"ReservationCreated", "PaymentSubmitted",
                      "SettlementApproved", "EscrowReleased"} -> "Trading"
      [] trigger = "AdvertisementDisabled" -> "Marketplace"
      [] trigger \in {"EvidenceRequested", "ResolutionIssued"} -> "Disputes"
      [] trigger \in {"ProposalPublished", "ProposalActivated"} -> "Governance"

DeliveryStatus ==
    {"Queued", "Sent", "Delivered", "Read", "Failed", "Retried", "Expired"}

NoNotifications ==
    [subscriptions |-> EmptyStore, dispatches |-> EmptyStore, receipts |-> EmptyStore]

\* NotificationId::derive is a function of these three and nothing local.
NotificationId(trigger, source, recipient) == <<trigger, source, recipient>>

\* SignedSubscriptionUpdate::verify: the payload names the wallet its key derives to, and
\* that key signed it.
UpdateVerifies(e) == SelfSigned(e)

\* apply_subscription_update: a full upsert by the wallet itself.
CanUpdate(e) == UpdateVerifies(e)

SubscriptionUpdated(notes, e) ==
    [notes EXCEPT !.subscriptions =
        Put(@, e.wallet, [categories |-> e.categories,
                          destinations |-> e.destinations,
                          updated_at |-> e.timestamp])]

\* SkipReason: why a bound destination produces no delivery, None if it does.
SkipReason(services, destination) ==
    IF destination.service \notin DOMAIN services THEN "GatewayUnknown"
    ELSE LET s == services[destination.service]
         IN  CASE s.stype /= "Notifications" -> "NotANotificationGateway"
               [] s.stype = "Notifications" /\ s.channel /= destination.channel ->
                    "ChannelMismatch"
               [] /\ s.stype = "Notifications" /\ s.channel = destination.channel
                  /\ s.health \notin {"Online", "Maintenance"} -> "Unhealthy"
               [] OTHER -> None

\* routing::plan: the deliveries, in the order the destinations are bound.
Plan(notes, services, trigger, source, recipient) ==
    IF \/ recipient \notin DOMAIN notes.subscriptions
       \/ Category(trigger) \notin notes.subscriptions[recipient].categories
    THEN <<>>
    ELSE LET bound == SelectSeq(notes.subscriptions[recipient].destinations,
                                LAMBDA d : SkipReason(services, d) = None)
         IN  [i \in DOMAIN bound |->
                [id |-> NotificationId(trigger, source, recipient),
                 service |-> bound[i].service, recipient |-> recipient,
                 trigger |-> trigger, channel |-> bound[i].channel]]

\* record_queued: written before the handoff, under the notification's id.
RecordQueued(notes, d) ==
    [notes EXCEPT !.dispatches =
        Put(@, d.id, [service |-> d.service, recipient |-> d.recipient,
                      trigger |-> d.trigger, status |-> "Queued"])]

\* record_handoff: a record that is not there is left alone.
RecordHandoff(notes, id, accepted) ==
    IF id \notin DOMAIN notes.dispatches THEN notes
    ELSE [notes EXCEPT !.dispatches[id].status = IF accepted THEN "Sent" ELSE "Failed"]

\* The deliveries NotificationDispatcher::notify plans for several recipients.
PlanAll(notes, services, trigger, source, recipients) ==
    FlattenSeq([i \in DOMAIN recipients |->
                    Plan(notes, services, trigger, source, recipients[i])])

\* Mutant: a delivery joins the queue without being recorded.
NotifiedUnrecorded(notes, deliveries) == notes

\* notify: each delivery is recorded and joins the queue.
Notified(notes, deliveries) == FoldLeft(RecordQueued, notes, deliveries)

\* broadcast_recipients
BroadcastRecipients(notes, trigger) ==
    SetToSeq({w \in DOMAIN notes.subscriptions :
                 Category(trigger) \in notes.subscriptions[w].categories})

\* The third tier of apply_delivery_report: this node routed this
\* notification to that service.
RoutedTo(notes, e) ==
    /\ e.id \in DOMAIN notes.dispatches
    /\ notes.dispatches[e.id].service = e.service
    /\ notes.dispatches[e.id].recipient = e.recipient
    /\ notes.dispatches[e.id].trigger = e.trigger

\* SignedDeliveryReport::verify: the payload names the provider its key derives to, and
\* that key signed it.
ReportVerifies(e) == SelfSigned(e)

CanReport(notes, services, e) ==
    /\ ReportVerifies(e)
    /\ e.service \in DOMAIN services
    /\ services[e.service].provider = e.wallet
    /\ RoutedTo(notes, e)

Reported(notes, e) ==
    [notes EXCEPT !.receipts =
        Put(@, e.id, [service |-> e.service, recipient |-> e.recipient,
                      trigger |-> e.trigger, status |-> e.status,
                      updated_at |-> e.timestamp])]

Apply(notes, services, e) ==
    CASE e.kind = "SubscriptionUpdated" /\ CanUpdate(e) -> SubscriptionUpdated(notes, e)
      [] e.kind = "DeliveryReport" /\ CanReport(notes, services, e) -> Reported(notes, e)
      [] OTHER -> notes

=============================================================================

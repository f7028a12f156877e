------------------------------- MODULE Billing -------------------------------
(***************************************************************************)
(* The plan of an organization: checkouts that link it to a Stripe         *)
(* customer, and Stripe's webhook, which delivers every event at least     *)
(* once, in any order and concurrently.  The webhook handler has no        *)
(* transaction: the plan and the log are two statements, and a delivery    *)
(* that fails in between is delivered again.                               *)
(***************************************************************************)
EXTENDS Integers, Sequences, FiniteSets

CONSTANTS
    Organization,
    MaxCheckouts,  \* bound: checkouts started
    MaxEvents,     \* bound: events Stripe creates
    MaxDeliveries, \* bound: deliveries handled at the same time
    MaxFaults      \* bound: deliveries that fail, and those that come twice

ASSUME BoundsAssumption ==
    /\ MaxCheckouts \in Nat /\ MaxEvents \in Nat /\ MaxDeliveries \in Nat
    /\ MaxFaults \in Nat

VARIABLES
    plan,       \* organizations.plan
    customer,   \* organizations.stripe_customer_id, 0 for NULL
    log,        \* subscription_events: how many rows an event has
    checkouts,  \* POST /v1/billing/checkout, and the session at Stripe
    events,     \* Stripe's events, in the order they happened
    cancelled,  \* the checkouts whose subscription was cancelled
    acked,      \* the events that got a 200
    ignored,    \* history: deletions of a customer no organization had
    deliveries, \* the webhook requests in flight
    faults,     \* deliveries that failed or were one too many
    orderly     \* history: deliveries came one by one and in order

stripe == <<events, cancelled>>
billingVars == <<plan, customer, log, checkouts, stripe, acked, ignored, deliveries, faults, orderly>>

Paid == {"starter", "pro"}
Plan == Paid \cup {"free"}
Checkout == 1..MaxCheckouts
Event == 1..MaxEvents
Delivery == 1..MaxDeliveries

\* Customers are numbers: a new one has the number of the checkout it came with.
NoCustomer == 0
NoOrganization == "none"

\* `known` is the customer read from the row, `customer` the one in Stripe's answer.
Unstarted == [pc |-> "idle", org |-> NoOrganization, plan |-> "free",
              known |-> NoCustomer, customer |-> NoCustomer]
Over == [Unstarted EXCEPT !.pc = "over"]
Free == [pc |-> "idle", event |-> 0, org |-> NoOrganization]

BillingInit ==
    /\ plan = [o \in Organization |-> "free"]
    /\ customer = [o \in Organization |-> NoCustomer]
    /\ log = [e \in Event |-> 0]
    /\ checkouts = [k \in Checkout |-> Unstarted]
    /\ events = <<>> /\ cancelled = {}
    /\ acked = {} /\ ignored = {}
    /\ deliveries = [d \in Delivery |-> Free]
    /\ faults = 0
    /\ orderly = TRUE

-----------------------------------------------------------------------------
(* POST /v1/billing/checkout *)

\* price_id_for_plan refuses the free plan; BillingRepository::get.
StartCheckout(k) ==
    \E o \in Organization, p \in Plan :
        /\ p # "free"
        /\ checkouts[k] = Unstarted /\ \A j \in 1..(k - 1) : checkouts[j] # Unstarted
        /\ checkouts' = [checkouts EXCEPT ![k] =
             [pc |-> "create", org |-> o, plan |-> p, known |-> customer[o], customer |-> NoCustomer]]
        /\ UNCHANGED <<plan, customer, log, stripe, acked, ignored, deliveries, faults, orderly>>

\* create_checkout_session.  Stripe answers with the customer it was given, and
\* without one with a new customer or with none yet.
CreateSession(k) ==
    LET c == checkouts[k] IN
    /\ c.pc = "create"
    /\ \E n \in (IF c.known # NoCustomer THEN {c.known} ELSE {NoCustomer, k}) :
         checkouts' = [checkouts EXCEPT ![k] =
           [@ EXCEPT !.customer = n, !.pc = IF n = NoCustomer THEN "open" ELSE "link"]]
    /\ UNCHANGED <<plan, customer, log, stripe, acked, ignored, deliveries, faults, orderly>>

\* Mutant of SetStripeCustomer: the UPDATE has no condition.
OverwriteCustomer(k) ==
    LET c == checkouts[k] IN
    /\ c.pc = "link"
    /\ customer' = [customer EXCEPT ![c.org] = c.customer]
    /\ checkouts' = [checkouts EXCEPT ![k].pc = "open"]
    /\ UNCHANGED <<plan, log, stripe, acked, ignored, deliveries, faults, orderly>>

\* set_stripe_customer: the row has no customer or this one, else a conflict, and
\* the user never gets the URL of the session.
SetStripeCustomer(k) ==
    LET c == checkouts[k] IN
    /\ c.pc = "link"
    /\ IF customer[c.org] \in {NoCustomer, c.customer}
       THEN /\ customer' = [customer EXCEPT ![c.org] = c.customer]
            /\ checkouts' = [checkouts EXCEPT ![k] = [@ EXCEPT !.pc = "open", !.customer = NoCustomer]]
       ELSE /\ checkouts' = [checkouts EXCEPT ![k] = Over]
            /\ UNCHANGED customer
    /\ UNCHANGED <<plan, log, stripe, acked, ignored, deliveries, faults, orderly>>

DropCheckout(k) ==
    /\ checkouts[k].pc \in {"create", "link"}
    /\ checkouts' = [checkouts EXCEPT ![k] = Over]
    /\ UNCHANGED <<plan, customer, log, stripe, acked, ignored, deliveries, faults, orderly>>

-----------------------------------------------------------------------------
(* Stripe *)

Payer(k) == IF checkouts[k].known # NoCustomer THEN checkouts[k].known ELSE k

Emit(type, k, p) ==
    /\ Len(events) < MaxEvents
    /\ events' = Append(events,
         [type |-> type, org |-> checkouts[k].org, plan |-> p, customer |-> Payer(k)])

\* The user pays at the URL of the session: checkout.session.completed.
Pay(k) ==
    /\ checkouts[k].pc = "open"
    /\ checkouts' = [checkouts EXCEPT ![k].pc = "paid"]
    /\ Emit("completed", k, checkouts[k].plan)
    /\ UNCHANGED <<plan, customer, log, cancelled, acked, ignored, deliveries, faults, orderly>>

\* customer.subscription.deleted.
CancelSubscription(k) ==
    /\ checkouts[k].pc = "paid" /\ k \notin cancelled
    /\ cancelled' = cancelled \cup {k}
    /\ Emit("deleted", k, "free")
    /\ UNCHANGED <<plan, customer, log, checkouts, acked, ignored, deliveries, faults, orderly>>

\* Any other event about the customer.
OtherEvent(k) ==
    /\ checkouts[k].pc = "paid" /\ Emit("other", k, "free")
    /\ UNCHANGED <<plan, customer, log, checkouts, cancelled, acked, ignored, deliveries, faults, orderly>>

\* The event is acknowledged, or another delivery of it is being handled.
Repeats(e) == e \in acked \/ \E d \in Delivery : deliveries[d].event = e

\* Stripe delivers an event for the first time or again, signing it anew, until
\* it gets a 200, and may deliver it once more after that.  These are the
\* deliveries that pass verify_signature; one that does not changes nothing.
Deliver(d, e) ==
    /\ deliveries[d] = Free /\ e \in DOMAIN events
    /\ deliveries' = [deliveries EXCEPT ![d] =
         IF events[e].type = "completed" THEN [event |-> e, org |-> events[e].org, pc |-> "plan"]
                                         ELSE [event |-> e, org |-> NoOrganization, pc |-> "find"]]
    /\ faults' = faults + (IF Repeats(e) THEN 1 ELSE 0) /\ faults' <= MaxFaults
    /\ orderly' = (orderly /\ \A x \in Delivery : deliveries[x] = Free
                           /\ e \notin acked /\ \A f \in 1..(e - 1) : f \in acked)
    /\ UNCHANGED <<plan, customer, log, checkouts, stripe, acked, ignored>>

-----------------------------------------------------------------------------
(* POST /v1/billing/webhook *)

Owner(c) == IF \E o \in Organization : customer[o] = c
            THEN CHOOSE o \in Organization : customer[o] = c ELSE NoOrganization

\* org_for_customer.  A deletion of a customer no organization has is answered
\* with a 200 and nothing is logged; any other event is logged without one.
FindOrganization(d) ==
    LET e == deliveries[d].event
        o == Owner(events[e].customer)
        dismissed == events[e].type = "deleted" /\ o = NoOrganization IN
    /\ deliveries[d].pc = "find"
    /\ deliveries' = [deliveries EXCEPT ![d] = [@ EXCEPT !.org = o,
         !.pc = IF dismissed THEN "answer" ELSE IF events[e].type = "deleted" THEN "plan" ELSE "append"]]
    /\ ignored' = IF dismissed THEN ignored \cup {e} ELSE ignored
    /\ UNCHANGED <<plan, customer, log, checkouts, stripe, acked, faults, orderly>>

\* Mutant of UpdatePlan: a cancellation keeps the plan.
UpdatePaidPlan(d) ==
    LET e == events[deliveries[d].event] IN
    /\ deliveries[d].pc = "plan"
    /\ plan' = IF e.type = "completed" THEN [plan EXCEPT ![deliveries[d].org] = e.plan] ELSE plan
    /\ deliveries' = [deliveries EXCEPT ![d] = [@ EXCEPT !.pc = "append", !.org = NoOrganization]]
    /\ UNCHANGED <<customer, log, checkouts, stripe, acked, ignored, faults, orderly>>

\* update_plan, before the event is known to be new.
UpdatePlan(d) ==
    /\ deliveries[d].pc = "plan"
    /\ plan' = [plan EXCEPT ![deliveries[d].org] = events[deliveries[d].event].plan]
    /\ deliveries' = [deliveries EXCEPT ![d] = [@ EXCEPT !.pc = "append", !.org = NoOrganization]]
    /\ UNCHANGED <<customer, log, checkouts, stripe, acked, ignored, faults, orderly>>

\* Mutant of AppendEvent: a duplicate is an error, and the delivery fails.
AppendOrFail(d) ==
    LET e == deliveries[d].event IN
    /\ deliveries[d].pc = "append"
    /\ log' = [log EXCEPT ![e] = 1]
    /\ deliveries' = [deliveries EXCEPT ![d] = IF log[e] = 0 THEN [@ EXCEPT !.pc = "answer"] ELSE Free]
    /\ UNCHANGED <<plan, customer, checkouts, stripe, acked, ignored, faults, orderly>>

\* append_event: ON CONFLICT (stripe_event_id) DO NOTHING.
AppendEvent(d) ==
    /\ deliveries[d].pc = "append"
    /\ log' = [log EXCEPT ![deliveries[d].event] = 1]
    /\ deliveries' = [deliveries EXCEPT ![d].pc = "answer"]
    /\ UNCHANGED <<plan, customer, checkouts, stripe, acked, ignored, faults, orderly>>

\* The webhook handler's 200.
Answer(d) ==
    /\ deliveries[d].pc = "answer"
    /\ acked' = acked \cup {deliveries[d].event}
    /\ deliveries' = [deliveries EXCEPT ![d] = Free]
    /\ UNCHANGED <<plan, customer, log, checkouts, stripe, ignored, faults, orderly>>

\* A statement fails, the request times out, the process ends or the answer is
\* lost: Stripe will deliver the event again.
DropDelivery(d) ==
    /\ deliveries[d] # Free /\ faults < MaxFaults
    /\ faults' = faults + 1
    /\ deliveries' = [deliveries EXCEPT ![d] = Free]
    /\ UNCHANGED <<plan, customer, log, checkouts, stripe, acked, ignored, orderly>>

-----------------------------------------------------------------------------
BillingNext ==
    \/ \E k \in Checkout :
         \/ StartCheckout(k) \/ CreateSession(k) \/ SetStripeCustomer(k) \/ DropCheckout(k)
         \/ Pay(k) \/ CancelSubscription(k) \/ OtherEvent(k)
    \/ \E d \in Delivery :
         \/ \E e \in Event : Deliver(d, e)
         \/ FindOrganization(d) \/ UpdatePlan(d) \/ AppendEvent(d) \/ Answer(d) \/ DropDelivery(d)

Handle(d) == FindOrganization(d) \/ UpdatePlan(d) \/ AppendEvent(d) \/ Answer(d)

\* Stripe delivers an event again until it is acknowledged; the statements of the
\* handler end.  The faults are bounded, so they stop.
BillingSpec ==
    /\ BillingInit /\ [][BillingNext]_billingVars
    /\ \A e \in Event : WF_billingVars(e \notin acked /\ \E d \in Delivery : Deliver(d, e))
    /\ \A d \in Delivery : WF_billingVars(Handle(d))

-----------------------------------------------------------------------------
EventsOf(o) == {e \in DOMAIN events : events[e].org = o /\ events[e].type # "other"}

\* apply_checkout_completion and apply_subscription_cancelled: when the deliveries
\* came one by one and in order, however many failed halfway and came again, the
\* plan is the one of the organization's last event, if its customer was linked.
PlanFollowsEvents ==
    (orderly /\ \A d \in Delivery : deliveries[d] = Free) =>
        \A o \in Organization :
            (EventsOf(o) # {} /\ EventsOf(o) \subseteq acked \ ignored) =>
                plan[o] = events[CHOOSE e \in EventsOf(o) : \A f \in EventsOf(o) : f <= e].plan

\* set_stripe_customer: checkouts that race never move an organization to another
\* customer, and no two organizations have one in common.
CustomerIsFixed ==
    [][\A o \in Organization :
         /\ customer[o] # NoCustomer => customer'[o] = customer[o]
         /\ \A p \in Organization \ {o} : customer'[o] # NoCustomer => customer'[p] # customer'[o]]_billingVars

\* append_event: a duplicate does not fail, so Stripe's retries come to an end.
EventsAreAcknowledged == \A e \in Event : e \in DOMAIN events ~> e \in acked

-----------------------------------------------------------------------------
(* The inductive invariant *)

CheckoutRow == [pc : {"idle", "create", "link", "open", "paid", "over"},
                org : {NoOrganization} \cup Organization, plan : Plan,
                known : {NoCustomer} \cup Checkout, customer : {NoCustomer} \cup Checkout]
StripeEvent == [type : {"completed", "deleted", "other"}, org : Organization, plan : Plan,
                customer : Checkout]
DeliveryRow == [pc : {"idle", "find", "plan", "append", "answer"}, event : {0} \cup Event,
                org : {NoOrganization} \cup Organization]

BillingTypeOK ==
    /\ plan \in [Organization -> Plan]
    /\ customer \in [Organization -> {NoCustomer} \cup Checkout]
    /\ checkouts \in [Checkout -> CheckoutRow]
    /\ events \in Seq(StripeEvent)
    /\ acked \subseteq DOMAIN events
    /\ deliveries \in [Delivery -> DeliveryRow]

\* Checkout n got organization o its customer, if it is of o and the user was sent on.
Introduced(n, o) == checkouts[n].org = o /\ checkouts[n].pc \in {"open", "paid"}

\* The customer a checkout read is still the organization's, and the one it is
\* about to link is that one or its own.
CheckoutInv(k) ==
    LET c == checkouts[k] IN
    /\ c.pc \in {"create", "link", "open", "paid"} =>
         c.org \in Organization /\ (c.known # NoCustomer => customer[c.org] = c.known)
    /\ c.pc = "link" => c.customer = Payer(k)

\* The customer of an organization, and of an event, came with a checkout of that
\* organization.
CustomerInv ==
    /\ \A o \in Organization : customer[o] # NoCustomer => Introduced(customer[o], o)
    /\ \A e \in DOMAIN events : Introduced(events[e].customer, events[e].org)

\* Every event before e is acknowledged, and e is not.
IsNext(e) == e \notin acked /\ \A f \in 1..(e - 1) : f \in acked

\* The delivery writes the plan of the event's own organization; when deliveries
\* come in order it is the one of the next event, and past `plan` it wrote it.
DeliveryInv(d) ==
    LET r == deliveries[d]
        e == events[r.event] IN
    r.pc # "idle" =>
        /\ r.event \in DOMAIN events
        /\ r.pc = "find" => e.type # "completed"
        /\ r.pc = "plan" => e.type # "other" /\ r.org = e.org
        /\ orderly => IsNext(r.event)
        /\ (orderly /\ r.pc \in {"append", "answer"} /\ e.type # "other" /\ r.event \notin ignored) =>
             plan[e.org] = e.plan

\* The plan of o is the one of its last acknowledged event, or of the next one
\* already, by a delivery that failed after it wrote the plan.
PlanInv(o) ==
    LET mine == EventsOf(o) \cap acked IN
    (orderly /\ mine # {} /\ mine \cap ignored = {}) =>
        \E m \in mine :
            /\ \A f \in mine : f <= m
            /\ \/ plan[o] = events[m].plan
               \/ \E n \in EventsOf(o) : IsNext(n) /\ plan[o] = events[n].plan

Links == (\A k \in Checkout : CheckoutInv(k)) /\ CustomerInv

Plans ==
    /\ \A d \in Delivery : DeliveryInv(d)
    /\ orderly =>
         /\ \A d, x \in Delivery : deliveries[d].pc # "idle" /\ deliveries[x].pc # "idle" => d = x
         /\ \A e \in acked : \A f \in 1..(e - 1) : f \in acked
    /\ \A o \in Organization : PlanInv(o)

BillingInv == BillingTypeOK /\ Links /\ Plans
=============================================================================

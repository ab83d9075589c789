-------------------------------- MODULE Billing --------------------------------
(***************************************************************************)
(* The subscription of one tenant, its invoices, and who writes them:      *)
(*                                                                         *)
(*   - the checkout, which reads the subscription, calls the payment       *)
(*     gateway outside any transaction and writes what came back           *)
(*     (modules/billing/subscriptions.ts);                                 *)
(*   - the charges of one-off Pix, made by the worker's scan and by the    *)
(*     checkout under one lock per tenant (monthly-charge.ts);             *)
(*   - the gateway's webhooks, which may be repeated and come in any order *)
(*     (webhook.ts);                                                       *)
(*   - the platform's admins (modules/admin/tenants.ts);                   *)
(*   - the access check, which ends a trial that is over (auth/rbac.ts).   *)
(*                                                                         *)
(* With Vindi the gateway bills every cycle of an agreement itself, with   *)
(* PagBank only cards have an agreement and Pix is charged one-off.  Time  *)
(* is counted in months.                                                   *)
(***************************************************************************)
EXTENDS Integers, FiniteSets

CONSTANTS
  Tab,          \* checkouts: browser tabs of the tenant's admin
  Charger,      \* requests and jobs that run generateChargeForTenant
  Admin,        \* operators of the platform
  Visitor,      \* requests whose access is checked
  Agreement,    \* ids of subscriptions at the gateway
  Charge,       \* ids of bills and orders at the gateway
  None,
  MaxNow,       \* months that pass (bound)
  MaxOps        \* checkouts and operations of admins that start (bound)

Actor == Tab \cup Charger \cup Admin \cup Visitor

ASSUME ConstantsAssumption ==
  /\ None \notin Agreement \cup Charge
  /\ {MaxNow, MaxOps} \subseteq Nat

(* A request of one kind is none of another.                               *)
ASSUME ActorsAssumption ==
  /\ Tab \cap (Charger \cup Admin \cup Visitor) = {}
  /\ Charger \cap (Admin \cup Visitor) = {}

VARIABLES
  gateway,    \* PAYMENT_PROVIDER
  now,        \* the month
  sub,        \* the row of subscriptions
  invoice,    \* the rows of invoices, by gateway_charge_id
  agreement,  \* subscriptions at the gateway
  bill,       \* bills and orders at the gateway
  sent,       \* webhook events the gateway sends, once or more
  applied,    \* times an event has changed the subscription
  courtesy,   \* what admins have done about a courtesy
  op,         \* the operation each actor is in, with what it has read
  ops         \* checkouts and operations of admins started

external == <<agreement, bill, sent>>
actors == <<op, ops>>
vars == <<gateway, now, sub, invoice, agreement, bill, sent, applied,
          courtesy, op, ops>>

Never == 0            \* a date that is null
Forever == MaxNow + 2 \* ten years from now
Date == Never .. Forever

Event ==
  [type : {"created", "paid", "failed"}, of : Charge] \cup
  [type : {"canceled"}, of : Agreement]

Idle == [at |-> "idle"]
NoInvoice == [rows |-> 0, status |-> "none", event |-> "none", qr |-> FALSE]
NoBill == [state |-> "unused", of |-> None, key |-> Never]

(* signupTenant: with or without a trial.                                  *)
SignedUp ==
  [status : {"pending_payment"}, trial : {Never}, period : {Never},
   method : {"pix"}, agreement : {None}] \cup
  [status : {"trialing"}, trial : {1}, period : {Never},
   method : {"pix"}, agreement : {None}]

Init ==
  /\ gateway \in {"vindi", "pagbank"} /\ now = 0
  /\ sub \in SignedUp
  /\ invoice = [c \in Charge |-> NoInvoice]
  /\ agreement = [a \in Agreement |-> "unused"]
  /\ bill = [c \in Charge |-> NoBill]
  /\ sent = {}
  /\ applied = [e \in Event |-> 0]
  /\ courtesy = {}
  /\ op = [x \in Actor |-> Idle]
  /\ ops = 0

On(s) == s.trial > now            \* a trial that is running
Ended(s) == s.trial # Never /\ ~On(s)
Due(s) == s.period <= now         \* currentPeriodEnd is null or has passed
NextYear == now + 12                                       \* mutated form
NextMonth == now + 1

(* isSubscriptionBlocked: who is kept out.                                 *)
Blocked(s) ==
  \/ s.status = "pending_payment"
  \/ s.status = "trialing" /\ ~On(s)

At(x, where) == op[x].at = where
Start(x, read) == op[x] = Idle /\ op' = [op EXCEPT ![x] = read]
Goto(x, where) == op' = [op EXCEPT ![x].at = where]
Finish(x) == op' = [op EXCEPT ![x] = Idle]

--------------------------------------------------------------------------------
(* The gateway.                                                            *)

Tell(type, c) == [type |-> type, of |-> c]

(* A bill may be refused and paid after that; an order of Pix is paid with *)
(* the QR code the tenant was shown.                                       *)
Pay(c) ==
  /\ bill[c].state \in {"open", "refused"}
  /\ bill[c].of = None => invoice[c].rows > 0
  /\ bill' = [bill EXCEPT ![c].state = "paid"]
  /\ sent' = sent \cup {Tell("paid", c)}
  /\ UNCHANGED <<gateway, now, sub, invoice, agreement, applied, courtesy, actors>>

Refuse(c) ==
  /\ bill[c].state = "open"
  /\ bill' = [bill EXCEPT ![c].state = "refused"]
  /\ sent' = sent \cup {Tell("failed", c)}
  /\ UNCHANGED <<gateway, now, sub, invoice, agreement, applied, courtesy, actors>>

(* Vindi bills the next cycle of an agreement by itself.                   *)
BillCycle(a, c) ==
  /\ gateway = "vindi" /\ agreement[a] = "live"
  /\ bill[c] = NoBill
  /\ bill' = [bill EXCEPT ![c] = [state |-> "open", of |-> a, key |-> Never]]
  /\ sent' = sent \cup {Tell("created", c)}
  /\ UNCHANGED <<gateway, now, sub, invoice, agreement, applied, courtesy, actors>>

(* DELETE /subscriptions/id?cancel_bills=true.                             *)
Unpaid(a) == {c \in Charge : bill[c].of = a /\ bill[c].state \in {"open", "refused"}}

Cancel(a) ==
  /\ agreement' = [agreement EXCEPT ![a] = "canceled"]
  /\ bill' = [c \in Charge |-> IF c \in Unpaid(a) THEN [bill[c] EXCEPT !.state = "canceled"]
                                                  ELSE bill[c]]
  /\ sent' = sent \cup {Tell("failed", c) : c \in Unpaid(a)} \cup {Tell("canceled", a)}

CancelAtGateway(a) ==
  /\ agreement[a] = "live" /\ sub.agreement = a
  /\ Cancel(a)
  /\ UNCHANGED <<gateway, now, sub, invoice, applied, courtesy, actors>>

Tick ==
  /\ now < MaxNow
  /\ now' = now + 1
  /\ UNCHANGED <<gateway, sub, invoice, external, applied, courtesy, actors>>

--------------------------------------------------------------------------------
(* processVerifiedWebhook.  The lookup finds the invoice by charge, and    *)
(* for "created" and "canceled" also the subscription by agreement.  Each  *)
(* update is conditional on its own row and so takes effect at one point.  *)

Known(c) == invoice[c].rows > 0

Matched(e) ==
  CASE e.type = "created"  -> Known(e.of) \/ sub.agreement = bill[e.of].of
    [] e.type = "canceled" -> sub.agreement = e.of
    [] OTHER               -> Known(e.of)

Apply(e, status) ==
  /\ sub' = [sub EXCEPT !.status = status]
  /\ applied' = [applied EXCEPT ![e] = IF @ < 2 THEN @ + 1 ELSE @]

Ignore == UNCHANGED <<sub, invoice, applied>>

(* An event nobody knows is answered with 200 and not sent again, but      *)
(* Vindi is told to try again.                                             *)
DropsForBoth == TRUE                                       \* mutated form
Drops == gateway = "pagbank"

Drop(e) ==
  /\ e \in sent /\ ~Matched(e)
  /\ Drops
  /\ sent' = sent \ {e}
  /\ UNCHANGED <<gateway, now, sub, invoice, agreement, bill, applied, courtesy, actors>>

Handles(e) ==
  /\ e \in sent /\ Matched(e)
  /\ UNCHANGED <<gateway, now, external, courtesy, actors>>

Created(c) ==
  /\ Handles(Tell("created", c))
  /\ IF Known(c) THEN Ignore
     ELSE /\ invoice' = [invoice EXCEPT ![c] = [rows |-> 1, status |-> "pending",
                                                event |-> "created", qr |-> FALSE]]
          /\ UNCHANGED <<sub, applied>>

PaidAnyTime(c) == FALSE                                    \* mutated form
PaidBefore(c) == invoice[c].event = "paid"

Paid(c) ==
  /\ Handles(Tell("paid", c))
  /\ IF PaidBefore(c) THEN Ignore
     ELSE /\ invoice' = [invoice EXCEPT ![c].status = "paid", ![c].event = "paid"]
          /\ Apply(Tell("paid", c), "active")

Failed(c) ==
  /\ Handles(Tell("failed", c))
  /\ IF invoice[c].status = "failed" THEN Ignore
     ELSE /\ invoice' = [invoice EXCEPT ![c].status = "failed"]
          /\ Apply(Tell("failed", c), "past_due")

Canceled(a) ==
  /\ Handles(Tell("canceled", a))
  /\ IF sub.status = "canceled" THEN Ignore
     ELSE Apply(Tell("canceled", a), "canceled") /\ UNCHANGED invoice

(* charge.pix_updated: the QR code of an open invoice comes late.          *)
PixUpdated(c) ==
  /\ gateway = "vindi" /\ Known(c)
  /\ invoice[c].status = "pending" /\ ~invoice[c].qr
  /\ invoice' = [invoice EXCEPT ![c].qr = TRUE]
  /\ UNCHANGED <<gateway, now, sub, external, applied, courtesy, actors>>

Deliver(e) ==
  \/ Drop(e)
  \/ e.type = "created" /\ Created(e.of)
  \/ e.type = "paid" /\ Paid(e.of)
  \/ e.type = "failed" /\ Failed(e.of)
  \/ e.type = "canceled" /\ Canceled(e.of)

--------------------------------------------------------------------------------
(* Checkout: createSubscription.                                           *)

AtOnce(s) == "active"                                      \* mutated form
StatusUntilPaid(s) == IF s.status = "trialing" /\ On(s) THEN "trialing"
                                                        ELSE "pending_payment"

Replaces(method) ==
  /\ gateway = "vindi" /\ method = "pix"
  /\ sub.agreement # None /\ sub.status = "pending_payment"

Open == {c \in Charge : invoice[c].status = "pending"}

(* Nothing is done when the newest open invoice has its QR code.           *)
CheckoutRead(t, method) ==
  /\ ops < MaxOps
  /\ Replaces(method) => (Open = {} \/ \E c \in Open : ~invoice[c].qr)
  /\ Start(t, [at |-> CASE Replaces(method)                     -> "replace"
                       [] gateway = "pagbank" /\ method = "pix" -> "local"
                       [] OTHER                                -> "ask",
               method |-> method, sub |-> sub,
               of |-> None, charge |-> None, paid |-> FALSE])
  /\ ops' = ops + 1
  /\ UNCHANGED <<gateway, now, sub, invoice, external, applied, courtesy>>

(* An unpaid agreement is replaced: its invoices fail first, so that the   *)
(* webhook of their cancellation finds nothing to do.                      *)
FailOpen(t) ==
  /\ At(t, "replace")
  /\ invoice' = [c \in Charge |-> IF c \in Open THEN [invoice[c] EXCEPT !.status = "failed"]
                                                ELSE invoice[c]]
  /\ Goto(t, "cancel")
  /\ UNCHANGED <<gateway, now, sub, external, applied, courtesy, ops>>

CancelOld(t) ==
  /\ At(t, "cancel")
  /\ Cancel(op[t].sub.agreement) \/ UNCHANGED external
  /\ Goto(t, "ask")
  /\ UNCHANGED <<gateway, now, sub, invoice, applied, courtesy, ops>>

(* The gateway's answer: an agreement with its first bill, paid or not.    *)
(* PagBank's ACTIVE is a paid one, as createSubscription takes it to be.   *)
AskGateway(t) ==
  /\ At(t, "ask")
  /\ \E a \in Agreement, c \in Charge, state \in {"open", "paid"} :
       /\ agreement[a] = "unused" /\ bill[c] = NoBill
       /\ agreement' = [agreement EXCEPT ![a] = "live"]
       /\ bill' = [bill EXCEPT ![c] = [state |-> state, of |-> a, key |-> Never]]
       /\ sent' = sent \cup (IF gateway = "vindi" THEN {Tell("created", c)} ELSE {})
                       \cup (IF state = "paid" THEN {Tell("paid", c)} ELSE {})
       /\ op' = [op EXCEPT ![t].at = "persist", ![t].of = a, ![t].charge = c,
                           ![t].paid = (state = "paid")]
  /\ UNCHANGED <<gateway, now, sub, invoice, applied, courtesy, ops>>

(* Refused, or withdrawn by assertInitialCharge.                           *)
GatewayRefuses(t) ==
  /\ At(t, "ask")
  /\ Finish(t)
  /\ UNCHANGED <<gateway, now, sub, invoice, external, applied, courtesy, ops>>

(* What the gateway answered is written over what the row says by now.     *)
Persist(t) ==
  LET c == op[t].charge
      paid == op[t].paid
  IN
  /\ At(t, "persist")
  /\ sub' = [sub EXCEPT
       !.status = IF paid THEN "active" ELSE StatusUntilPaid(op[t].sub),
       !.method = op[t].method,
       !.agreement = op[t].of,
       !.period = IF op[t].method = "card" THEN NextMonth ELSE @]
  /\ \E qr \in {FALSE} \cup {op[t].method = "pix"} :
       invoice' = IF gateway = "pagbank" THEN invoice
                  ELSE [invoice EXCEPT ![c] = [rows |-> @.rows + 1,
                         status |-> IF paid THEN "paid" ELSE "pending",
                         event |-> "none", qr |-> qr]]
  /\ Finish(t)
  /\ UNCHANGED <<gateway, now, external, applied, courtesy, ops>>

(* cancelUnpersistedSubscription, or a crash before it.                    *)
PersistFails(t) ==
  /\ At(t, "persist")
  /\ Cancel(op[t].of) \/ UNCHANGED external
  /\ Finish(t)
  /\ UNCHANGED <<gateway, now, sub, invoice, applied, courtesy, ops>>

(* Pix with PagBank; the charge is made by a Charger.                      *)
LocalPix(t) ==
  /\ At(t, "local")
  /\ sub' = [sub EXCEPT !.status = StatusUntilPaid(op[t].sub), !.method = "pix"]
  /\ Finish(t)
  /\ UNCHANGED <<gateway, now, invoice, external, applied, courtesy, ops>>

--------------------------------------------------------------------------------
(* generateChargeForTenant.                                                *)

LockNotTaken == TRUE                                       \* mutated form
LockFree == \A k \in Charger : At(k, "idle")

Billable(s) ==
  /\ s.method = "pix"
  /\ s.status \in {"active", "trialing", "pending_payment"}
  /\ ~(s.status = "trialing" /\ On(s))
  /\ Due(s)

ChargeRead(k) ==
  /\ gateway = "pagbank"
  /\ LockFree
  /\ Billable(sub)
  /\ Start(k, [at |-> "charge", period |-> sub.period])
  /\ UNCHANGED <<gateway, now, sub, invoice, external, applied, courtesy, ops>>

(* The order goes by an idempotency key made of the period's end: a second *)
(* call with the same key gets the same order.                             *)
Order(k, c) ==
  LET key == op[k].period
      same == {d \in Charge : bill[d].state # "unused" /\ bill[d].of = None
                               /\ bill[d].key = key}
  IN IF same # {} THEN c \in same /\ UNCHANGED bill
     ELSE /\ bill[c] = NoBill
          /\ bill' = [bill EXCEPT ![c] = [state |-> "open", of |-> None, key |-> key]]

ChargeCommit(k) ==
  /\ At(k, "charge")
  /\ \E c \in Charge :
       /\ Order(k, c)
       /\ invoice' = [invoice EXCEPT ![c] = [rows |-> @.rows + 1, status |-> "pending",
                                             event |-> "none", qr |-> TRUE]]
  /\ sub' = [sub EXCEPT !.period = NextMonth]
  /\ Finish(k)
  /\ UNCHANGED <<gateway, now, agreement, sent, applied, courtesy, ops>>

(* The transaction fails before the order is made, or with it made.        *)
ChargeFails(k) ==
  /\ At(k, "charge")
  /\ UNCHANGED bill \/ \E c \in Charge : Order(k, c)
  /\ Finish(k)
  /\ UNCHANGED <<gateway, now, sub, invoice, agreement, sent, applied, courtesy, ops>>

--------------------------------------------------------------------------------
(* Admins of the platform, and the end of a trial: a read, a guard on what *)
(* was read, and an update by id.                                          *)

AdminMay(do, s) ==
  CASE do = "grantTrial"   -> s.status # "active"
    [] do = "grantAccess"  -> ~(s.status = "active" /\ s.agreement # None)
    [] do = "revokeAccess" -> s.status = "active" /\ s.agreement = None
    [] do = "endTrial"     -> s.status = "trialing"

AdminOp == {"grantTrial", "grantAccess", "revokeAccess", "endTrial"}

AdminRead(x, do) ==
  /\ ops < MaxOps
  /\ AdminMay(do, sub)
  /\ Start(x, [at |-> do])
  /\ ops' = ops + 1
  /\ UNCHANGED <<gateway, now, sub, invoice, external, applied, courtesy>>

Granted(do, s) ==
  CASE do = "grantTrial"   -> [s EXCEPT !.status = "trialing", !.trial = NextMonth]
    [] do = "grantAccess"  -> [s EXCEPT !.status = "active", !.trial = Never,
                                        !.period = Forever]
    [] do = "revokeAccess" -> [s EXCEPT !.status = "pending_payment", !.trial = Never,
                                        !.period = Never]
    [] do = "endTrial"     -> [s EXCEPT !.status = "pending_payment", !.trial = Never]

AdminWrite(x) ==
  /\ op[x].at \in AdminOp
  /\ sub' = Granted(op[x].at, sub)
  /\ courtesy' = courtesy \cup ({op[x].at} \cap {"grantAccess", "revokeAccess"})
  /\ Finish(x)
  /\ UNCHANGED <<gateway, now, invoice, external, applied, ops>>

(* isSubscriptionBlocked, when it has something to write.                  *)
AccessRead(v) ==
  /\ sub.status = "trialing" /\ Ended(sub)
  /\ Start(v, [at |-> "expire"])
  /\ UNCHANGED <<gateway, now, sub, invoice, external, applied, courtesy, ops>>

AccessWrite(v) ==
  /\ At(v, "expire")
  /\ sub' = [sub EXCEPT !.status = "pending_payment", !.trial = Never]
  /\ Finish(v)
  /\ UNCHANGED <<gateway, now, invoice, external, applied, courtesy, ops>>

--------------------------------------------------------------------------------
Next ==
  \/ Tick
  \/ \E c \in Charge : Pay(c) \/ Refuse(c) \/ PixUpdated(c)
  \/ \E a \in Agreement : CancelAtGateway(a) \/ \E c \in Charge : BillCycle(a, c)
  \/ \E e \in Event : Deliver(e)
  \/ \E t \in Tab : \/ \E method \in {"card", "pix"} : CheckoutRead(t, method)
                    \/ FailOpen(t) \/ CancelOld(t) \/ AskGateway(t) \/ GatewayRefuses(t)
                    \/ Persist(t) \/ PersistFails(t) \/ LocalPix(t)
  \/ \E k \in Charger : ChargeRead(k) \/ ChargeCommit(k) \/ ChargeFails(k)
  \/ \E x \in Admin : (\E do \in AdminOp : AdminRead(x, do)) \/ AdminWrite(x)
  \/ \E v \in Visitor : AccessRead(v) \/ AccessWrite(v)

Spec == Init /\ [][Next]_vars

--------------------------------------------------------------------------------
(* Properties.                                                             *)

Subscription ==
  [status : {"pending_payment", "trialing", "active", "past_due", "canceled"},
   trial : Date, period : Date, method : {"card", "pix"},
   agreement : Agreement \cup {None}]

TypeOK ==
  /\ gateway \in {"vindi", "pagbank"} /\ now \in 0 .. MaxNow
  /\ sub \in Subscription
  /\ invoice \in [Charge -> [rows : Nat, event : {"none", "created", "paid"},
                             status : {"none", "pending", "paid", "failed"}, qr : BOOLEAN]]
  /\ agreement \in [Agreement -> {"unused", "live", "canceled"}]
  /\ bill \in [Charge -> [state : {"unused", "open", "refused", "paid", "canceled"},
                          of : Agreement \cup {None}, key : Date]]
  /\ sent \subseteq Event
  /\ applied \in [Event -> 0 .. 2]
  /\ courtesy \subseteq {"grantAccess", "revokeAccess"}
  /\ \A t \in Tab : op[t] \in {Idle} \cup
       [at : {"replace", "cancel", "ask", "persist", "local"}, method : {"card", "pix"},
        sub : Subscription, of : Agreement \cup {None}, charge : Charge \cup {None},
        paid : BOOLEAN]
  /\ \A k \in Charger : op[k] \in {Idle} \cup [at : {"charge"}, period : Date]
  /\ \A x \in Admin \cup Visitor : op[x].at \in AdminOp \cup {"idle", "expire"}
  /\ ops \in 0 .. MaxOps

(* A charge has one invoice, although the worker and the checkout may both *)
(* find the period due and the gateway's own event may come first (the     *)
(* exception: an admin who revokes a courtesy resets the period's end and  *)
(* with it the key of the order).                                          *)
OneInvoicePerCharge ==
  \A c \in Charge :
    bill[c].key # Never \/ "revokeAccess" \notin courtesy => invoice[c].rows <= 1

(* A payment takes effect once on an invoice, however often its event is   *)
(* delivered and whatever other events come in between.                    *)
PaidAppliedOnce == \A c \in Charge : applied[Tell("paid", c)] <= invoice[c].rows

(* The same of the failure of a charge (webhook.ts:93-101).                *)
FailureAppliedOnce ==
  \A c \in Charge : applied[Tell("failed", c)] <= invoice[c].rows

(* A subscription becomes active only by a payment the gateway has         *)
(* confirmed or by a courtesy.                                             *)
ActiveEarned ==
  sub.status = "active" =>
    "grantAccess" \in courtesy \/ \E c \in Charge : bill[c].state = "paid"

(* The same of access: before any payment, only a trial that is running or *)
(* a courtesy lets a tenant in (subscriptions.ts:102-108).                 *)
AccessEarned ==
  ~Blocked(sub) =>
    \/ "grantAccess" \in courtesy \/ On(sub)
    \/ \E c \in Charge : bill[c].state = "paid"

(* A payment of an invoice is not lost: until it is applied the gateway    *)
(* sends its event, also one that overtook the checkout which has still to *)
(* write the invoice.                                                      *)
PaymentNotLost ==
  \A c \in Charge :
    bill[c].state = "paid" /\ Known(c) =>
      applied[Tell("paid", c)] > 0 \/ Tell("paid", c) \in sent
================================================================================

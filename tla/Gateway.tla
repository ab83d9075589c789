-------------------------------- MODULE Gateway --------------------------------
(***************************************************************************)
(* A recurring checkout, call by call: what the request asks of the        *)
(* payment provider, in which order, what it takes back when a later step  *)
(* fails, and what it writes down (billing/subscriptions.ts, the providers *)
(* vindi.ts and pagbank.ts).  Each call is answered, refused without       *)
(* effect, or carried out with its answer lost to the timeout.             *)
(*                                                                         *)
(* One checkout runs at a time here.  Checkouts that overlap, webhooks and *)
(* the charges of Pix at PagBank are in Billing.                           *)
(***************************************************************************)
EXTENDS Integers, Sequences

CONSTANTS
  Polls,         \* times a bill is asked for its QR code
  MaxCheckouts,  \* checkouts that start (bound)
  MaxFailures,   \* calls that are not answered well (bound)
  MaxNews        \* changes the row sees from elsewhere (bound)

ASSUME GatAssumption ==
  {Polls, MaxCheckouts, MaxFailures, MaxNews} \subseteq Nat /\ 0 < Polls

VARIABLES
  provider,    \* vindi or pagbank
  address,     \* the tenant has a billing address
  row,         \* of subscriptions: agreement (0: none) and status
  open,        \* the open invoice of the row: none, with or without a QR code
  customer,    \* at Vindi: none, or with or without an address
  agreements,  \* at the provider, [state, pix, addressed]
  checkout,    \* where the request is and what it holds
  checkouts, failures, news,
  unsure,      \* history: agreements of which a call was not answered well
  superseded   \* history: agreements another replaced without canceling them

gatVars == <<provider, address, row, open, customer, agreements, checkout,
             checkouts, failures, news, unsure, superseded>>
ours == <<provider, address, row, open>>
theirs == <<customer, agreements>>
bounds == <<checkouts, news>>

Outcome == {"ok", "refused", "lost"}
Status == {"pending_payment", "trialing", "active"}
NoBill == [status |-> "none", url |-> FALSE, qr |-> FALSE]
Bill == [status : {"none", "pending", "paid", "failed"}, url : BOOLEAN, qr : BOOLEAN]
Idle == [at |-> "idle", pix |-> FALSE, agreement |-> 0, bill |-> NoBill,
         polls |-> 0, status |-> "pending_payment"]

GatInit ==
  /\ provider \in {"vindi", "pagbank"}
  /\ address = FALSE
  /\ row = [agreement |-> 0, status |-> "pending_payment"]
  /\ open = "none" /\ customer = "none" /\ agreements = <<>>
  /\ checkout = Idle
  /\ checkouts = 0 /\ failures = 0 /\ news = 0
  /\ unsure = {} /\ superseded = {}

--------------------------------------------------------------------------------
(* request and pagbankFetch.  The call the checkout waits for is answered; *)
(* CarriedOut(o) says whether the provider carried it out.                 *)
Answer(step, o) ==
  /\ checkout.at = step
  /\ o # "ok" => failures < MaxFailures
  /\ failures' = IF o = "ok" THEN failures ELSE failures + 1
CarriedOut(o) == o # "refused"

GoOn(step) == checkout' = [checkout EXCEPT !.at = step]
Fail == checkout' = Idle
NextOrFail(o, step) == IF o = "ok" THEN GoOn(step) ELSE Fail

Doubt(o, g) == unsure' = IF o = "ok" THEN unsure ELSE unsure \cup {g}
Close(o, g) ==
  agreements' = IF CarriedOut(o) THEN [agreements EXCEPT ![g].state = "canceled"] ELSE agreements

--------------------------------------------------------------------------------
(* createSubscription and what it dispatches to.                           *)

BeginCheckout(pix) ==
  /\ checkout = Idle /\ checkouts < MaxCheckouts /\ checkouts' = checkouts + 1
  /\ UNCHANGED <<provider, address, row, theirs, failures, news, unsure, superseded>>

Begun(pix, step) == [Idle EXCEPT !.at = step, !.pix = pix, !.status = row.status]

CheckoutCard ==
  /\ BeginCheckout(FALSE)
  /\ checkout' = Begun(FALSE, IF provider = "vindi" THEN "find" ELSE "subscribe")
  /\ UNCHANGED open

(* An unpaid agreement whose invoice can be paid is offered again; one     *)
(* whose invoice cannot is replaced, its invoices failed first.            *)
Replaceable == row.agreement # 0 /\ row.status = "pending_payment"

CheckoutPix ==
  /\ provider = "vindi" /\ address
  /\ ~(Replaceable /\ open = "qr")
  /\ BeginCheckout(TRUE)
  /\ checkout' = Begun(TRUE, IF Replaceable THEN "cancel_old" ELSE "find")
  /\ open' = IF Replaceable THEN "none" ELSE open

CancelOld(o) ==
  /\ Answer("cancel_old", o)
  /\ Close(o, row.agreement) /\ Doubt(o, row.agreement)
  /\ GoOn("find")
  /\ UNCHANGED <<ours, customer, bounds, superseded>>

--------------------------------------------------------------------------------
(* VindiProvider.getOrCreateCustomer: the search by the tenant's code, in  *)
(* two syntaxes, may miss a customer that is there.                        *)

Paying == IF checkout.pix THEN "subscribe" ELSE "profile"
NeverPuts == Paying                                        \* mutated form
PutAddress == IF address THEN "put_address" ELSE Paying

Find(o, found) ==
  /\ Answer("find", o) /\ (found => customer # "none")
  /\ NextOrFail(o, IF found THEN PutAddress ELSE "create_customer")
  /\ UNCHANGED <<ours, theirs, bounds, unsure, superseded>>

Addressed == IF address THEN "address" ELSE "plain"

(* A code that is taken is refused with 422, and searched for once more.   *)
CreateCustomer(o) ==
  /\ customer = "none" /\ Answer("create_customer", o)
  /\ customer' = IF CarriedOut(o) THEN Addressed ELSE customer
  /\ NextOrFail(o, Paying)
  /\ UNCHANGED <<ours, agreements, bounds, unsure, superseded>>

CodeTaken ==
  /\ customer # "none" /\ Answer("create_customer", "ok")
  /\ GoOn("find_again")
  /\ UNCHANGED <<ours, theirs, bounds, unsure, superseded>>

FindAgain(o, found) ==
  /\ Answer("find_again", o) /\ (found => customer # "none")
  /\ IF found THEN NextOrFail(o, PutAddress) ELSE Fail
  /\ UNCHANGED <<ours, theirs, bounds, unsure, superseded>>

UpdateCustomer(o) ==
  /\ Answer("put_address", o)
  /\ customer' = IF CarriedOut(o) THEN Addressed ELSE customer
  /\ NextOrFail(o, Paying)
  /\ UNCHANGED <<ours, agreements, bounds, unsure, superseded>>

PaymentProfile(o) ==
  /\ Answer("profile", o)
  /\ NextOrFail(o, "subscribe")
  /\ UNCHANGED <<ours, theirs, bounds, unsure, superseded>>

--------------------------------------------------------------------------------
(* POST /subscriptions.  Vindi answers with the bill of the first cycle or *)
(* none; PagBank has no bill, and an agreement it declines is not open.    *)

New == Len(agreements) + 1
Subscribed(state) == Append(agreements,
  [state |-> state, pix |-> checkout.pix, addressed |-> customer = "address"])

SubscribeVindi(o, bill) ==
  /\ provider = "vindi" /\ Answer("subscribe", o)
  /\ bill.status = "none" => bill = NoBill
  /\ o # "ok" \/ ~checkout.pix => ~bill.qr
  /\ agreements' = IF CarriedOut(o) THEN Subscribed("open") ELSE agreements
  /\ unsure' = IF o = "lost" THEN unsure \cup {New} ELSE unsure
  /\ IF o # "ok" THEN Fail
     ELSE checkout' = [checkout EXCEPT !.agreement = New, !.bill = bill,
            !.at = IF checkout.pix /\ bill.status = "pending" /\ ~bill.qr THEN "poll" ELSE "assert"]
  /\ UNCHANGED <<ours, customer, bounds, superseded>>

SubscribePagBank(o, status) ==
  /\ provider = "pagbank" /\ Answer("subscribe", o)
  /\ agreements' = IF CarriedOut(o) THEN Subscribed(IF status = "failed" THEN "canceled" ELSE "open") ELSE agreements
  /\ unsure' = IF o = "lost" THEN unsure \cup {New} ELSE unsure
  /\ IF o # "ok" \/ status = "failed" THEN Fail
     ELSE checkout' = [checkout EXCEPT !.agreement = New, !.at = "persist",
            !.bill.status = IF status = "active" THEN "paid" ELSE "none"]
  /\ UNCHANGED <<ours, customer, bounds, superseded>>

(* waitForPixQrCode: an error counts as one of the times.                  *)
OneMore(n) == n = Polls                                    \* mutated form
LastPoll(n) == n + 1 = Polls

PollBill(o, qr) ==
  /\ Answer("poll", o) /\ (qr => o = "ok")
  /\ checkout' = [checkout EXCEPT !.bill.qr = qr, !.polls = @ + 1,
       !.bill.url = @ \/ o = "ok",
       !.at = IF qr \/ LastPoll(checkout.polls) THEN "assert" ELSE "poll"]
  /\ UNCHANGED <<ours, theirs, bounds, unsure, superseded>>

(* assertInitialCharge: without a bill that can be paid the agreement is   *)
(* withdrawn.                                                              *)
Payable(bill) == bill.status \in {"pending", "paid"} /\ (bill.url \/ bill.qr)

AssertInitialCharge ==
  /\ checkout.at = "assert"
  /\ GoOn(IF Payable(checkout.bill) THEN "persist" ELSE "withdraw")
  /\ UNCHANGED <<ours, theirs, bounds, failures, unsure, superseded>>

(* assertInitialCharge and cancelUnpersistedSubscription swallow an error. *)
KeptOpen(o) == UNCHANGED <<agreements, unsure>>            \* mutated form
CloseMade(o) == Close(o, checkout.agreement) /\ Doubt(o, checkout.agreement)

Withdraw(o) ==
  /\ Answer("withdraw", o)
  /\ CloseMade(o)
  /\ Fail
  /\ UNCHANGED <<ours, customer, bounds, superseded>>

--------------------------------------------------------------------------------
(* The short transaction that writes the agreement and its first invoice.  *)
(* The status comes from the row as it was read.                           *)

StatusAfter ==
  IF checkout.bill.status = "paid" THEN "active"
  ELSE IF checkout.status = "trialing" THEN "trialing" ELSE "pending_payment"

OpenAfter ==
  IF checkout.bill.status # "pending" THEN open ELSE IF checkout.bill.qr THEN "qr" ELSE "plain"

Replaced == checkout.pix /\ checkout.status = "pending_payment"

Persist ==
  /\ checkout.at = "persist"
  /\ row' = [agreement |-> checkout.agreement, status |-> StatusAfter]
  /\ superseded' = IF Replaced \/ row.agreement = 0 THEN superseded
                   ELSE superseded \cup {row.agreement}
  /\ open' = OpenAfter
  /\ checkout' = Idle
  /\ UNCHANGED <<provider, address, theirs, bounds, failures, unsure>>

PersistFails ==
  /\ Answer("persist", "refused")
  /\ GoOn("withdraw")
  /\ UNCHANGED <<ours, theirs, bounds, unsure, superseded>>

(* The process of the request dies, and nothing takes the checkout up.     *)
RequestDies ==
  /\ checkout # Idle /\ failures < MaxFailures /\ failures' = failures + 1
  /\ unsure' = unsure \cup ({checkout.agreement} \ {0})
  /\ Fail
  /\ UNCHANGED <<ours, theirs, bounds, superseded>>

--------------------------------------------------------------------------------
(* What others write meanwhile.                                            *)

News == news < MaxNews /\ news' = news + 1

(* updateTenantBillingAddress                                              *)
SaveAddress ==
  /\ News /\ ~address /\ checkout = Idle
  /\ address' = TRUE
  /\ UNCHANGED <<provider, row, open, theirs, checkout, checkouts, failures, unsure, superseded>>

(* A webhook, the end of a trial, a grant of the platform's admin.         *)
StatusChanges(status) ==
  /\ News /\ row.status # status
  /\ row' = [row EXCEPT !.status = status]
  /\ UNCHANGED <<provider, address, open, theirs, checkout, checkouts, failures, unsure, superseded>>

GatNext ==
  \/ CheckoutCard \/ CheckoutPix \/ CodeTaken \/ AssertInitialCharge
  \/ \E o \in Outcome : \/ CancelOld(o) \/ CreateCustomer(o) \/ UpdateCustomer(o)
                        \/ PaymentProfile(o) \/ Withdraw(o)
  \/ \E o \in Outcome, yes \in BOOLEAN : Find(o, yes) \/ FindAgain(o, yes) \/ PollBill(o, yes)
  \/ \E o \in Outcome, bill \in Bill : SubscribeVindi(o, bill)
  \/ \E o \in Outcome, s \in {"active", "pending", "failed"} : SubscribePagBank(o, s)
  \/ Persist \/ PersistFails \/ RequestDies
  \/ SaveAddress \/ \E s \in Status : StatusChanges(s)

GatSpec == GatInit /\ [][GatNext]_gatVars

--------------------------------------------------------------------------------
GatTypeOK ==
  /\ provider \in {"vindi", "pagbank"} /\ address \in BOOLEAN
  /\ row \in [agreement : 0 .. Len(agreements), status : Status]
  /\ open \in {"none", "plain", "qr"} /\ customer \in {"none", "plain", "address"}
  /\ agreements \in Seq([state : {"open", "canceled"}, pix : BOOLEAN, addressed : BOOLEAN])
  /\ checkout.at \in {"idle", "cancel_old", "find", "create_customer", "find_again",
       "put_address", "profile", "subscribe", "poll", "assert", "withdraw", "persist"}
  /\ checkout.agreement \in 0 .. Len(agreements) /\ checkout.polls \in 0 .. Polls
  /\ checkout.bill \in Bill /\ checkout.status \in Status /\ checkout.pix \in BOOLEAN
  /\ checkouts \in 0 .. MaxCheckouts /\ failures \in 0 .. MaxFailures /\ news \in 0 .. MaxNews
  /\ unsure \subseteq 1 .. Len(agreements) /\ superseded \subseteq 1 .. Len(agreements)

(* An agreement that is open at the provider, and so bills the tenant, is  *)
(* the one the row names or one a checkout still holds, unless a call      *)
(* about it was refused, its answer lost or the process gone, or the       *)
(* tenant checked out again by card or over an agreement that is not       *)
(* pending (subscriptions.ts:127-130, :215-220, :237-243; vindi.ts:126).   *)
NoStrayAgreement ==
  \A g \in DOMAIN agreements :
    agreements[g].state = "open" =>
      g \in {row.agreement, checkout.agreement} \cup unsure \cup superseded

(* A Pix agreement is only ever made for a customer whose address Vindi    *)
(* has, else it would be billed without a QR code (vindi.ts:91-92,         *)
(* :222-227), whichever request made the customer and whatever search      *)
(* found it.                                                               *)
PixHasAddress ==
  \A g \in DOMAIN agreements : agreements[g].pix => agreements[g].addressed
================================================================================
